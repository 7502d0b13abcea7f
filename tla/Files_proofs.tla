----------------------------- MODULE Files_proofs -----------------------------
(* What an edit, a move or an undo does to the workspace, for every set of    *)
(* files and every journal, whoever else writes there: nothing the model was    *)
(* not shown is changed, nothing is lost, and an undo restores what was.        *)
EXTENDS Files, FiniteSetTheorems, WellFoundedInduction, TLAPS

(* What a file may hold. *)
Held == Contents \cup {Empty}
Kinds == {"create", "overwrite", "replace", "delete", "move"}
Entries == [path : Paths, kind : Kinds, old : Nodes \cup {Blank}, new : Held \cup {Blank}, nl : BOOLEAN,
            kept : BOOLEAN, dir : BOOLEAN, from : Paths, undoOf : Nat, turn : Nat]
Receipts == [path : Paths, content : Held, seen : (SUBSET Regions) \ {{}}, known : SUBSET Regions, own : BOOLEAN]
Plans == [stage : {"planned", "checked"}, kind : Kinds \ {"move"}, path : Paths, new : Held,
          by : Receipts \cup {NoReceipt}, old : Held]
Moves == [stage : {"moving", "linked"}, from : Paths, to : Paths, dir : BOOLEAN]
Undos == [stage : {"priors", "undoing"}, left : Seq(Nat), done : Seq(Nat), priors : {<<>>} \cup [Paths -> Held]]

Typed ==
  /\ disk \in [Paths -> Nodes] /\ receipts \subseteq Receipts
  /\ journal \in Seq(Entries) /\ Len(journal) <= MaxEntries /\ logged \in 0 .. Len(journal)
  /\ op \in {Idle} \cup Plans \cup Moves \cup Undos
  /\ turn \in Nat /\ 1 <= turn /\ turn <= MaxTurns + crashes
  /\ outside \in 0 .. MaxOutside /\ crashes \in 0 .. MaxCrashes /\ raced \subseteq Paths

(* An entry at place i: it says what was put there, and what it takes back is older. *)
Recorded(e, i, t) ==
  /\ e.undoOf \in 0 .. (i - 1) /\ e.turn \in 1 .. t
  /\ e.kind # "move" => e.new # Blank
  /\ e.kind = "delete" /\ e.dir /\ e.undoOf = 0 => e.old = Dir
Journalled == \A i \in DOMAIN journal : Recorded(journal[i], i, turn)

(* The entries of an undo are taken newest first, and what is rewritten is what was. *)
Undoable(i) == i \in DOMAIN journal /\ (Reversal(journal[i]) = "write" => Recovers(journal[i]))
NewestLast(s) == \A m, n \in DOMAIN s : m < n => s[n] < s[m]
InOrder(s) == (\A m \in DOMAIN s : Undoable(s[m])) /\ NewestLast(s)
Standing ==
  /\ op.stage \in {"planned", "checked", "moving", "linked"} => Len(journal) < MaxEntries
  /\ op.stage \in {"priors", "undoing"} =>
       /\ Len(journal) + Len(op.left) + Len(op.done) <= MaxEntries
       /\ InOrder(op.left) /\ InOrder(op.done)
       /\ \A m \in DOMAIN op.done, n \in DOMAIN op.left : op.left[n] < op.done[m]
  /\ op.stage \in {"planned", "checked"} /\ op.kind # "create" => op.by \in Receipts
  /\ op.stage = "priors" => op.done = <<>>
  /\ op.stage = "undoing" => op.priors \in [Paths -> Held]

LEMMA SpecialsAre ==
  /\ Absent.is = "absent" /\ Dir.is = "dir" /\ Blank.is = "blank"
  /\ Absent.nl = TRUE /\ Dir.nl = TRUE /\ Empty.nl = TRUE /\ Empty.is = "file"
  /\ Absent # Blank /\ Dir # Blank /\ Absent # Dir
<1>1. /\ Absent.is = "absent" /\ Dir.is = "dir" /\ Blank.is = "blank" /\ Empty.is = "file"
      /\ Absent.nl = TRUE /\ Dir.nl = TRUE /\ Empty.nl = TRUE
  BY DEF Absent, Dir, Blank, Special, Empty, File
<1>2. QED BY <1>1

LEMMA HeldIs ==
  ASSUME NEW c \in Held
  PROVE  c \in Nodes /\ c.is = "file" /\ c.nl \in BOOLEAN /\ c \notin {Absent, Dir, Blank}
<1>1. c.is = "file" /\ c.nl \in BOOLEAN
  <2>1. CASE c \in Contents BY <2>1, FilesAssumption
  <2>2. CASE c = Empty BY <2>2, SpecialsAre
  <2>3. QED BY <2>1, <2>2 DEF Held
<1>2. QED BY <1>1, SpecialsAre DEF Held, Nodes

LEMMA NodeIs ==
  ASSUME NEW x \in Nodes
  PROVE  /\ x.nl \in BOOLEAN /\ x # Blank
         /\ x.is = "file" => x \in Held
         /\ x = Absent \/ x = Dir \/ x \in Held
<1>1. CASE x \in Held BY <1>1, HeldIs
<1>2. CASE x \in {Absent, Dir}
  <2>1. x.is # "file" /\ x.nl \in BOOLEAN /\ x # Blank BY <1>2, SpecialsAre
  <2>2. QED BY <1>2, <2>1
<1>3. QED BY <1>1, <1>2 DEF Nodes, Held

(* The stage of a call says what is known of it. *)
LEMMA StageIs ==
  ASSUME NEW o \in {Idle} \cup Plans \cup Moves \cup Undos
  PROVE  /\ o.stage \in {"planned", "checked"} => o \in Plans
         /\ o.stage \in {"moving", "linked"} => o \in Moves
         /\ o.stage \in {"priors", "undoing"} => o \in Undos
         /\ o.stage \notin {"planned", "checked", "moving", "linked", "priors", "undoing"} => o = Idle
<1>1. CASE o = Idle BY <1>1 DEF Idle
<1>2. CASE o \in Plans BY <1>2 DEF Plans
<1>3. CASE o \in Moves BY <1>3 DEF Moves
<1>4. CASE o \in Undos BY <1>4 DEF Undos
<1>5. QED BY <1>1, <1>2, <1>3, <1>4

LEMMA IdleIs == Idle.stage = "idle" BY DEF Idle

(* The journal grows by an entry, or by several. *)
LEMMA Appended ==
  ASSUME Typed, Journalled, NEW e \in Entries, Recorded(e, Len(journal) + 1, turn), Len(journal) < MaxEntries,
         journal' = Append(journal, e), turn' = turn
  PROVE  journal' \in Seq(Entries) /\ Len(journal') <= MaxEntries /\ Len(journal') = Len(journal) + 1 /\ Journalled'
<1>1. journal \in Seq(Entries) /\ Len(journal) \in Nat /\ MaxEntries \in Nat BY FilesAssumption DEF Typed
<1>2. journal' \in Seq(Entries) /\ Len(journal') = Len(journal) + 1 BY <1>1
<1>3. ASSUME NEW i \in DOMAIN journal' PROVE Recorded(journal'[i], i, turn)
  <2>1. CASE i = Len(journal) + 1
    <3>1. journal'[i] = e BY <1>1, <2>1
    <3>2. QED BY <2>1, <3>1
  <2>2. CASE i # Len(journal) + 1
    <3>1. i \in DOMAIN journal /\ journal'[i] = journal[i] BY <1>1, <1>2, <2>2
    <3>2. QED BY <3>1 DEF Journalled
  <2>3. QED BY <2>1, <2>2
<1>4. Journalled' BY <1>3, turn' = turn DEF Journalled
<1>5. QED BY <1>1, <1>2, <1>4

LEMMA Extended ==
  ASSUME Typed, Journalled, NEW s \in Seq(Entries), \A n \in DOMAIN s : Recorded(s[n], Len(journal) + n, turn),
         Len(journal) + Len(s) <= MaxEntries, journal' = journal \o s, turn' = turn
  PROVE  journal' \in Seq(Entries) /\ Len(journal') <= MaxEntries /\ Len(journal') >= Len(journal) /\ Journalled'
<1>1. journal \in Seq(Entries) /\ Len(journal) \in Nat /\ MaxEntries \in Nat BY FilesAssumption DEF Typed
<1>2. journal' \in Seq(Entries) /\ Len(journal') = Len(journal) + Len(s) BY <1>1
<1>3. ASSUME NEW i \in DOMAIN journal' PROVE Recorded(journal'[i], i, turn)
  <2>1. CASE i > Len(journal)
    <3> DEFINE n == i - Len(journal)
    <3>1. i \in Nat /\ n \in DOMAIN s /\ i = Len(journal) + n /\ journal'[i] = s[n] BY <1>1, <1>2, <2>1
    <3> HIDE DEF n
    <3>2. Recorded(s[n], Len(journal) + n, turn) BY <3>1
    <3>3. QED BY <3>1, <3>2
  <2>2. CASE ~(i > Len(journal))
    <3>1. i \in DOMAIN journal /\ journal'[i] = journal[i] BY <1>1, <1>2, <2>2
    <3>2. QED BY <3>1 DEF Journalled
  <2>3. QED BY <2>1, <2>2
<1>4. Journalled' BY <1>3, turn' = turn DEF Journalled
<1>5. QED BY <1>1, <1>2, <1>4

-----------------------------------------------------------------------------
(* The selection of an undo.                                                *)

(* A set of naturals has a least member. *)
LEMMA LeastOf ==
  ASSUME NEW T, T \subseteq Nat, T # {}
  PROVE  \E x \in T : \A y \in T : x <= y
<1> DEFINE R == OpToRel(<, Nat)
<1>1. IsWellFoundedOn(R, Nat) BY NatLessThanWellFounded
<1>2. R = {ss \in Nat \X Nat : ss[1] < ss[2]} BY DEF OpToRel
<1>3. \E x \in T : \A y \in T : ~(<<y, x>> \in R)
  <2> HIDE DEF R
  <2> QED BY <1>1, WFMin
<1>4. PICK x \in T : \A y \in T : ~(<<y, x>> \in R) BY <1>3
<1>5. ASSUME NEW y \in T PROVE x <= y
  <2>1. x \in Nat /\ y \in Nat OBVIOUS
  <2>2. ~(<<y, x>> \in {ss \in Nat \X Nat : ss[1] < ss[2]}) BY <1>2, <1>4
  <2>3. ~(y < x) BY <2>1, <2>2
  <2>4. QED BY <2>1, <2>3
<1>6. QED BY <1>5

(* What holds of 0 and goes from each number to the next holds up to n. *)
LEMMA Induct ==
  ASSUME NEW n \in Nat, NEW T, 0 \in T, \A k \in 0 .. n : k # n /\ k \in T => k + 1 \in T
  PROVE  0 .. n \subseteq T
<1> DEFINE Fails == {k \in 0 .. n : k \notin T}
<1>1. SUFFICES ASSUME Fails # {} PROVE FALSE OBVIOUS
<1>2. Fails \subseteq Nat OBVIOUS
<1>3. PICK x \in Fails : \A y \in Fails : x <= y
  <2> HIDE DEF Fails
  <2> QED BY <1>1, <1>2, LeastOf
<1>4. x # 0 /\ x - 1 \in 0 .. n /\ x - 1 \notin Fails /\ x - 1 # n BY <1>3
<1>5. x - 1 \in T BY <1>4
<1>6. QED BY <1>3, <1>4, <1>5

(* The members of S up to n, newest first. *)
NextOf(S, f, m) == IF m = 0 THEN <<>> ELSE IF m \in S THEN <<m>> \o f[m - 1] ELSE f[m - 1]
Gathers(S, f, n) == f = [m \in 0 .. n |-> NextOf(S, f, m)]

LEMMA GathersMore ==
  ASSUME NEW S, NEW k \in Nat, NEW f, Gathers(S, f, k)
  PROVE  \E g : Gathers(S, g, k + 1)
<1> DEFINE g == [m \in 0 .. (k + 1) |-> IF m = k + 1 THEN NextOf(S, f, m) ELSE f[m]]
<1>1. \A m \in 0 .. k : f[m] = NextOf(S, f, m)
  <2>1. f = [m \in 0 .. k |-> NextOf(S, f, m)] BY DEF Gathers
  <2>2. QED BY <2>1
<1>2. g = [m \in 0 .. (k + 1) |-> g[m]] /\ g[k + 1] = NextOf(S, f, k + 1) OBVIOUS
<1>3. \A m \in 0 .. k : g[m] = f[m]
  <2>1. \A m \in 0 .. k : m \in 0 .. (k + 1) /\ m # k + 1 OBVIOUS
  <2>2. QED BY <2>1
<1> HIDE DEF g
<1>4. ASSUME NEW m \in 0 .. (k + 1) PROVE g[m] = NextOf(S, g, m)
  <2>1. m = 0 \/ m - 1 \in 0 .. k OBVIOUS
  <2>2. NextOf(S, g, m) = NextOf(S, f, m) BY <1>3, <2>1 DEF NextOf
  <2>3. m = k + 1 \/ m \in 0 .. k OBVIOUS
  <2>4. QED BY <1>1, <1>2, <1>3, <2>2, <2>3
<1>5. QED BY <1>2, <1>4 DEF Gathers

LEMMA GathersAll ==
  ASSUME NEW S, NEW n \in Nat
  PROVE  \E f : Gathers(S, f, n)
<1> DEFINE T == {k \in 0 .. n : \E f : Gathers(S, f, k)}
<1>1. Gathers(S, [m \in 0 .. 0 |-> <<>>], 0) BY DEF Gathers, NextOf
<1>2. 0 \in T
  <2>1. \E f : Gathers(S, f, 0) BY <1>1
  <2>2. QED BY <2>1
<1>3. ASSUME NEW k \in 0 .. n, k # n, k \in T PROVE k + 1 \in T
  <2>1. \E f : Gathers(S, f, k) BY <1>3
  <2>2. \E g : Gathers(S, g, k + 1) BY <2>1, GathersMore
  <2>3. k + 1 \in 0 .. n BY <1>3
  <2>4. QED BY <2>2, <2>3
<1>4. 0 .. n \subseteq T
  <2> HIDE DEF T
  <2> QED BY <1>2, <1>3, Induct
<1>5. n \in T BY <1>4
<1>6. QED BY <1>5

GoodUpTo(S, s, n) == s \in Seq(Nat) /\ NewestLast(s) /\ \A m \in DOMAIN s : s[m] \in S /\ s[m] <= n

LEMMA GoodGrows ==
  ASSUME NEW S, NEW k \in Nat, NEW s, GoodUpTo(S, s, k)
  PROVE  GoodUpTo(S, s, k + 1) /\ (k + 1 \in S => GoodUpTo(S, <<k + 1>> \o s, k + 1))
<1>1. s \in Seq(Nat) /\ NewestLast(s) /\ \A m \in DOMAIN s : s[m] \in Nat /\ s[m] \in S /\ s[m] <= k BY DEF GoodUpTo
<1>2. GoodUpTo(S, s, k + 1) BY <1>1 DEF GoodUpTo
<1>3. ASSUME k + 1 \in S PROVE GoodUpTo(S, <<k + 1>> \o s, k + 1)
  <2>1. PICK t : t = <<k + 1>> \o s OBVIOUS
  <2>2. /\ t \in Seq(Nat) /\ Len(t) = Len(s) + 1 /\ t[1] = k + 1 /\ Len(s) \in Nat
        /\ \A m \in DOMAIN t : m # 1 => m - 1 \in DOMAIN s /\ t[m] = s[m - 1]
    BY <1>1, <2>1
  <2>3. \A m \in DOMAIN t : t[m] \in S /\ t[m] <= k + 1 /\ (m # 1 => t[m] <= k) /\ t[m] \in Nat
    <3>1. ASSUME NEW m \in DOMAIN t PROVE t[m] \in S /\ t[m] <= k + 1 /\ (m # 1 => t[m] <= k) /\ t[m] \in Nat
      <4>1. CASE m = 1 BY <1>3, <2>2, <4>1
      <4>2. CASE m # 1
        <5>1. s[m - 1] \in Nat /\ s[m - 1] \in S /\ s[m - 1] <= k /\ t[m] = s[m - 1] BY <1>1, <2>2, <4>2
        <5>2. QED BY <5>1, <4>2
      <4>3. QED BY <4>1, <4>2
    <3>2. QED BY <3>1
  <2>4. ASSUME NEW m \in DOMAIN t, NEW n \in DOMAIN t, m < n PROVE t[n] < t[m]
    <3>0. m \in Nat /\ n \in Nat /\ n # 1 /\ m >= 1 BY <2>2, <2>4
    <3>1. CASE m = 1 BY <2>2, <2>3, <3>0, <3>1
    <3>2. CASE m # 1
      <4>1. m - 1 \in DOMAIN s /\ n - 1 \in DOMAIN s /\ t[m] = s[m - 1] /\ t[n] = s[n - 1] BY <2>2, <3>0, <3>2
      <4>2. m - 1 < n - 1 BY <2>4, <3>0
      <4>3. QED BY <1>1, <4>1, <4>2 DEF NewestLast
    <3>3. QED BY <3>1, <3>2
  <2>5. GoodUpTo(S, t, k + 1) BY <2>2, <2>3, <2>4 DEF GoodUpTo, NewestLast
  <2>6. QED BY <2>1, <2>5
<1>4. QED BY <1>2, <1>3

LEMMA NewestFirstIs ==
  ASSUME journal \in Seq(Entries), NEW S, S \subseteq DOMAIN journal
  PROVE  /\ NewestFirst(S) \in Seq(Nat) /\ NewestLast(NewestFirst(S))
         /\ \A m \in DOMAIN NewestFirst(S) : NewestFirst(S)[m] \in S
<1> DEFINE upTo[n \in 0 .. Len(journal)] ==
             IF n = 0 THEN <<>> ELSE IF n \in S THEN <<n>> \o upTo[n - 1] ELSE upTo[n - 1]
<1>1. NewestFirst(S) = upTo[Len(journal)] BY DEF NewestFirst
<1>2. upTo = CHOOSE f : Gathers(S, f, Len(journal)) BY DEF Gathers, NextOf
<1> HIDE DEF upTo
<1>3. PICK L \in Nat : L = Len(journal) OBVIOUS
<1>4. Gathers(S, upTo, L) BY <1>2, <1>3, GathersAll
<1>5. upTo = [m \in 0 .. L |-> NextOf(S, upTo, m)] BY <1>4 DEF Gathers
<1>6. \A n \in 0 .. L : upTo[n] = NextOf(S, upTo, n) BY <1>5
<1> DEFINE G == {n \in 0 .. L : GoodUpTo(S, upTo[n], n)}
<1>7. 0 \in G
  <2>1. 0 \in 0 .. L BY <1>3
  <2>2. upTo[0] = <<>> BY <1>6, <2>1 DEF NextOf
  <2>3. GoodUpTo(S, <<>>, 0) BY DEF GoodUpTo, NewestLast
  <2>4. QED BY <2>1, <2>2, <2>3
<1>8. ASSUME NEW k \in 0 .. L, k # L, k \in G PROVE k + 1 \in G
  <2>1. k \in Nat /\ k + 1 \in 0 .. L /\ (k + 1) - 1 = k /\ k + 1 # 0 BY <1>3, <1>8
  <2>2. GoodUpTo(S, upTo[k], k) BY <1>8
  <2>3. upTo[k + 1] = IF k + 1 \in S THEN <<k + 1>> \o upTo[k] ELSE upTo[k]
    <3>1. upTo[k + 1] = NextOf(S, upTo, k + 1) BY <1>6, <2>1
    <3>2. QED BY <2>1, <3>1 DEF NextOf
  <2>4. GoodUpTo(S, upTo[k + 1], k + 1) BY <2>1, <2>2, <2>3, GoodGrows
  <2>5. QED BY <2>1, <2>4
<1>9. 0 .. L \subseteq G
  <2> HIDE DEF G
  <2> QED BY <1>3, <1>7, <1>8, Induct
<1>10. GoodUpTo(S, upTo[L], L)
  <2>1. L \in G BY <1>3, <1>9
  <2>2. QED BY <2>1
<1>11. QED BY <1>1, <1>3, <1>10 DEF GoodUpTo

(* Whatever is asked for, it is known entries, newest first. *)
LEMMA SelectedIs ==
  ASSUME journal \in Seq(Entries), NEW operator \in BOOLEAN, NEW selected \in Selections(operator)
  PROVE  selected \in Seq(Nat) /\ NewestLast(selected) /\ \A m \in DOMAIN selected : selected[m] \in DOMAIN journal
<1>1. Candidates(operator) \subseteq DOMAIN journal BY DEF Candidates
<1>2. PICK S \in SUBSET Candidates(operator) : selected = NewestFirst(S) BY DEF Selections
<1>3. S \subseteq DOMAIN journal BY <1>1, <1>2
<1>4. QED BY <1>2, <1>3, NewestFirstIs

-----------------------------------------------------------------------------
(* The types, and what each stage of a call keeps.                          *)

LEMMA RecoveredIs ==
  ASSUME NEW e \in Entries, Recovers(e)
  PROVE  Reconstructed(e) = e.old /\ Reconstructed(e) \in Held
<1>1. Reconstructed(e) = e.old /\ e.old \in Nodes \cup {Blank} BY DEF Recovers, Entries
<1>2. Reconstructed(e).is = "file" BY DEF Reconstructed, File
<1>3. QED BY <1>1, <1>2, NodeIs, SpecialsAre

LEMMA ReversalIs ==
  ASSUME Typed, Journalled, Standing, op.stage = "undoing", NEW i \in DOMAIN journal, Undoable(i), NEW n \in Nat, i < n
  PROVE  ReversalEntry(i) \in Entries /\ Recorded(ReversalEntry(i), n, turn)
<1>1. PICK e \in Entries : e = journal[i] BY DEF Typed
<1> DEFINE kind == CASE Reversal(e) = "remove" -> "delete"
                     [] Reversal(e) = "mkdir" -> "create"
                     [] Reversal(e) = "rename" -> "move"
                     [] e.kind = "delete" -> "create"
                     [] OTHER -> "replace"
           restored == IF Reversal(e) = "write" THEN Reconstructed(e) ELSE Empty
           path == IF kind = "move" THEN e.from ELSE e.path
           x == Entry(path, kind, op.priors[e.path], restored, restored.nl)
<1>2. e.path \in Paths /\ e.from \in Paths /\ e.dir \in BOOLEAN /\ e.undoOf \in Nat BY DEF Entries
<1>3. kind \in Kinds /\ (Reversal(e) \in {"remove", "mkdir", "rename", "write"})
  BY DEF Kinds, Reversal
<1>4. restored \in Held
  <2>1. CASE Reversal(e) = "write" BY <1>1, <2>1, RecoveredIs DEF Undoable
  <2>2. CASE Reversal(e) # "write" BY <2>2 DEF Held
  <2>3. QED BY <2>1, <2>2
<1>5. op.priors[e.path] \in Nodes BY <1>2, HeldIs DEF Standing
<1>6. restored.nl \in BOOLEAN /\ restored # Blank BY <1>4, HeldIs
<1>7. path \in Paths BY <1>2
<1>8. ReversalEntry(i) = [x EXCEPT !.undoOf = i, !.dir = e.dir, !.from = e.path] BY <1>1 DEF ReversalEntry
<1>9. kind = "delete" => Reversal(e) = "remove" BY <1>3
<1>16. x = Entry(path, kind, op.priors[e.path], restored, restored.nl) OBVIOUS
<1> HIDE DEF kind, restored, path, x
<1>17. op.priors[e.path] \in Nodes \cup {Blank} /\ restored \in Held \cup {Blank} BY <1>4, <1>5
<1>18. restored.nl \in BOOLEAN /\ kind \in Kinds BY <1>3, <1>6
<1>10. /\ x \in Entries /\ x.path = path /\ x.kind = kind /\ x.old = op.priors[e.path] /\ x.new = restored
       /\ x.turn = turn
  BY <1>7, <1>16, <1>17, <1>18 DEF Entry, Entries, Typed
<1>11. i \in Nat /\ i # 0 /\ turn \in Nat /\ 1 <= turn BY DEF Typed
<1>12. PICK y \in Entries : y = [x EXCEPT !.undoOf = i, !.dir = e.dir, !.from = e.path]
  BY <1>2, <1>10, <1>11 DEF Entries
<1>13. y.undoOf = i /\ y.turn = turn /\ y.kind = kind /\ y.new = restored BY <1>10, <1>12 DEF Entries
<1>14. Recorded(y, n, turn) BY <1>6, <1>11, <1>13 DEF Recorded
<1>15. QED BY <1>8, <1>12, <1>14

LEMMA DurableIs ==
  ASSUME NEW e \in Entries, NEW i \in Nat, NEW t \in Nat, t >= turn, turn \in Nat, Recorded(e, i, turn)
  PROVE  Durable(e) \in Entries /\ Recorded(Durable(e), i, t)
<1>1. PICK k \in BOOLEAN : k = (e.kept /\ ~Secretive(e.old) /\ ~Secretive(e.new)) BY DEF Entries
<1>2. Durable(e) = [e EXCEPT !.kept = k] BY <1>1 DEF Durable, Entries
<1>3. PICK y \in Entries : y = [e EXCEPT !.kept = k] BY DEF Entries
<1>4. y.undoOf = e.undoOf /\ y.turn = e.turn /\ y.kind = e.kind /\ y.new = e.new /\ y.dir = e.dir /\ y.old = e.old
  BY <1>3 DEF Entries
<1>5. Recorded(y, i, t) BY <1>4 DEF Recorded
<1>6. QED BY <1>2, <1>3, <1>5

(* What may be taken back by writing it is what the recorded diff gives. *)
LEMMA ReversibleRecovers ==
  ASSUME NEW e \in Entries, NEW at, Reversible(e, at), Reversal(e) = "write"
  PROVE  Recovers(e)
<1>1. e.kind # "move" /\ e.kind # "create" /\ ~(e.kind = "delete" /\ e.dir)
  BY DEF Reversal, Entries
<1>2. CASE e.kind = "delete" BY <1>1, <1>2 DEF Reversible
<1>3. CASE e.kind # "delete" BY <1>1, <1>3 DEF Reversible
<1>4. QED BY <1>2, <1>3

LEMMA AcceptedIs ==
  ASSUME journal \in Seq(Entries), NEW selected \in Seq(Nat), Accepted(selected),
         \A m \in DOMAIN selected : selected[m] \in DOMAIN journal
  PROVE  \A m \in DOMAIN selected : Undoable(selected[m])
<1>1. ASSUME NEW m \in DOMAIN selected PROVE Undoable(selected[m])
  <2>1. \E at : Reversible(journal[selected[m]], at) BY DEF Accepted
  <2>2. journal[selected[m]] \in Entries OBVIOUS
  <2>3. QED BY <2>1, <2>2, ReversibleRecovers DEF Undoable
<1>2. QED BY <1>1

(* One step of an undo leaves the files what they can be. *)
LEMMA LeftTyped ==
  ASSUME disk \in [Paths -> Nodes], NEW e \in Entries, Reversal(e) = "write" => Recovers(e)
  PROVE  Left(e) \in [Paths -> Nodes]
<1>1. e.path \in Paths /\ e.from \in Paths /\ {Absent, Dir} \subseteq Nodes BY DEF Entries, Nodes
<1>2. Reversal(e) = "write" => Reconstructed(e) \in Nodes BY RecoveredIs, HeldIs
<1>3. disk[e.path] \in Nodes BY <1>1
<1>4. QED BY <1>1, <1>2, <1>3 DEF Left

LEMMA TypedStep ==
  ASSUME Typed, Journalled, Standing, [Next]_vars
  PROVE  Typed' /\ Journalled' /\ Standing'
<1>1. /\ disk \in [Paths -> Nodes] /\ receipts \subseteq Receipts
      /\ journal \in Seq(Entries) /\ Len(journal) <= MaxEntries /\ logged \in 0 .. Len(journal)
      /\ op \in {Idle} \cup Plans \cup Moves \cup Undos
      /\ turn \in Nat /\ 1 <= turn /\ turn <= MaxTurns + crashes
      /\ outside \in 0 .. MaxOutside /\ crashes \in 0 .. MaxCrashes /\ raced \subseteq Paths
  BY DEF Typed
<1>2. {MaxEdits, MaxEntries, MaxReceipts, MaxCount, MaxOutside, MaxCrashes, MaxTurns} \subseteq Nat BY FilesAssumption
(* what does not concern the journal *)
<1>3. ASSUME UNCHANGED <<journal, turn>> PROVE Journalled'
  <2>1. \A i \in DOMAIN journal : Recorded(journal[i], i, turn) BY DEF Journalled
  <2>2. QED BY <1>3, <2>1 DEF Journalled
<1>4. ASSUME op' = Idle PROVE Standing'
  <2>1. op'.stage = "idle" BY <1>4, IdleIs
  <2>2. QED BY <2>1 DEF Standing
<1>5. ASSUME UNCHANGED <<journal, op>> PROVE Standing'
  BY <1>5 DEF Standing, InOrder, NewestLast, Undoable
<1>6. ASSUME op'.stage \in {"planned", "checked", "moving", "linked"}, Len(journal) < MaxEntries, UNCHANGED journal,
             op'.stage \in {"planned", "checked"} /\ op'.kind # "create" => op'.by \in Receipts
      PROVE  Standing'
  BY <1>6 DEF Standing
<1>7. ASSUME UNCHANGED <<disk, receipts, journal, logged, turn, outside, crashes>>, raced' = {} \/ raced' = raced,
             op' \in {Idle} \cup Plans \cup Moves \cup Undos
      PROVE  Typed'
  BY <1>1, <1>7 DEF Typed
(* a plan is made *)
<1>8. ASSUME NEW plan, plan \in Plans, plan.stage = "planned", Planned(plan), plan.kind = "create" \/ plan.by \in Receipts
      PROVE  Typed' /\ Journalled' /\ Standing'
  <2>1. op' = plan /\ raced' = {} /\ UNCHANGED <<disk, receipts, journal, logged, turn, outside, crashes, reversed>>
        /\ Len(journal) < MaxEntries
    BY <1>8 DEF Planned, MayEdit
  <2>2. QED BY <1>3, <1>6, <1>7, <1>8, <2>1
<1>9. ASSUME NEW kind \in Kinds \ {"move"}, NEW p \in Paths, NEW new \in Held, NEW by \in Receipts \cup {NoReceipt},
             kind = "create" \/ disk[p] \in Held, NEW plan, plan = Plan(kind, p, new, by)
      PROVE  plan \in Plans /\ plan.stage = "planned" /\ plan.kind = kind /\ plan.by = by
  <2>1. PICK old \in Held : old = IF kind = "create" THEN Empty ELSE disk[p] BY <1>9 DEF Held
  <2>2. plan = [stage |-> "planned", kind |-> kind, path |-> p, new |-> new, by |-> by, old |-> old]
    BY <1>9, <2>1 DEF Plan
  <2>3. QED BY <2>2 DEF Plans
(* an entry is journalled and the call is over *)
<1>10. ASSUME NEW e \in Entries, Recorded(e, Len(journal) + 1, turn), Len(journal) < MaxEntries,
              journal' = Append(journal, e), op' = Idle, disk' \in [Paths -> Nodes], receipts' \subseteq Receipts,
              UNCHANGED <<logged, turn, outside, crashes, raced>>
       PROVE  Typed' /\ Journalled' /\ Standing'
  <2>1. journal' \in Seq(Entries) /\ Len(journal') <= MaxEntries /\ Len(journal') = Len(journal) + 1 /\ Journalled'
    BY <1>10, Appended
  <2>2. logged' \in 0 .. Len(journal') BY <1>1, <1>10, <2>1
  <2>3. Typed' BY <1>1, <1>10, <2>1, <2>2 DEF Typed
  <2>4. QED BY <1>4, <1>10, <2>1, <2>3
<1>11. CASE Read
  <2>1. PICK p \in Paths, seen \in Slices :
          /\ disk[p].is = "file" /\ receipts' = receipts \cup {Receipt(p, disk[p], seen, seen, FALSE)}
          /\ UNCHANGED <<disk, journal, logged, op, turn, outside, crashes, raced, reversed>>
    BY <1>11 DEF Read
  <2>2. seen \in (SUBSET Regions) \ {{}} BY FilesAssumption
  <2>3. disk[p] \in Held BY <1>1, <2>1, NodeIs
  <2>4. Receipt(p, disk[p], seen, seen, FALSE) \in Receipts BY <2>2, <2>3 DEF Receipt, Receipts
  <2>5. Typed' BY <1>1, <2>1, <2>4 DEF Typed
  <2>6. QED BY <1>3, <1>5, <2>1, <2>5
<1>12. CASE PlanCreate
  <2>1. PICK p \in Paths, c \in Proposed : Planned(Plan("create", p, c, NoReceipt)) BY <1>12 DEF PlanCreate
  <2>2. c \in Held BY FilesAssumption DEF Held
  <2>3. QED BY <1>8, <1>9, <2>1, <2>2 DEF Kinds
<1>13. CASE PlanOverwrite
  <2>1. PICK r \in receipts, c \in Proposed : WholeRead(r) /\ Planned(Plan("overwrite", r.path, c, r))
    BY <1>13 DEF PlanOverwrite
  <2>2. r \in Receipts /\ r.path \in Paths /\ disk[r.path] \in Held /\ c \in Held
    BY <1>1, <2>1, FilesAssumption DEF Receipts, WholeRead, Fresh, Held
  <2>3. QED BY <1>8, <1>9, <2>1, <2>2 DEF Kinds
<1>14. CASE PlanReplace
  <2>1. PICK r \in receipts, c \in Proposed : RegionRead(r, c) /\ Planned(Plan("replace", r.path, c, r))
    BY <1>14 DEF PlanReplace
  <2>2. r \in Receipts /\ r.path \in Paths /\ disk[r.path] \in Held /\ c \in Held
    BY <1>1, <2>1, FilesAssumption DEF Receipts, RegionRead, Fresh, Held
  <2>3. QED BY <1>8, <1>9, <2>1, <2>2 DEF Kinds
<1>15. CASE PlanDelete
  <2>1. PICK r \in receipts : WholeRead(r) /\ Planned(Plan("delete", r.path, Empty, r)) BY <1>15 DEF PlanDelete
  <2>2. r \in Receipts /\ r.path \in Paths /\ disk[r.path] \in Held /\ Empty \in Held
    BY <1>1, <2>1 DEF Receipts, WholeRead, Fresh, Held
  <2>3. QED BY <1>8, <1>9, <2>1, <2>2 DEF Kinds
<1>16. CASE Recheck
  <2>1. op.stage = "planned" /\ UNCHANGED <<disk, receipts, journal, logged, turn, outside, crashes, reversed>>
        /\ (op' = [op EXCEPT !.stage = "checked"] \/ op' = Idle) /\ (raced' = {} \/ raced' = raced)
    BY <1>16 DEF Recheck
  <2>2. op \in Plans /\ Len(journal) < MaxEntries /\ (op.kind # "create" => op.by \in Receipts)
    BY <1>1, <2>1, StageIs DEF Standing
  <2>3. CASE op' = Idle BY <1>3, <1>4, <1>7, <2>1, <2>3
  <2>4. CASE op' = [op EXCEPT !.stage = "checked"]
    <3>1. op' \in Plans /\ op'.stage = "checked" /\ op'.kind = op.kind /\ op'.by = op.by BY <2>2, <2>4 DEF Plans
    <3>2. QED BY <1>3, <1>6, <1>7, <2>1, <2>2, <3>1
  <2>5. QED BY <2>1, <2>3, <2>4
<1>17. CASE Apply
  <2>1. op.stage = "checked" /\ op' = Idle /\ UNCHANGED <<logged, turn, outside, crashes, raced, reversed>>
    BY <1>17 DEF Apply
  <2>2. op \in Plans /\ Len(journal) < MaxEntries /\ (op.kind # "create" => op.by \in Receipts)
    BY <1>1, <2>1, StageIs DEF Standing
  <2>3. CASE ~Applies(op)
    <3>1. UNCHANGED <<disk, receipts, journal>> BY <1>17, <2>3 DEF Apply
    <3>2. QED BY <1>3, <1>4, <1>7, <2>1, <3>1
  <2>4. CASE Applies(op)
    <3>1. /\ disk' = [disk EXCEPT ![op.path] = IF op.kind = "delete" THEN Absent ELSE op.new]
          /\ receipts' = IF op.kind = "delete" THEN Invalidate(receipts, {op.path}) ELSE receipts \cup {Written(op)}
          /\ journal' = Append(journal, Entry(op.path, op.kind, op.old, op.new, op.old.nl))
      BY <1>17, <2>4 DEF Apply
    <3>2. /\ op.path \in Paths /\ op.kind \in Kinds \ {"move"} /\ op.old \in Held /\ op.new \in Held
      BY <2>2 DEF Plans
    <3>3. disk' \in [Paths -> Nodes]
      <4>1. op.new \in Nodes /\ Absent \in Nodes BY <3>2, HeldIs DEF Nodes
      <4>2. QED BY <1>1, <3>1, <4>1
    <3>4. receipts' \subseteq Receipts
      <4>1. Invalidate(receipts, {op.path}) \subseteq Receipts BY <1>1 DEF Invalidate
      <4>3. Written(op) \in Receipts
        <5>1. PICK known \in SUBSET Regions : Written(op) = Receipt(op.path, op.new, Regions, known, TRUE)
          <6>1. CASE op.kind = "replace"
            <7>1. op.by \in Receipts /\ op.by.known \in SUBSET Regions BY <2>2, <6>1 DEF Receipts
            <7>2. op.by.known \cup Changed(op.old, op.new) \in SUBSET Regions BY <7>1 DEF Changed, Regions
            <7>3. QED BY <6>1, <7>2 DEF Written
          <6>2. CASE op.kind # "replace" BY <6>2 DEF Written
          <6>3. QED BY <6>1, <6>2
        <5>2. Regions \in (SUBSET Regions) \ {{}} BY DEF Regions
        <5>3. QED BY <3>2, <5>1, <5>2 DEF Receipt, Receipts
      <4>4. QED BY <1>1, <3>1, <4>1, <4>3
    <3>5. PICK e \in Entries : e = Entry(op.path, op.kind, op.old, op.new, op.old.nl) /\ Recorded(e, Len(journal) + 1, turn)
      <4>1. op.old.nl \in BOOLEAN /\ op.old \in Nodes \cup {Blank} /\ op.new \in Held \cup {Blank} /\ op.new # Blank
        BY <3>2, HeldIs
      <4>2. PICK e : e = Entry(op.path, op.kind, op.old, op.new, op.old.nl) OBVIOUS
      <4>3. /\ e \in Entries /\ e.undoOf = 0 /\ e.turn = turn /\ e.new = op.new /\ e.dir = FALSE
        BY <1>1, <3>2, <4>1, <4>2 DEF Entry, Entries
      <4>4. Recorded(e, Len(journal) + 1, turn) BY <1>1, <4>1, <4>3 DEF Recorded
      <4>5. QED BY <4>2, <4>3, <4>4
    <3>6. QED BY <1>10, <2>1, <2>2, <3>1, <3>3, <3>4, <3>5
  <2>5. QED BY <2>3, <2>4
<1>18. CASE DeleteDirectory
  <2>1. PICK p \in Paths :
          /\ op = Idle /\ MayEdit /\ disk[p] = Dir /\ disk' = [disk EXCEPT ![p] = Absent]
          /\ journal' = Append(journal, [Entry(p, "delete", Dir, Empty, TRUE) EXCEPT !.dir = TRUE])
          /\ UNCHANGED <<receipts, logged, op, turn, outside, crashes, raced, reversed>>
    BY <1>18 DEF DeleteDirectory
  <2>2. PICK x : x = Entry(p, "delete", Dir, Empty, TRUE) OBVIOUS
  <2>3. x \in Entries /\ x.kind = "delete" /\ x.old = Dir /\ x.new = Empty /\ x.undoOf = 0 /\ x.turn = turn
    BY <1>1, <2>2 DEF Entry, Entries, Kinds, Nodes, Held
  <2>4. PICK e \in Entries : e = [x EXCEPT !.dir = TRUE] BY <2>3 DEF Entries
  <2>5. Recorded(e, Len(journal) + 1, turn)
    <3>1. e.undoOf = 0 /\ e.turn = turn /\ e.new = Empty /\ e.old = Dir BY <2>3, <2>4 DEF Entries
    <3>2. e.new # Blank BY <3>1, SpecialsAre
    <3>3. QED BY <1>1, <3>1, <3>2 DEF Recorded
  <2>6. disk' \in [Paths -> Nodes] BY <1>1, <2>1 DEF Nodes
  <2>7. Len(journal) < MaxEntries /\ op' = Idle BY <2>1 DEF MayEdit
  <2>8. QED BY <1>1, <1>10, <2>1, <2>2, <2>4, <2>5, <2>6, <2>7
<1>19. CASE Move
  <2>1. PICK p \in Paths, q \in Paths :
          /\ MayEdit /\ op' = [stage |-> "moving", from |-> p, to |-> q, dir |-> disk[p] = Dir] /\ raced' = {}
          /\ UNCHANGED <<disk, receipts, journal, logged, turn, outside, crashes, reversed>>
    BY <1>19 DEF Move
  <2>2. op' \in Moves /\ op'.stage = "moving" BY <2>1 DEF Moves
  <2>3. QED BY <1>3, <1>6, <1>7, <2>1, <2>2 DEF MayEdit
<1>20. CASE Link
  <2>1. /\ op.stage = "moving" /\ CanLink(op.from, op.to) /\ disk' = [disk EXCEPT ![op.to] = disk[op.from]]
        /\ op' = [op EXCEPT !.stage = "linked"]
        /\ UNCHANGED <<receipts, journal, logged, turn, outside, crashes, raced, reversed>>
    BY <1>20 DEF Link
  <2>2. op \in Moves /\ Len(journal) < MaxEntries BY <1>1, <2>1, StageIs DEF Standing
  <2>3. op' \in Moves /\ op'.stage = "linked" /\ op.from \in Paths /\ op.to \in Paths BY <2>1, <2>2 DEF Moves
  <2>4. disk' \in [Paths -> Nodes] BY <1>1, <2>1, <2>3
  <2>5. Typed' BY <1>1, <2>1, <2>3, <2>4 DEF Typed
  <2>6. QED BY <1>3, <1>6, <2>1, <2>2, <2>3, <2>5
<1>21. CASE Moved
  <2>1. /\ op.stage \in {"linked", "moving"} /\ op' = Idle
        /\ \/ disk' = [disk EXCEPT ![op.from] = Absent] \/ disk' = [disk EXCEPT ![op.from] = Absent, ![op.to] = Dir]
        /\ receipts' = Invalidate(receipts, {op.from, op.to}) /\ journal' = Append(journal, MoveEntry)
        /\ UNCHANGED <<logged, turn, outside, crashes, raced, reversed>>
    BY <1>21 DEF Moved
  <2>2. op \in Moves /\ Len(journal) < MaxEntries BY <1>1, <2>1, StageIs DEF Standing
  <2>3. op.from \in Paths /\ op.to \in Paths /\ op.dir \in BOOLEAN BY <2>2 DEF Moves
  <2>4. PICK x : x = Entry(op.to, "move", Blank, Blank, TRUE) OBVIOUS
  <2>5. x \in Entries /\ x.kind = "move" /\ x.undoOf = 0 /\ x.turn = turn BY <1>1, <2>3, <2>4 DEF Entry, Entries, Kinds
  <2>6. PICK e \in Entries : e = [x EXCEPT !.dir = op.dir, !.from = op.from] BY <2>3, <2>5 DEF Entries
  <2>7. e = MoveEntry BY <2>4, <2>6 DEF MoveEntry
  <2>8. Recorded(e, Len(journal) + 1, turn)
    <3>1. e.undoOf = 0 /\ e.turn = turn /\ e.kind = "move" BY <2>5, <2>6 DEF Entries
    <3>2. QED BY <1>1, <3>1 DEF Recorded
  <2>9. disk' \in [Paths -> Nodes] BY <1>1, <2>1, <2>3 DEF Nodes
  <2>10. receipts' \subseteq Receipts BY <1>1, <2>1 DEF Invalidate
  <2>11. QED BY <1>10, <2>1, <2>2, <2>7, <2>8, <2>9, <2>10
<1>22. CASE MoveFails
  <2>1. op' = Idle /\ UNCHANGED <<disk, receipts, journal, logged, turn, outside, crashes, raced, reversed>>
    BY <1>22 DEF MoveFails
  <2>2. QED BY <1>3, <1>4, <1>7, <2>1
<1>23. CASE PlanUndo
  <2>1. PICK operator \in BOOLEAN : \E selected \in Selections(operator) :
          /\ Len(journal) + Len(selected) <= MaxEntries /\ Accepted(selected)
          /\ op' = [stage |-> "priors", left |-> selected, done |-> <<>>, priors |-> <<>>] /\ raced' = {}
          /\ UNCHANGED <<disk, receipts, journal, logged, turn, outside, crashes, reversed>>
    BY <1>23 DEF PlanUndo
  <2>2. PICK selected \in Selections(operator) :
          /\ Len(journal) + Len(selected) <= MaxEntries /\ Accepted(selected)
          /\ op' = [stage |-> "priors", left |-> selected, done |-> <<>>, priors |-> <<>>] /\ raced' = {}
          /\ UNCHANGED <<disk, receipts, journal, logged, turn, outside, crashes, reversed>>
    BY <2>1
  <2>3. /\ selected \in Seq(Nat) /\ NewestLast(selected)
        /\ \A m \in DOMAIN selected : selected[m] \in DOMAIN journal
    BY <1>1, SelectedIs
  <2>4. \A m \in DOMAIN selected : Undoable(selected[m]) BY <1>1, <2>2, <2>3, AcceptedIs
  <2>5. op' \in Undos /\ op'.stage = "priors" /\ op'.left = selected /\ op'.done = <<>>
    BY <2>2, <2>3 DEF Undos
  <2>6. Standing'
    <3>1. Len(journal) + Len(selected) + Len(<<>>) <= MaxEntries BY <1>1, <2>2, <2>3
    <3>2. UNCHANGED journal BY <2>2
    <3> HIDE <2>2
    <3>3. QED BY <2>3, <2>4, <2>5, <3>1, <3>2 DEF Standing, InOrder, NewestLast, Undoable
  <2>7. QED BY <1>3, <1>7, <2>2, <2>5, <2>6
<1>24. CASE ReadPriors
  <2>1. op.stage = "priors" /\ UNCHANGED <<disk, receipts, journal, logged, turn, outside, crashes, raced, reversed>>
    BY <1>24 DEF ReadPriors
  <2>2. op \in Undos BY <1>1, <2>1, StageIs
  <2>3. op' = Idle \/ \E priors \in [Paths -> Held] : op' = [op EXCEPT !.stage = "undoing", !.priors = priors]
    <3> DEFINE kindsOf(p) == {Reversal(journal[op.left[n]]) : n \in {n \in DOMAIN op.left : journal[op.left[n]].path = p}}
               priors == [p \in Paths |-> IF kindsOf(p) \cap {"write", "remove"} # {} /\ disk[p].is = "file"
                                          THEN disk[p] ELSE Empty]
    <3>1. op' = Idle \/ op' = [op EXCEPT !.stage = "undoing", !.priors = priors] BY <1>24 DEF ReadPriors
    <3> HIDE DEF kindsOf
    <3>2. \A p \in Paths : disk[p].is = "file" => disk[p] \in Held BY <1>1, NodeIs
    <3>3. priors \in [Paths -> Held] BY <3>2 DEF Held
    <3> HIDE DEF priors
    <3>4. QED BY <3>1, <3>3
  <2>4. CASE op' = Idle BY <1>3, <1>4, <1>7, <2>1, <2>4
  <2>5. CASE op' # Idle
    <3>1. PICK priors \in [Paths -> Held] : op' = [op EXCEPT !.stage = "undoing", !.priors = priors] BY <2>3, <2>5
    <3>2. /\ op' \in Undos /\ op'.stage = "undoing" /\ op'.left = op.left /\ op'.done = op.done
          /\ op'.priors = priors
      BY <2>2, <3>1 DEF Undos
    <3>3. UNCHANGED journal BY <2>1
    <3>4. Standing' BY <2>1, <3>2, <3>3 DEF Standing, InOrder, NewestLast, Undoable
    <3>5. QED BY <1>3, <1>7, <2>1, <3>2, <3>4
  <2>6. QED BY <2>4, <2>5
<1>25. CASE UndoStep
  <2> DEFINE i == Head(op.left)
             e == journal[i]
  <2>1. /\ op.stage = "undoing" /\ op.left # <<>> /\ disk' = Left(e) /\ receipts' \subseteq receipts
        /\ op' = [op EXCEPT !.left = Tail(@), !.done = Append(@, i)]
        /\ UNCHANGED <<journal, logged, turn, outside, crashes>>
        /\ (raced' = raced \/ raced' = raced \cup {e.from})
    BY <1>25 DEF UndoStep, Invalidate
  <2>2. op \in Undos BY <1>1, <2>1, StageIs
  <2>3. PICK left \in Seq(Nat), done \in Seq(Nat) : left = op.left /\ done = op.done BY <2>2 DEF Undos
  <2>4. /\ Len(journal) + Len(left) + Len(done) <= MaxEntries /\ InOrder(left) /\ InOrder(done)
        /\ (\A m \in DOMAIN done, n \in DOMAIN left : left[n] < done[m]) /\ op.priors \in [Paths -> Held]
    BY <2>1, <2>3 DEF Standing
  <2>5. /\ op' \in Undos /\ op'.stage = "undoing" /\ op'.left = Tail(left) /\ op'.done = Append(done, i)
        /\ op'.priors = op.priors
    <3>1. Tail(left) \in Seq(Nat) /\ Append(done, i) \in Seq(Nat) BY <2>1, <2>3
    <3>2. QED BY <2>1, <2>2, <2>3, <3>1 DEF Undos
  <2>6. i = left[1] /\ i \in Nat /\ 1 \in DOMAIN left /\ Undoable(i) /\ e \in Entries 
    BY <1>1, <2>1, <2>3, <2>4 DEF InOrder, Undoable
  <2>7. disk' \in [Paths -> Nodes] BY <1>1, <2>1, <2>6, LeftTyped DEF Undoable
  <2>8. raced' \subseteq Paths BY <1>1, <2>1, <2>6 DEF Entries
  <2>9. Typed' BY <1>1, <2>1, <2>5, <2>7, <2>8 DEF Typed
  <2> HIDE DEF i, e
  <2>10. Standing'
    <3>0. left # <<>> /\ i \in Nat /\ i <= i BY <2>1, <2>3, <2>6
    <3>13. Tail(left) \in Seq(Nat) /\ Append(done, i) \in Seq(Nat) BY <3>0
    <3>1. PICK l \in Seq(Nat), d \in Seq(Nat) : l = Tail(left) /\ d = Append(done, i) BY <3>13
    <3>2. /\ Len(left) \in Nat \ {0} /\ Len(done) \in Nat /\ Len(l) = Len(left) - 1 /\ Len(d) = Len(done) + 1
          /\ \A n \in DOMAIN l : n + 1 \in DOMAIN left /\ l[n] = left[n + 1] /\ n + 1 > 1 /\ n \in Nat
          /\ \A m \in DOMAIN d : m \in Nat /\ ((m \in DOMAIN done /\ d[m] = done[m]) \/ (m = Len(done) + 1 /\ d[m] = i))
          /\ \A m \in DOMAIN done : m < Len(done) + 1
      BY <2>1, <2>3, <2>6, <3>1
    <3>3. \A n \in DOMAIN l : l[n] < i /\ Undoable(l[n]) BY <2>4, <2>6, <3>2 DEF InOrder, NewestLast
    <3>4. \A m \in DOMAIN d : Undoable(d[m]) /\ i <= d[m]
      <4>1. \A m \in DOMAIN done : done[m] \in Nat BY <2>3
      <4>2. \A m \in DOMAIN done : Undoable(done[m]) /\ i < done[m] BY <2>4, <2>6 DEF InOrder
      <4>3. ASSUME NEW m \in DOMAIN d PROVE Undoable(d[m]) /\ i <= d[m]
        <5>1. CASE m \in DOMAIN done /\ d[m] = done[m] BY <3>0, <4>1, <4>2, <5>1
        <5>2. CASE d[m] = i BY <2>6, <3>0, <5>2
        <5>3. QED BY <3>2, <5>1, <5>2
      <4>4. QED BY <4>3
    <3>5. NewestLast(l)
      <4>1. ASSUME NEW m \in DOMAIN l, NEW n \in DOMAIN l, m < n PROVE l[n] < l[m]
        <5>1. m + 1 < n + 1 BY <3>2, <4>1
        <5>2. left[n + 1] < left[m + 1] BY <2>4, <3>2, <5>1 DEF InOrder, NewestLast
        <5>3. QED BY <3>2, <5>2
      <4>2. QED BY <4>1 DEF NewestLast
    <3>6. NewestLast(d)
      <4>1. ASSUME NEW m \in DOMAIN d, NEW n \in DOMAIN d, m < n PROVE d[n] < d[m]
        <5>1. m \in DOMAIN done /\ d[m] = done[m] BY <3>1, <3>2, <4>1
        <5>2. CASE n \in DOMAIN done /\ d[n] = done[n] BY <2>4, <4>1, <5>1, <5>2 DEF InOrder, NewestLast
        <5>3. CASE d[n] = i BY <2>4, <2>6, <5>1, <5>3
        <5>4. QED BY <3>2, <5>2, <5>3
      <4>2. QED BY <4>1 DEF NewestLast
    <3>7. \A m \in DOMAIN d, n \in DOMAIN l : l[n] < d[m]
      <4>1. i \in Nat /\ (\A m \in DOMAIN d : d[m] \in Nat) /\ (\A n \in DOMAIN l : l[n] \in Nat) BY <3>0
      <4>2. QED BY <3>3, <3>4, <4>1
    <3>8. Len(journal) + Len(l) + Len(d) <= MaxEntries BY <1>1, <1>2, <2>4, <3>2
    <3>9. op'.left = l /\ op'.done = d BY <2>5, <3>1
    <3>10. InOrder(l) /\ InOrder(d) BY <3>3, <3>4, <3>5, <3>6 DEF InOrder
    <3>11. InOrder(l)' /\ InOrder(d)' BY <2>1, <3>10 DEF InOrder, NewestLast, Undoable
    <3>12. QED BY <2>1, <2>4, <2>5, <3>7, <3>8, <3>9, <3>11 DEF Standing
  <2>11. QED BY <1>3, <2>1, <2>9, <2>10
<1>26. CASE UndoEnds
  <2>1. /\ op.stage = "undoing" /\ journal' = journal \o [n \in DOMAIN op.done |-> ReversalEntry(op.done[n])] /\ op' = Idle
        /\ UNCHANGED <<disk, receipts, logged, turn, outside, crashes, raced, reversed>>
    BY <1>26 DEF UndoEnds
  <2>2. op \in Undos BY <1>1, <2>1, StageIs
  <2>3. PICK left \in Seq(Nat), done \in Seq(Nat) : left = op.left /\ done = op.done BY <2>2 DEF Undos
  <2>4. Len(journal) + Len(left) + Len(done) <= MaxEntries /\ InOrder(done) BY <2>1, <2>3 DEF Standing
  <2>5. \A n \in DOMAIN done : ReversalEntry(done[n]) \in Entries /\ Recorded(ReversalEntry(done[n]), Len(journal) + n, turn)
    <3>1. ASSUME NEW n \in DOMAIN done
          PROVE  ReversalEntry(done[n]) \in Entries /\ Recorded(ReversalEntry(done[n]), Len(journal) + n, turn)
      <4>1. Undoable(done[n]) /\ done[n] \in DOMAIN journal BY <2>4 DEF InOrder, Undoable
      <4>2. Len(journal) + n \in Nat /\ done[n] < Len(journal) + n BY <1>1, <4>1
      <4>3. QED BY <2>1, <4>1, <4>2, ReversalIs
    <3>2. QED BY <3>1
  <2>6. PICK s : s = [n \in DOMAIN done |-> ReversalEntry(done[n])] OBVIOUS
  <2>7. s \in Seq(Entries) /\ Len(s) = Len(done) /\ DOMAIN s = DOMAIN done
    <3>1. DOMAIN done = 1 .. Len(done) /\ Len(done) \in Nat OBVIOUS
    <3>2. s \in [1 .. Len(done) -> Entries] BY <2>5, <2>6, <3>1
    <3>3. QED BY <3>1, <3>2
  <2>8. \A n \in DOMAIN s : Recorded(s[n], Len(journal) + n, turn) BY <2>5, <2>6, <2>7
  <2>9. Len(journal) + Len(s) <= MaxEntries BY <1>1, <1>2, <2>4, <2>7
  <2>10. journal' = journal \o s BY <2>1, <2>3, <2>6
  <2>11. journal' \in Seq(Entries) /\ Len(journal') <= MaxEntries /\ Len(journal') >= Len(journal) /\ Journalled'
    BY <2>1, <2>7, <2>8, <2>9, <2>10, Extended
  <2>12. logged' \in 0 .. Len(journal') BY <1>1, <2>1, <2>11
  <2>13. Typed' BY <1>1, <2>1, <2>11, <2>12 DEF Typed
  <2>14. QED BY <1>4, <2>1, <2>11, <2>13
<1>27. CASE NextTurn
  <2>1. /\ turn < MaxTurns /\ turn' = turn + 1
        /\ UNCHANGED <<disk, receipts, journal, logged, op, outside, crashes, raced, reversed>>
    BY <1>27 DEF NextTurn
  <2>2. turn' \in Nat /\ turn' >= turn /\ 1 <= turn' /\ turn' <= MaxTurns + crashes' BY <1>1, <1>2, <2>1
  <2>3. Typed' BY <1>1, <2>1, <2>2 DEF Typed
  <2>4. Journalled'
    <3>1. ASSUME NEW i \in DOMAIN journal PROVE Recorded(journal[i], i, turn')
      <4>1. Recorded(journal[i], i, turn) BY DEF Journalled
      <4>2. journal[i].turn \in 1 .. turn' BY <1>1, <2>2, <4>1 DEF Recorded
      <4>3. QED BY <4>1, <4>2 DEF Recorded
    <3>2. QED BY <2>1, <3>1 DEF Journalled
  <2>5. QED BY <1>5, <2>1, <2>3, <2>4
<1>28. CASE Compact
  <2>1. receipts' = {} /\ UNCHANGED <<disk, journal, logged, op, turn, outside, crashes, raced, reversed>>
    BY <1>28 DEF Compact
  <2>2. Typed' BY <1>1, <2>1 DEF Typed
  <2>3. QED BY <1>3, <1>5, <2>1, <2>2
<1>29. CASE Crash
  <2>1. PICK n \in logged .. Len(journal) : journal' = [i \in 1 .. n |-> Durable(journal[i])] /\ logged' = n
    BY <1>29 DEF Crash, Rebuilt
  <2>2. /\ crashes < MaxCrashes /\ crashes' = crashes + 1 /\ receipts' = {} /\ op' = Idle /\ turn' = turn + 1
        /\ UNCHANGED <<disk, outside, raced>>
    BY <1>29 DEF Crash
  <2>3. n \in Nat /\ n <= Len(journal) /\ Len(journal) \in Nat BY <1>1
  <2>4. \A i \in 1 .. n : Durable(journal[i]) \in Entries /\ Recorded(Durable(journal[i]), i, turn')
    <3>1. ASSUME NEW i \in 1 .. n PROVE Durable(journal[i]) \in Entries /\ Recorded(Durable(journal[i]), i, turn')
      <4>1. i \in DOMAIN journal /\ i \in Nat BY <1>1, <2>3
      <4>2. journal[i] \in Entries /\ Recorded(journal[i], i, turn) BY <1>1, <4>1 DEF Journalled
      <4>3. turn' \in Nat /\ turn' >= turn BY <1>1, <2>2
      <4>4. QED BY <1>1, <4>1, <4>2, <4>3, DurableIs
    <3>2. QED BY <3>1
  <2>5. journal' \in [1 .. n -> Entries] BY <2>1, <2>4
  <2>6. journal' \in Seq(Entries) /\ Len(journal') = n BY <2>3, <2>5
  <2>7. Journalled'
    <3>1. DOMAIN journal' = 1 .. n /\ \A i \in 1 .. n : journal'[i] = Durable(journal[i]) BY <2>1
    <3>2. QED BY <2>4, <3>1 DEF Journalled
  <2>8. turn' \in Nat /\ 1 <= turn' /\ turn' <= MaxTurns + crashes' /\ crashes' \in 0 .. MaxCrashes BY <1>1, <1>2, <2>2
  <2>9. Len(journal') <= MaxEntries /\ logged' \in 0 .. Len(journal') BY <1>1, <1>2, <2>1, <2>3, <2>6
  <2>10. Typed' BY <1>1, <2>2, <2>6, <2>8, <2>9 DEF Typed
  <2>11. QED BY <1>4, <2>2, <2>7, <2>10
<1>30. CASE Outside
  <2>1. PICK p \in Paths, x \in Foreign :
          /\ outside < MaxOutside /\ disk' = [disk EXCEPT ![p] = x] /\ outside' = outside + 1
          /\ (raced' = raced \/ raced' = raced \cup {p})
          /\ UNCHANGED <<receipts, journal, logged, op, turn, crashes, reversed>>
    BY <1>30 DEF Outside
  <2>2. x \in Nodes BY FilesAssumption DEF Nodes
  <2>3. disk' \in [Paths -> Nodes] /\ raced' \subseteq Paths BY <1>1, <2>1, <2>2
  <2>4. outside' \in 0 .. MaxOutside BY <1>1, <1>2, <2>1
  <2>5. Typed' BY <1>1, <2>1, <2>3, <2>4 DEF Typed
  <2>6. QED BY <1>3, <1>5, <2>1, <2>5
<1>31. CASE UNCHANGED vars
  <2>1. UNCHANGED <<disk, receipts, journal, logged, op, turn, outside, crashes, raced>> BY <1>31 DEF vars
  <2>2. Typed' BY <1>1, <2>1 DEF Typed
  <2>3. QED BY <1>3, <1>5, <2>1, <2>2
<1>32. QED
  BY <1>11, <1>12, <1>13, <1>14, <1>15, <1>16, <1>17, <1>18, <1>19, <1>20, <1>21, <1>22, <1>23, <1>24, <1>25, <1>26,
     <1>27, <1>28, <1>29, <1>30, <1>31 DEF Next

LEMMA TypedInit == Init => Typed /\ Journalled /\ Standing
<1> SUFFICES ASSUME Init PROVE Typed /\ Journalled /\ Standing OBVIOUS
<1>2. /\ disk \in Initial /\ receipts = {} /\ journal = <<>> /\ logged = 0 /\ op = Idle
      /\ turn = 1 /\ outside = 0 /\ crashes = 0 /\ raced = {}
  BY DEF Init
<1>3. disk \in [Paths -> Nodes]
  <2>1. disk \in [Paths -> Contents \cup {Absent, Dir}] BY <1>2, FilesAssumption
  <2>2. QED BY <2>1 DEF Nodes
<1>4. {MaxEntries, MaxOutside, MaxCrashes} \subseteq Nat /\ MaxTurns \in Nat \ {0} BY FilesAssumption
<1>5. journal \in Seq(Entries) /\ Len(journal) = 0 BY <1>2
<1>6. Typed BY <1>2, <1>3, <1>4, <1>5 DEF Typed
<1>7. Journalled BY <1>2 DEF Journalled
<1>8. Standing
  <2>1. op.stage = "idle" BY <1>2, IdleIs
  <2>2. QED BY <2>1 DEF Standing
<1>9. QED BY <1>6, <1>7, <1>8

LEMMA AlwaysTyped == Spec => [](Typed /\ Journalled /\ Standing)
<1>1. Typed /\ Journalled /\ Standing /\ [Next]_vars => (Typed /\ Journalled /\ Standing)' BY TypedStep
<1>2. QED BY <1>1, TypedInit, PTL DEF Spec

(* Files: every variable keeps its type, the journal names known paths and earlier
   entries, and the log never holds more of it than there is, whatever happens. *)
THEOREM Typing == Spec => []TypeOK
<1>1. Typed /\ Journalled => TypeOK
  <2> SUFFICES ASSUME Typed, Journalled PROVE TypeOK OBVIOUS
  <2>2. disk \in [Paths -> Nodes] BY DEF Typed
  <2>3. ASSUME NEW r \in receipts
        PROVE  r.path \in Paths /\ r.content \in Contents \cup {Empty} /\ r.seen \subseteq Regions /\ r.seen # {}
    BY DEF Typed, Receipts, Held
  <2>4. logged \in 0 .. Len(journal) /\ Len(journal) <= MaxEntries BY DEF Typed
  <2>5. ASSUME NEW i \in DOMAIN journal
        PROVE  /\ journal[i].kind \in {"create", "overwrite", "replace", "delete", "move"}
               /\ {journal[i].path, journal[i].from} \subseteq Paths
               /\ journal[i].undoOf \in 0 .. (i - 1) /\ journal[i].turn \in 1 .. turn
    <3>1. journal[i] \in Entries /\ Recorded(journal[i], i, turn) BY DEF Typed, Journalled
    <3>2. QED BY <3>1 DEF Entries, Kinds, Recorded
  <2>6. turn \in 1 .. (MaxTurns + MaxCrashes) /\ outside \in 0 .. MaxOutside /\ crashes \in 0 .. MaxCrashes
    BY FilesAssumption DEF Typed
  <2>7. QED BY <2>2, <2>3, <2>4, <2>5, <2>6 DEF TypeOK
<1>2. QED BY <1>1, AlwaysTyped, PTL

-----------------------------------------------------------------------------
(* Nothing unseen is changed.                                               *)

(* What a receipt takes for read was shown, or is the model's own; and a plan is
   answered for by such a receipt, of the content it is to replace. *)
Vouched(r) == r.own \/ r.seen \subseteq r.known
AnsweredFor(plan) ==
  plan.by.path = plan.path /\ plan.by.content = plan.old /\ (plan.by.own \/ Replaced(plan) \subseteq plan.by.known)
Answered ==
  /\ \A r \in receipts : Vouched(r)
  /\ op.stage \in {"planned", "checked"} /\ op.kind # "create" => AnsweredFor(op)

LEMMA AnsweredStep ==
  ASSUME Typed, Standing, Answered, [Next]_vars
  PROVE  Answered'
<1>1. op \in {Idle} \cup Plans \cup Moves \cup Undos /\ receipts \subseteq Receipts BY DEF Typed
<1>2. ASSUME receipts' \subseteq receipts, op' = op \/ op'.stage \notin {"planned", "checked"} PROVE Answered'
  BY <1>2 DEF Answered
<1>3. ASSUME receipts' \subseteq receipts, op' = Idle PROVE Answered'
  BY <1>2, <1>3, IdleIs
(* a plan answers for what it replaces *)
<1>4. ASSUME NEW r \in receipts, NEW kind \in {"overwrite", "replace", "delete"}, NEW c, Fresh(r),
             (IF kind = "replace" THEN Changed(r.content, c) ELSE Regions) \subseteq r.seen,
             Planned(Plan(kind, r.path, c, r))
      PROVE  Answered'
  <2>1. op' = [stage |-> "planned", kind |-> kind, path |-> r.path, new |-> c, by |-> r, old |-> r.content]
    BY <1>4 DEF Planned, Plan, Fresh
  <2>2. UNCHANGED receipts BY <1>4 DEF Planned
  <2>3. op'.stage = "planned" /\ op'.kind = kind /\ op'.path = r.path /\ op'.by = r /\ op'.old = r.content /\ op'.new = c
    BY <2>1
  <2>4. Replaced(op') \subseteq r.seen BY <1>4, <2>3 DEF Replaced
  <2>5. r.own \/ r.seen \subseteq r.known BY DEF Answered, Vouched
  <2>6. AnsweredFor(op') BY <2>3, <2>4, <2>5 DEF AnsweredFor
  <2>7. QED BY <2>2, <2>6 DEF Answered
<1>5. CASE Read
  <2>1. PICK p \in Paths, seen \in Slices : receipts' = receipts \cup {Receipt(p, disk[p], seen, seen, FALSE)} /\ op' = op
    BY <1>5 DEF Read
  <2>2. Vouched(Receipt(p, disk[p], seen, seen, FALSE)) BY DEF Receipt, Vouched
  <2>3. QED BY <2>1, <2>2 DEF Answered
<1>6. CASE PlanCreate
  <2>1. PICK p \in Paths, c \in Proposed : Planned(Plan("create", p, c, NoReceipt)) BY <1>6 DEF PlanCreate
  <2>2. op'.kind = "create" /\ UNCHANGED receipts BY <2>1 DEF Planned, Plan
  <2>3. QED BY <2>2 DEF Answered
<1>7. CASE PlanOverwrite
  <2>1. PICK r \in receipts, c \in Proposed : WholeRead(r) /\ Planned(Plan("overwrite", r.path, c, r))
    BY <1>7 DEF PlanOverwrite
  <2>2. Fresh(r) /\ Regions \subseteq r.seen BY <2>1 DEF WholeRead
  <2>3. QED BY <1>4, <2>1, <2>2
<1>8. CASE PlanReplace
  <2>1. PICK r \in receipts, c \in Proposed : RegionRead(r, c) /\ Planned(Plan("replace", r.path, c, r))
    BY <1>8 DEF PlanReplace
  <2>2. Fresh(r) /\ Changed(r.content, c) \subseteq r.seen BY <2>1 DEF RegionRead
  <2>3. QED BY <1>4, <2>1, <2>2
<1>9. CASE PlanDelete
  <2>1. PICK r \in receipts : WholeRead(r) /\ Planned(Plan("delete", r.path, Empty, r)) BY <1>9 DEF PlanDelete
  <2>2. Fresh(r) /\ Regions \subseteq r.seen BY <2>1 DEF WholeRead
  <2>3. QED BY <1>4, <2>1, <2>2
<1>10. CASE Recheck
  <2>1. op.stage = "planned" /\ UNCHANGED receipts /\ (op' = [op EXCEPT !.stage = "checked"] \/ op' = Idle)
    BY <1>10 DEF Recheck
  <2>2. op \in Plans BY <1>1, <2>1, StageIs
  <2>3. CASE op' = [op EXCEPT !.stage = "checked"]
    <3>1. op'.kind = op.kind /\ op'.path = op.path /\ op'.by = op.by /\ op'.old = op.old /\ op'.new = op.new
      BY <2>2, <2>3 DEF Plans
    <3>2. AnsweredFor(op) => AnsweredFor(op') BY <3>1 DEF AnsweredFor, Replaced
    <3>3. QED BY <2>1, <3>1, <3>2 DEF Answered
  <2>4. QED BY <1>3, <2>1, <2>3
<1>11. CASE Apply
  <2>1. op' = Idle /\ \/ receipts' \subseteq receipts \/ receipts' = receipts \cup {Written(op)}
    BY <1>11 DEF Apply, Invalidate
  <2>2. Vouched(Written(op)) BY DEF Written, Receipt, Vouched
  <2>3. QED BY <1>3, <2>1, <2>2, IdleIs DEF Answered
<1>12. CASE DeleteDirectory BY <1>2, <1>12 DEF DeleteDirectory
<1>13. CASE Move
  <2>1. op'.stage = "moving" /\ UNCHANGED receipts BY <1>13 DEF Move
  <2>2. QED BY <1>2, <2>1
<1>14. CASE Link
  <2>1. op.stage = "moving" /\ op' = [op EXCEPT !.stage = "linked"] /\ UNCHANGED receipts BY <1>14 DEF Link
  <2>2. op \in Moves BY <1>1, <2>1, StageIs
  <2>3. op'.stage = "linked" BY <2>1, <2>2 DEF Moves
  <2>4. QED BY <1>2, <2>1, <2>3
<1>15. CASE Moved BY <1>3, <1>15 DEF Moved, Invalidate
<1>16. CASE MoveFails BY <1>3, <1>16 DEF MoveFails
<1>17. CASE PlanUndo
  <2>1. op'.stage = "priors" /\ UNCHANGED receipts BY <1>17 DEF PlanUndo
  <2>2. QED BY <1>2, <2>1
<1>18. CASE ReadPriors
  <2>1. /\ op.stage = "priors" /\ UNCHANGED receipts
        /\ op' = Idle \/ \E priors : op' = [op EXCEPT !.stage = "undoing", !.priors = priors]
    BY <1>18 DEF ReadPriors
  <2>2. op \in Undos BY <1>1, <2>1, StageIs
  <2>3. op' = Idle \/ op'.stage = "undoing" BY <2>1, <2>2 DEF Undos
  <2>4. QED BY <1>2, <1>3, <2>1, <2>3
<1>19. CASE UndoStep
  <2>1. /\ op.stage = "undoing" /\ receipts' \subseteq receipts
        /\ \E l, d : op' = [op EXCEPT !.left = l, !.done = d]
    BY <1>19 DEF UndoStep, Invalidate
  <2>2. op \in Undos BY <1>1, <2>1, StageIs
  <2>3. op'.stage = "undoing" BY <2>1, <2>2 DEF Undos
  <2>4. QED BY <1>2, <2>1, <2>3
<1>20. CASE UndoEnds BY <1>3, <1>20 DEF UndoEnds
<1>21. CASE NextTurn BY <1>2, <1>21 DEF NextTurn
<1>22. CASE Compact BY <1>2, <1>22 DEF Compact
<1>23. CASE Crash BY <1>3, <1>23 DEF Crash
<1>24. CASE Outside BY <1>2, <1>24 DEF Outside
<1>25. CASE UNCHANGED vars BY <1>2, <1>25 DEF vars
<1>26. QED
  BY <1>5, <1>6, <1>7, <1>8, <1>9, <1>10, <1>11, <1>12, <1>13, <1>14, <1>15, <1>16, <1>17, <1>18, <1>19, <1>20, <1>21,
     <1>22, <1>23, <1>24, <1>25 DEF Next

(* Files: whatever an edit is about to replace, the model was shown it wherever it
   changes, in the history it still has, or its own last edit left it there. *)
THEOREM NothingUnseenIsChanged == Spec => []NothingUnseenChanged
<1>1. Init => Answered
  <2> SUFFICES ASSUME Init PROVE Answered OBVIOUS
  <2>1. receipts = {} /\ op.stage = "idle" BY IdleIs DEF Init
  <2>2. QED BY <2>1 DEF Answered
<1>2. Typed /\ Standing /\ Answered /\ [Next]_vars => Answered' BY AnsweredStep
<1>3. Answered => NothingUnseenChanged BY DEF Answered, AnsweredFor, NothingUnseenChanged, ShownAll
<1>4. QED BY <1>1, <1>2, <1>3, AlwaysTyped, PTL DEF Spec

-----------------------------------------------------------------------------
(* Nothing is lost.                                                         *)

(* What a call has looked at is still so, unless somebody else has been there. *)
Looked ==
  /\ op.stage \in {"planned", "checked"} /\ op.kind = "create" => op.path \in raced \/ disk[op.path] = Absent
  /\ op.stage = "checked" /\ op.kind # "create" => op.path \in raced \/ disk[op.path] = op.old
  /\ op.stage \in {"moving", "linked"} => op.from # op.to
  /\ op.stage = "linked" => op.from \in raced \/ op.to \in raced \/ disk[op.to] = disk[op.from]

LEMMA LookedStep ==
  ASSUME Typed, Looked, [Next]_vars
  PROVE  Looked'
<1>1. op \in {Idle} \cup Plans \cup Moves \cup Undos /\ disk \in [Paths -> Nodes] BY DEF Typed
<1>2. ASSUME op'.stage \notin {"planned", "checked", "moving", "linked"} PROVE Looked'
  BY <1>2 DEF Looked
<1>3. ASSUME op' = Idle PROVE Looked' BY <1>2, <1>3, IdleIs
<1>4. ASSUME UNCHANGED <<disk, op, raced>> PROVE Looked' BY <1>4 DEF Looked
(* a plan is made *)
<1>5. ASSUME NEW kind \in {"overwrite", "replace", "delete"}, NEW p, NEW c, NEW r, Planned(Plan(kind, p, c, r)) PROVE Looked'
  <2>1. op'.stage = "planned" /\ op'.kind = kind BY <1>5 DEF Planned, Plan
  <2>2. QED BY <2>1 DEF Looked
<1>6. CASE PlanCreate
  <2>1. PICK p \in Paths, c \in Proposed : disk[p] = Absent /\ Planned(Plan("create", p, c, NoReceipt))
    BY <1>6 DEF PlanCreate
  <2>2. op'.stage = "planned" /\ op'.kind = "create" /\ op'.path = p /\ UNCHANGED disk BY <2>1 DEF Planned, Plan
  <2>3. QED BY <2>1, <2>2 DEF Looked
<1>7. CASE PlanOverwrite
  <2>1. PICK r \in receipts, c \in Proposed : Planned(Plan("overwrite", r.path, c, r)) BY <1>7 DEF PlanOverwrite
  <2>2. QED BY <1>5, <2>1
<1>8. CASE PlanReplace
  <2>1. PICK r \in receipts, c \in Proposed : Planned(Plan("replace", r.path, c, r)) BY <1>8 DEF PlanReplace
  <2>2. QED BY <1>5, <2>1
<1>9. CASE PlanDelete
  <2>1. PICK r \in receipts : Planned(Plan("delete", r.path, Empty, r)) BY <1>9 DEF PlanDelete
  <2>2. QED BY <1>5, <2>1
<1>10. CASE Recheck
  <2>1. op.stage = "planned" /\ UNCHANGED disk BY <1>10 DEF Recheck
  <2>2. op \in Plans BY <1>1, <2>1, StageIs
  <2>3. CASE op.kind = "create"
    <3>1. op' = [op EXCEPT !.stage = "checked"] /\ UNCHANGED raced BY <1>10, <2>3 DEF Recheck
    <3>2. op'.stage = "checked" /\ op'.kind = "create" /\ op'.path = op.path BY <2>2, <2>3, <3>1 DEF Plans
    <3>3. QED BY <2>1, <2>3, <3>1, <3>2 DEF Looked
  <2>4. CASE op.kind # "create" /\ disk[op.path] = op.old
    <3>1. op' = [op EXCEPT !.stage = "checked"] BY <1>10, <2>4 DEF Recheck
    <3>2. op'.stage = "checked" /\ op'.kind = op.kind /\ op'.path = op.path /\ op'.old = op.old BY <2>2, <3>1 DEF Plans
    <3>3. QED BY <2>1, <2>4, <3>2 DEF Looked
  <2>5. CASE op.kind # "create" /\ disk[op.path] # op.old
    <3>1. op' = Idle BY <1>10, <2>5 DEF Recheck
    <3>2. QED BY <1>3, <3>1
  <2>6. QED BY <2>3, <2>4, <2>5
<1>11. CASE Move
  <2>1. PICK p \in Paths, q \in Paths :
          /\ disk[p] # Absent /\ disk[q] = Absent
          /\ op' = [stage |-> "moving", from |-> p, to |-> q, dir |-> disk[p] = Dir]
    BY <1>11 DEF Move
  <2>2. op'.stage = "moving" /\ op'.from # op'.to BY <2>1
  <2>3. QED BY <2>2 DEF Looked
<1>12. CASE Link
  <2>1. op.stage = "moving" /\ op' = [op EXCEPT !.stage = "linked"] /\ disk' = [disk EXCEPT ![op.to] = disk[op.from]]
    BY <1>12 DEF Link
  <2>2. op \in Moves BY <1>1, <2>1, StageIs
  <2>3. op'.stage = "linked" /\ op'.from = op.from /\ op'.to = op.to /\ op.to \in Paths BY <2>1, <2>2 DEF Moves
  <2>4. disk'[op.to] = disk'[op.from] BY <1>1, <2>1, <2>3
  <2>5. QED BY <2>1, <2>3, <2>4 DEF Looked
<1>13. CASE ReadPriors
  <2>1. op.stage = "priors" /\ (op' = Idle \/ \E priors : op' = [op EXCEPT !.stage = "undoing", !.priors = priors])
    BY <1>13 DEF ReadPriors
  <2>2. op \in Undos BY <1>1, <2>1, StageIs
  <2>3. op' = Idle \/ op'.stage = "undoing" BY <2>1, <2>2 DEF Undos
  <2>4. QED BY <1>2, <1>3, <2>3
<1>14. CASE UndoStep
  <2>1. op.stage = "undoing" /\ \E l, d : op' = [op EXCEPT !.left = l, !.done = d] BY <1>14 DEF UndoStep
  <2>2. op \in Undos BY <1>1, <2>1, StageIs
  <2>3. op'.stage = "undoing" BY <2>1, <2>2 DEF Undos
  <2>4. QED BY <1>2, <2>3
<1>15. CASE PlanUndo
  <2>1. op'.stage = "priors" BY <1>15 DEF PlanUndo
  <2>2. QED BY <1>2, <2>1
<1>16. CASE Outside
  <2>1. PICK p \in Paths, x \in Foreign :
          /\ disk' = [disk EXCEPT ![p] = x] /\ raced' = (IF op = Idle THEN raced ELSE raced \cup {p}) /\ UNCHANGED op
    BY <1>16 DEF Outside
  <2>2. CASE op = Idle BY <1>3, <2>1, <2>2
  <2>3. CASE op # Idle
    <3>1. raced \subseteq raced' /\ \A z \in Paths \ raced' : disk'[z] = disk[z] BY <1>1, <2>1, <2>3
    <3>2. ASSUME op.stage \in {"planned", "checked"}, NEW x1, op.path \in raced \/ disk[op.path] = x1
          PROVE  op.path \in raced' \/ disk'[op.path] = x1
      <4>1. op \in Plans BY <1>1, <3>2, StageIs
      <4>2. op.path \in Paths BY <4>1 DEF Plans
      <4>3. QED BY <3>1, <3>2, <4>2
    <3>3. ASSUME op.stage = "linked"
          PROVE  op.from \in raced' \/ op.to \in raced' \/ disk'[op.to] = disk'[op.from]
      <4>1. op \in Moves BY <1>1, <3>3, StageIs
      <4>2. op.from \in Paths /\ op.to \in Paths BY <4>1 DEF Moves
      <4>3. QED BY <3>1, <3>3, <4>2 DEF Looked
    <3>4. UNCHANGED op BY <2>1
    <3>5. QED BY <3>2, <3>3, <3>4 DEF Looked
  <2>4. QED BY <2>2, <2>3
<1>17. CASE Read BY <1>4, <1>17 DEF Read
<1>18. CASE Apply BY <1>3, <1>18 DEF Apply
<1>19. CASE DeleteDirectory
  <2>1. op' = Idle BY <1>19 DEF DeleteDirectory
  <2>2. QED BY <1>3, <2>1
<1>20. CASE Moved BY <1>3, <1>20 DEF Moved
<1>21. CASE MoveFails BY <1>3, <1>21 DEF MoveFails
<1>22. CASE UndoEnds BY <1>3, <1>22 DEF UndoEnds
<1>23. CASE NextTurn BY <1>4, <1>23 DEF NextTurn
<1>24. CASE Compact BY <1>4, <1>24 DEF Compact
<1>25. CASE Crash BY <1>3, <1>25 DEF Crash
<1>26. CASE UNCHANGED vars BY <1>4, <1>26 DEF vars
<1>27. QED
  BY <1>6, <1>7, <1>8, <1>9, <1>10, <1>11, <1>12, <1>13, <1>14, <1>15, <1>16, <1>17, <1>18, <1>19, <1>20, <1>21, <1>22,
     <1>23, <1>24, <1>25, <1>26 DEF Next

(* What an undo planned for is what it finds: each path holds what the steps before
   it were to leave, unless somebody else has been there. *)
Agrees(s) == s.at \in [Paths -> Nodes \cup {Blank}] /\ \A p \in Paths \ raced : s.at[p] \in {disk[p], Blank}
Follows(q, left) ==
  \A n \in DOMAIN left : q[n] = Project(q[n - 1], journal[left[n]]) /\ Reversible(journal[left[n]], q[n - 1].at)
Foreseen == op.stage \in {"priors", "undoing"} => \E q : Agrees(q[0]) /\ Follows(q, op.left)

(* planUndo goes through the entries one by one. *)
Plotted(f, s, n) ==
  f = [m \in 0 .. n |-> IF m = 0 THEN [at |-> disk, touched |-> {}] ELSE Project(f[m - 1], journal[s[m]])]

LEMMA PlottedAll ==
  ASSUME NEW s, NEW n \in Nat
  PROVE  \E f : Plotted(f, s, n)
<1> DEFINE T == {k \in 0 .. n : \E f : Plotted(f, s, k)}
<1>1. 0 \in T
  <2>1. Plotted([m \in 0 .. 0 |-> [at |-> disk, touched |-> {}]], s, 0) BY DEF Plotted
  <2>2. \E f : Plotted(f, s, 0) BY <2>1
  <2>3. QED BY <2>2
<1>2. ASSUME NEW k \in 0 .. n, k # n, k \in T PROVE k + 1 \in T
  <2>1. PICK f : Plotted(f, s, k) BY <1>2
  <2>2. k \in Nat /\ k + 1 \in 0 .. n BY <1>2
  <2> HIDE <1>2 DEF T
  <2> DEFINE Step(g, m) == IF m = 0 THEN [at |-> disk, touched |-> {}] ELSE Project(g[m - 1], journal[s[m]])
             g == [m \in 0 .. (k + 1) |-> IF m = k + 1 THEN Step(f, m) ELSE f[m]]
  <2>3. \A m \in 0 .. k : f[m] = Step(f, m)
    <3>1. f = [m \in 0 .. k |-> Step(f, m)] BY <2>1 DEF Plotted
    <3> HIDE DEF Step
    <3>2. QED BY <3>1
  <2> HIDE DEF Step
  <2>4. g = [m \in 0 .. (k + 1) |-> g[m]] /\ g[k + 1] = Step(f, k + 1) BY <2>2
  <2>5. \A m \in 0 .. k : g[m] = f[m]
    <3>1. \A m \in 0 .. k : m \in 0 .. (k + 1) /\ m # k + 1 BY <2>2
    <3>2. QED BY <3>1
  <2> HIDE DEF g
  <2>6. ASSUME NEW m \in 0 .. (k + 1) PROVE g[m] = Step(g, m)
    <3>1. m = 0 \/ m - 1 \in 0 .. k BY <2>2
    <3>2. Step(g, m) = Step(f, m) BY <2>5, <3>1 DEF Step
    <3>3. m = k + 1 \/ m \in 0 .. k BY <2>2
    <3>4. QED BY <2>3, <2>4, <2>5, <3>2, <3>3
  <2>7. Plotted(g, s, k + 1) BY <2>4, <2>6 DEF Plotted, Step
  <2>8. QED BY <2>2, <2>7 DEF T
<1>3. 0 .. n \subseteq T
  <2> HIDE DEF T
  <2> QED BY <1>1, <1>2, Induct
<1>4. n \in T BY <1>3
<1>5. QED BY <1>4

LEMMA AcceptedFollows ==
  ASSUME NEW s \in Seq(Nat), Accepted(s)
  PROVE  \E q : q[0] = [at |-> disk, touched |-> {}] /\ Follows(q, s)
<1> DEFINE after[n \in 0 .. Len(s)] ==
             IF n = 0 THEN [at |-> disk, touched |-> {}] ELSE Project(after[n - 1], journal[s[n]])
<1>1. \A n \in DOMAIN s : Reversible(journal[s[n]], after[n - 1].at) BY DEF Accepted
<1>2. after = CHOOSE f : Plotted(f, s, Len(s)) BY DEF Plotted
<1> HIDE DEF after
<1>3. PICK L \in Nat : L = Len(s) /\ DOMAIN s = 1 .. L OBVIOUS
<1>4. Plotted(after, s, L) BY <1>2, <1>3, PlottedAll
<1>5. after = [m \in 0 .. L |-> IF m = 0 THEN [at |-> disk, touched |-> {}] ELSE Project(after[m - 1], journal[s[m]])]
  BY <1>4 DEF Plotted
<1>6. after[0] = [at |-> disk, touched |-> {}] BY <1>3, <1>5
<1>7. \A n \in 1 .. L : after[n] = Project(after[n - 1], journal[s[n]])
  <2>1. \A n \in 1 .. L : n \in 0 .. L /\ n # 0 BY <1>3
  <2>2. QED BY <1>5, <2>1
<1>8. Follows(after, s) BY <1>1, <1>3, <1>7 DEF Follows
<1>9. QED BY <1>6, <1>8

LEMMA AgreesNext ==
  ASSUME Typed, NEW s, Agrees(s), NEW e \in Entries, Reversal(e) = "write" => Recovers(e), disk' = Left(e),
         raced' = IF Reversal(e) = "rename" /\ e.path \in raced THEN raced \cup {e.from} ELSE raced
  PROVE  Agrees(Project(s, e))'
<1> DEFINE next == Project(s, e)
<1>1. /\ s.at \in [Paths -> Nodes \cup {Blank}] /\ \A p \in Paths \ raced : s.at[p] \in {disk[p], Blank}
      /\ disk \in [Paths -> Nodes] /\ e.path \in Paths /\ e.from \in Paths /\ Absent \in Nodes
  BY DEF Agrees, Typed, Entries, Nodes
<1>2. Reversal(e) \in {"rename", "remove", "mkdir", "write"} BY DEF Reversal
<1>3. CASE Reversal(e) = "write"
  <2>1. Reconstructed(e) \in Nodes BY <1>3, RecoveredIs, HeldIs
  <2>2. next.at = [s.at EXCEPT ![e.path] = Reconstructed(e)] BY <1>3 DEF Project
  <2>3. disk' = [disk EXCEPT ![e.path] = Reconstructed(e)] /\ raced' = raced BY <1>3 DEF Left
  <2> HIDE DEF next
  <2>4. QED BY <1>1, <2>1, <2>2, <2>3 DEF Agrees, next
<1>4. CASE Reversal(e) = "remove"
  <2>1. next.at = [s.at EXCEPT ![e.path] = Absent] BY <1>4 DEF Project
  <2>2. disk' = [disk EXCEPT ![e.path] = Absent] /\ raced' = raced BY <1>4 DEF Left
  <2> HIDE DEF next
  <2>3. QED BY <1>1, <2>1, <2>2 DEF Agrees, next
<1>5. CASE Reversal(e) = "mkdir"
  <2>1. next.at = [s.at EXCEPT ![e.path] = Blank] BY <1>5 DEF Project
  <2>2. disk' = [disk EXCEPT ![e.path] = Dir] /\ raced' = raced BY <1>5 DEF Left
  <2> HIDE DEF next
  <2>3. QED BY <1>1, <2>1, <2>2 DEF Agrees, next
<1>6. CASE Reversal(e) = "rename"
  <2>1. PICK x : x = (IF e.path \in s.touched THEN s.at[e.path] ELSE Blank) OBVIOUS
  <2>2. next.at = [s.at EXCEPT ![e.path] = Absent, ![e.from] = x] BY <1>6, <2>1 DEF Project
  <2>3. disk' = [disk EXCEPT ![e.path] = Absent, ![e.from] = disk[e.path]] BY <1>6 DEF Left
  <2>4. x \in Nodes \cup {Blank} /\ (e.path \notin raced => x \in {disk[e.path], Blank}) BY <1>1, <2>1
  <2>5. raced \subseteq raced' /\ (e.path \in raced => e.from \in raced') BY <1>6
  <2> HIDE DEF next
  <2>6. next.at \in [Paths -> Nodes \cup {Blank}] BY <1>1, <2>2, <2>4
  <2>7. ASSUME NEW p \in Paths \ raced' PROVE next.at[p] \in {disk'[p], Blank}
    <3>1. CASE p = e.from BY <1>1, <2>2, <2>3, <2>4, <2>5, <3>1
    <3>2. CASE p # e.from BY <1>1, <2>2, <2>3, <2>5, <3>2
    <3>3. QED BY <3>1, <3>2
  <2>8. QED BY <2>6, <2>7 DEF Agrees, next
<1>7. QED BY <1>2, <1>3, <1>4, <1>5, <1>6

LEMMA ForeseenStep ==
  ASSUME Typed, Standing, Foreseen, [Next]_vars
  PROVE  Foreseen'
<1>1. op \in {Idle} \cup Plans \cup Moves \cup Undos /\ disk \in [Paths -> Nodes] BY DEF Typed
<1>2. ASSUME op'.stage \notin {"priors", "undoing"} PROVE Foreseen' BY <1>2 DEF Foreseen
<1>3. ASSUME op' = Idle PROVE Foreseen' BY <1>2, <1>3, IdleIs
<1>4. ASSUME NEW q, Agrees(q[0])', NEW left, Follows(q, left), op'.left = left, UNCHANGED journal PROVE Foreseen'
  <2>1. Follows(q, left)' BY <1>4 DEF Follows
  <2>2. QED BY <1>4, <2>1 DEF Foreseen
<1>5. ASSUME UNCHANGED <<disk, op, raced, journal>> PROVE Foreseen'
  BY <1>5 DEF Foreseen, Agrees, Follows
<1>6. CASE PlanUndo
  <2>1. PICK operator \in BOOLEAN : \E selected \in Selections(operator) :
          /\ Accepted(selected) /\ op' = [stage |-> "priors", left |-> selected, done |-> <<>>, priors |-> <<>>]
          /\ raced' = {} /\ UNCHANGED <<disk, journal>>
    BY <1>6 DEF PlanUndo
  <2>2. PICK selected \in Selections(operator) :
          /\ Accepted(selected) /\ op' = [stage |-> "priors", left |-> selected, done |-> <<>>, priors |-> <<>>]
          /\ raced' = {} /\ UNCHANGED <<disk, journal>>
    BY <2>1
  <2>3. selected \in Seq(Nat) BY SelectedIs DEF Typed
  <2>4. PICK q : q[0] = [at |-> disk, touched |-> {}] /\ Follows(q, selected) BY <2>2, <2>3, AcceptedFollows
  <2>5. Agrees(q[0])' BY <1>1, <2>2, <2>4 DEF Agrees
  <2>6. op'.left = selected BY <2>2
  <2>7. QED BY <1>4, <2>2, <2>4, <2>5, <2>6
<1>7. CASE ReadPriors
  <2>1. /\ op.stage = "priors" /\ UNCHANGED <<disk, raced, journal>>
        /\ op' = Idle \/ \E priors : op' = [op EXCEPT !.stage = "undoing", !.priors = priors]
    BY <1>7 DEF ReadPriors
  <2>2. op \in Undos BY <1>1, <2>1, StageIs
  <2>3. CASE op' = Idle BY <1>3, <2>3
  <2>4. CASE op' # Idle
    <3>1. op'.left = op.left BY <2>1, <2>2, <2>4 DEF Undos
    <3>2. PICK q : Agrees(q[0]) /\ Follows(q, op.left) BY <2>1 DEF Foreseen
    <3>3. Agrees(q[0])' BY <2>1, <3>2 DEF Agrees
    <3>4. QED BY <1>4, <2>1, <3>1, <3>2, <3>3
  <2>5. QED BY <2>3, <2>4
<1>8. CASE UndoStep
  <2> DEFINE i == Head(op.left)
             e == journal[i]
  <2>1. /\ op.stage = "undoing" /\ op.left # <<>> /\ disk' = Left(e)
        /\ op' = [op EXCEPT !.left = Tail(@), !.done = Append(@, i)] /\ UNCHANGED journal
        /\ raced' = IF Reversal(e) = "rename" /\ e.path \in raced THEN raced \cup {e.from} ELSE raced
    BY <1>8 DEF UndoStep
  <2>2. op \in Undos BY <1>1, <2>1, StageIs
  <2>3. PICK left \in Seq(Nat) : left = op.left BY <2>2 DEF Undos
  <2>4. InOrder(left) /\ left # <<>> BY <2>1, <2>3 DEF Standing
  <2>5. i = left[1] /\ 1 \in DOMAIN left /\ Undoable(i) /\ e \in Entries
    <3>1. i = left[1] BY <2>3
    <3>2. 1 \in DOMAIN left BY <2>3, <2>4
    <3>3. Undoable(i) BY <2>4, <3>1, <3>2 DEF InOrder
    <3>4. journal \in Seq(Entries) BY DEF Typed
    <3>5. e \in Entries BY <3>3, <3>4 DEF Undoable
    <3>6. QED BY <3>1, <3>2, <3>3, <3>5
  <2>6. PICK q : Agrees(q[0]) /\ Follows(q, left) BY <2>1, <2>3 DEF Foreseen
  <2>7. PICK x \in Entries : x = journal[left[1]] /\ (Reversal(x) = "write" => Recovers(x)) BY <2>5 DEF Undoable
  <2>8. q[1] = Project(q[0], x)
    <3>1. q[1] = Project(q[1 - 1], journal[left[1]]) BY <2>5, <2>6 DEF Follows
    <3>2. QED BY <2>7, <3>1
  <2>9. Agrees(q[1])'
    <3>1. disk' = Left(x) /\ raced' = IF Reversal(x) = "rename" /\ x.path \in raced THEN raced \cup {x.from} ELSE raced
      BY <2>1, <2>5, <2>7
    <3>2. Agrees(Project(q[0], x))' BY <2>6, <2>7, <3>1, AgreesNext
    <3>3. QED BY <2>8, <3>2
  <2>10. PICK l \in Seq(Nat) : l = Tail(left)
    <3>1. Tail(left) \in Seq(Nat) BY <2>3, <2>4
    <3>2. QED BY <3>1
  <2>11. /\ Len(l) \in Nat /\ DOMAIN l = 1 .. Len(l)
         /\ \A n \in DOMAIN l : n + 1 \in DOMAIN left /\ l[n] = left[n + 1]
    BY <2>4, <2>10
  <2> DEFINE r == [n \in 0 .. Len(l) |-> q[n + 1]]
  <2>12. r[0] = q[1] /\ \A n \in DOMAIN l : r[n] = q[n + 1] /\ r[n - 1] = q[n]
    <3>1. \A n \in DOMAIN l : n \in 0 .. Len(l) /\ n - 1 \in 0 .. Len(l) /\ (n - 1) + 1 = n BY <2>11
    <3>2. 0 \in 0 .. Len(l) /\ 0 + 1 = 1 BY <2>11
    <3>3. QED BY <3>1, <3>2
  <2> HIDE DEF r
  <2>13. Follows(r, l)
    <3>1. ASSUME NEW n \in DOMAIN l
          PROVE  r[n] = Project(r[n - 1], journal[l[n]]) /\ Reversible(journal[l[n]], r[n - 1].at)
      <4>1. (n + 1) - 1 = n /\ n + 1 \in DOMAIN left BY <2>11
      <4>2. q[n + 1] = Project(q[(n + 1) - 1], journal[left[n + 1]]) /\ Reversible(journal[left[n + 1]], q[(n + 1) - 1].at)
        BY <2>6, <4>1 DEF Follows
      <4>3. QED BY <2>11, <2>12, <4>1, <4>2
    <3>2. QED BY <3>1 DEF Follows
  <2>14. op'.left = l BY <2>1, <2>2, <2>3, <2>10 DEF Undos
  <2>15. Agrees(r[0])' BY <2>9, <2>12
  <2>16. QED BY <1>4, <2>1, <2>13, <2>14, <2>15
<1>9. CASE Outside
  <2>1. PICK p \in Paths, x \in Foreign :
          /\ disk' = [disk EXCEPT ![p] = x] /\ raced' = (IF op = Idle THEN raced ELSE raced \cup {p})
          /\ UNCHANGED <<op, journal>>
    BY <1>9 DEF Outside
  <2>2. CASE op = Idle BY <1>3, <2>1, <2>2
  <2>3. CASE op # Idle
    <3>1. raced \subseteq raced' /\ \A z \in Paths \ raced' : disk'[z] = disk[z] BY <1>1, <2>1, <2>3
    <3>2. ASSUME op.stage \in {"priors", "undoing"} PROVE Foreseen'
      <4>1. PICK q : Agrees(q[0]) /\ Follows(q, op.left) BY <3>2 DEF Foreseen
      <4>2. PICK s : s = q[0] OBVIOUS
      <4>3. Agrees(s)' BY <3>1, <4>1, <4>2, <1>1, <2>1 DEF Agrees
      <4>4. QED BY <1>4, <2>1, <4>1, <4>2, <4>3
    <3>3. QED BY <1>2, <2>1, <3>2
  <2>4. QED BY <2>2, <2>3
<1>11. CASE PlanCreate \/ PlanOverwrite \/ PlanReplace \/ PlanDelete
  <2>1. \E kind, p, c, r : Planned(Plan(kind, p, c, r))
    BY <1>11 DEF PlanCreate, PlanOverwrite, PlanReplace, PlanDelete
  <2>2. PICK kind, p, c, r : Planned(Plan(kind, p, c, r)) BY <2>1
  <2>3. op'.stage = "planned" BY <2>2 DEF Planned, Plan
  <2>4. QED BY <1>2, <2>3
<1>12. CASE Recheck
  <2>1. op.stage = "planned" /\ (op' = [op EXCEPT !.stage = "checked"] \/ op' = Idle) BY <1>12 DEF Recheck
  <2>2. op \in Plans BY <1>1, <2>1, StageIs
  <2>3. op' = Idle \/ op'.stage = "checked" BY <2>1, <2>2 DEF Plans
  <2>4. QED BY <1>2, <1>3, <2>3
<1>13. CASE Move
  <2>1. op'.stage = "moving" BY <1>13 DEF Move
  <2>2. QED BY <1>2, <2>1
<1>14. CASE Link
  <2>1. op.stage = "moving" /\ op' = [op EXCEPT !.stage = "linked"] BY <1>14 DEF Link
  <2>2. op \in Moves BY <1>1, <2>1, StageIs
  <2>3. op'.stage = "linked" BY <2>1, <2>2 DEF Moves
  <2>4. QED BY <1>2, <2>3
<1>15. CASE Read BY <1>5, <1>15 DEF Read
<1>16. CASE Apply BY <1>3, <1>16 DEF Apply
<1>17. CASE DeleteDirectory
  <2>1. op' = Idle BY <1>17 DEF DeleteDirectory
  <2>2. QED BY <1>3, <2>1
<1>18. CASE Moved BY <1>3, <1>18 DEF Moved
<1>19. CASE MoveFails BY <1>3, <1>19 DEF MoveFails
<1>20. CASE UndoEnds BY <1>3, <1>20 DEF UndoEnds
<1>21. CASE NextTurn BY <1>5, <1>21 DEF NextTurn
<1>22. CASE Compact BY <1>5, <1>22 DEF Compact
<1>23. CASE Crash BY <1>3, <1>23 DEF Crash
<1>24. CASE UNCHANGED vars BY <1>5, <1>24 DEF vars
<1>25. QED
  BY <1>6, <1>7, <1>8, <1>9, <1>11, <1>12, <1>13, <1>14, <1>15, <1>16, <1>17, <1>18, <1>19, <1>20, <1>21, <1>22, <1>23,
     <1>24 DEF Next

LEMMA LostStep ==
  ASSUME Typed, Journalled, Standing, Looked, Foreseen, [Next]_vars,
         NEW p \in Paths, disk[p].is = "file", disk'[p] # disk[p], outside' = outside
  PROVE  \/ p \in raced \/ (op.stage = "linked" /\ op.to \in raced)
         \/ \E q \in Paths \ {p} : disk'[q] = disk[p]
         \/ \E i \in DOMAIN journal' : journal'[i].path = p /\ disk[p] \in {journal'[i].old, journal'[i].new}
<1>1. /\ disk \in [Paths -> Nodes] /\ op \in {Idle} \cup Plans \cup Moves \cup Undos
      /\ journal \in Seq(Entries) /\ Len(journal) \in Nat /\ outside \in Nat
  BY FilesAssumption DEF Typed
<1>2. disk[p] \notin {Absent, Dir} BY SpecialsAre
<1>3. ~UNCHANGED disk OBVIOUS
<1>4. CASE Apply
  <2>1. op.stage = "checked" BY <1>4 DEF Apply
  <2>2. op \in Plans BY <1>1, <2>1, StageIs
  <2>3. PICK z : /\ disk' = [disk EXCEPT ![op.path] = z]
                 /\ journal' = Append(journal, Entry(op.path, op.kind, op.old, op.new, op.old.nl))
    BY <1>3, <1>4 DEF Apply
  <2>4. p = op.path BY <1>1, <2>3
  <2>5. p \in raced \/ disk[p] = op.old BY <1>2, <2>1, <2>4 DEF Looked
  <2>6. PICK e : e = Entry(op.path, op.kind, op.old, op.new, op.old.nl) OBVIOUS
  <2>7. e.path = op.path /\ e.old = op.old BY <2>6 DEF Entry
  <2>8. Len(journal) + 1 \in DOMAIN journal' /\ journal'[Len(journal) + 1] = e BY <1>1, <2>3, <2>6
  <2>9. QED BY <2>4, <2>5, <2>7, <2>8
<1>5. CASE DeleteDirectory
  <2>1. PICK d \in Paths : disk[d] = Dir /\ disk' = [disk EXCEPT ![d] = Absent] BY <1>5 DEF DeleteDirectory
  <2>2. p = d BY <1>1, <2>1
  <2>3. QED BY <1>2, <2>1, <2>2
<1>6. CASE Link
  <2>1. op.stage = "moving" /\ disk[op.to] = Absent /\ disk' = [disk EXCEPT ![op.to] = disk[op.from]]
    BY <1>6 DEF Link, CanLink
  <2>2. p = op.to BY <1>1, <2>1
  <2>3. QED BY <1>2, <2>1, <2>2
<1>7. CASE Moved
  <2>1. CASE op.stage = "linked" /\ disk' = [disk EXCEPT ![op.from] = Absent]
    <3>1. op \in Moves BY <1>1, <2>1, StageIs
    <3>2. op.from \in Paths /\ op.to \in Paths /\ op.from # op.to BY <2>1, <3>1 DEF Moves, Looked
    <3>3. p = op.from /\ disk'[op.to] = disk[op.to] BY <1>1, <2>1, <3>2
    <3>4. p \in raced \/ op.to \in raced \/ disk[op.to] = disk[p] BY <2>1, <3>3 DEF Looked
    <3>5. QED BY <2>1, <3>2, <3>3, <3>4
  <2>2. CASE op.stage = "moving" /\ CanRename(op.from, op.to) /\ disk' = [disk EXCEPT ![op.from] = Absent, ![op.to] = Dir]
    <3>1. p \in {op.from, op.to} BY <1>1, <2>2
    <3>2. disk[op.from] \in {Absent, Dir} /\ disk[op.to] \in {Absent, Dir} BY <2>2 DEF CanRename
    <3>3. QED BY <1>2, <3>1, <3>2
  <2>3. QED BY <1>7, <2>1, <2>2 DEF Moved
<1>8. CASE UndoStep
  <2> DEFINE i == Head(op.left)
             e == journal[i]
  <2>1. op.stage = "undoing" /\ op.left # <<>> /\ Works(e) /\ disk' = Left(e) /\ UNCHANGED journal
    BY <1>8 DEF UndoStep
  <2>2. op \in Undos BY <1>1, <2>1, StageIs
  <2>3. PICK left \in Seq(Nat) : left = op.left BY <2>2 DEF Undos
  <2>4. InOrder(left) /\ left # <<>> BY <2>1, <2>3 DEF Standing
  <2>5. i = left[1] /\ 1 \in DOMAIN left /\ i \in DOMAIN journal
    <3>1. i = left[1] BY <2>3
    <3>2. 1 \in DOMAIN left BY <2>3, <2>4
    <3>3. QED BY <2>4, <3>1, <3>2 DEF InOrder, Undoable
  <2>6. PICK x \in Entries : x = journal[i] BY <1>1, <2>5
  <2>7. x.kind # "move" => x.new # Blank BY <2>5, <2>6 DEF Journalled, Recorded
  <2>8. PICK at \in [Paths -> Nodes \cup {Blank}] :
          Reversible(x, at) /\ \A r \in Paths \ raced : at[r] \in {disk[r], Blank}
    <3>1. PICK q : Agrees(q[0]) /\ Follows(q, left) BY <2>1, <2>3 DEF Foreseen
    <3>2. Reversible(journal[left[1]], q[1 - 1].at) BY <2>5, <3>1 DEF Follows
    <3>3. Reversible(x, q[0].at) BY <2>5, <2>6, <3>2
    <3>4. QED BY <3>1, <3>3 DEF Agrees
  <2>9. Works(x) /\ disk' = Left(x) BY <2>1, <2>6
  <2> HIDE DEF i, e
  <2>10. x.path \in Paths /\ x.from \in Paths BY DEF Entries
  <2>11. ASSUME p = x.path, x.kind # "move", at[p] = x.new
         PROVE  p \in raced \/ \E j \in DOMAIN journal' : journal'[j].path = p /\ disk[p] \in {journal'[j].old, journal'[j].new}
    <3>1. p \in raced \/ disk[p] = x.new BY <2>7, <2>8, <2>11
    <3>2. QED BY <2>1, <2>5, <2>6, <2>11, <3>1
  <2>12. CASE Reversal(x) = "write"
    <3>1. p = x.path BY <1>1, <2>9, <2>10, <2>12 DEF Left
    <3>2. x.kind \notin {"move", "create"} /\ ~(x.kind = "delete" /\ x.dir) BY <2>12 DEF Reversal
    <3>3. CASE x.kind = "delete"
      <4>1. at[p] \in {Absent, Dir} BY <2>8, <3>1, <3>2, <3>3 DEF Reversible
      <4>2. p \in raced BY <1>2, <2>8, <4>1, SpecialsAre
      <4>3. QED BY <4>2
    <3>4. CASE x.kind # "delete"
      <4>1. at[p] = x.new BY <2>8, <3>1, <3>2, <3>4 DEF Reversible
      <4>2. QED BY <2>11, <3>1, <3>2, <4>1
    <3>5. QED BY <3>3, <3>4
  <2>13. CASE Reversal(x) = "remove"
    <3>1. p = x.path BY <1>1, <2>9, <2>10, <2>13 DEF Left
    <3>2. x.kind = "create" BY <2>13 DEF Reversal
    <3>3. at[p] = x.new BY <2>8, <3>1, <3>2 DEF Reversible
    <3>4. QED BY <2>11, <3>1, <3>2, <3>3
  <2>14. CASE Reversal(x) = "mkdir"
    <3>1. p = x.path BY <1>1, <2>9, <2>10, <2>14 DEF Left
    <3>2. disk[p] \in {Absent, Dir} BY <2>9, <2>14, <3>1 DEF Works
    <3>3. QED BY <1>2, <3>2
  <2>15. CASE Reversal(x) = "rename"
    <3>1. disk' = [disk EXCEPT ![x.path] = Absent, ![x.from] = disk[x.path]] BY <2>9, <2>15 DEF Left
    <3>2. CanLink(x.path, x.from) \/ CanRename(x.path, x.from) BY <2>9, <2>15 DEF Works
    <3>3. disk[x.from] \in {Absent, Dir} BY <3>2 DEF CanLink, CanRename
    <3>4. p = x.path /\ x.from # p BY <1>1, <1>2, <3>1, <3>3
    <3>5. disk'[x.from] = disk[p] BY <1>1, <2>10, <3>1, <3>4
    <3>6. QED BY <2>10, <3>4, <3>5
  <2>16. Reversal(x) \in {"write", "remove", "mkdir", "rename"} BY DEF Reversal
  <2>17. QED BY <2>12, <2>13, <2>14, <2>15, <2>16
<1>9. CASE Outside
  <2>1. outside' = outside + 1 BY <1>9 DEF Outside
  <2>2. QED BY <1>1, <2>1
<1>10. CASE PlanCreate \/ PlanOverwrite \/ PlanReplace \/ PlanDelete
  <2>1. \E kind, y, c, r : Planned(Plan(kind, y, c, r))
    BY <1>10 DEF PlanCreate, PlanOverwrite, PlanReplace, PlanDelete
  <2>2. UNCHANGED disk BY <2>1 DEF Planned
  <2>3. QED BY <1>3, <2>2
<1>11. CASE Read \/ Recheck \/ Move \/ MoveFails \/ PlanUndo \/ ReadPriors
  <2>1. UNCHANGED disk BY <1>11 DEF Read, Recheck, Move, MoveFails, PlanUndo, ReadPriors
  <2>2. QED BY <1>3, <2>1
<1>12. CASE UndoEnds \/ NextTurn \/ Compact \/ Crash \/ UNCHANGED vars
  <2>1. UNCHANGED disk BY <1>12 DEF UndoEnds, NextTurn, Compact, Crash, vars
  <2>2. QED BY <1>3, <2>1
<1>13. QED
  BY <1>4, <1>5, <1>6, <1>7, <1>8, <1>9, <1>10, <1>11, <1>12 DEF Next

(* Files: whatever an edit, a move or an undo takes off the disk is in the journal, as
   what some entry replaced or left, or is still there under its new name -- unless
   somebody put it there after the call's last look at the file. *)
THEOREM NothingIsLost == Spec => NothingLost
<1>1. Init => Looked /\ Foreseen
  <2> SUFFICES ASSUME Init PROVE Looked /\ Foreseen OBVIOUS
  <2>1. op.stage = "idle" BY IdleIs DEF Init
  <2>2. QED BY <2>1 DEF Looked, Foreseen
<1>2. Typed /\ Standing /\ Looked /\ Foreseen /\ [Next]_vars => Looked' /\ Foreseen' BY LookedStep, ForeseenStep
<1>3. Typed /\ Journalled /\ Standing /\ Looked /\ Foreseen /\ [Next]_vars =>
        [\A p \in Paths :
           (disk[p].is = "file" /\ disk'[p] # disk[p] /\ outside' = outside) =>
             \/ p \in raced \/ (op.stage = "linked" /\ op.to \in raced)
             \/ \E q \in Paths \ {p} : disk'[q] = disk[p]
             \/ \E i \in DOMAIN journal' : journal'[i].path = p /\ disk[p] \in {journal'[i].old, journal'[i].new}]_vars
  BY LostStep
<1>4. QED BY <1>1, <1>2, <1>3, AlwaysTyped, PTL DEF Spec, NothingLost

-----------------------------------------------------------------------------
(* An undo restores what was.                                               *)

(* Whatever was taken back of a path so far, it holds what it held before the oldest
   of it, unless somebody else has been there, or a move or an earlier undo is part of it. *)
Entangled(p, S) == \E i \in S : p \in {journal[i].path, journal[i].from} /\ (journal[i].kind = "move" \/ journal[i].undoOf # 0)
LeastHolds(p, S) ==
  \E i \in S : journal[i].path = p /\ disk[p] = Before(journal[i]) /\ \A j \in S : journal[j].path = p => i <= j
Back(p, S) == p \in raced \/ Entangled(p, S) \/ LeastHolds(p, S)
Restored == op.stage = "undoing" => \A i \in ToSet(op.done) : Back(journal[i].path, ToSet(op.done))

LEMMA DoneAre ==
  ASSUME Typed, Standing, op.stage = "undoing"
  PROVE  op \in Undos /\ op.done \in Seq(Nat) /\ op.left \in Seq(Nat) /\ ToSet(op.done) \subseteq DOMAIN journal \cap Nat
<1>1. op \in Undos
  <2>1. op \in {Idle} \cup Plans \cup Moves \cup Undos BY DEF Typed
  <2>2. QED BY <2>1, StageIs
<1>2. op.done \in Seq(Nat) /\ op.left \in Seq(Nat) BY <1>1 DEF Undos
<1>3. \A m \in DOMAIN op.done : op.done[m] \in DOMAIN journal BY DEF Standing, InOrder, Undoable
<1>4. QED BY <1>1, <1>2, <1>3 DEF ToSet

LEMMA BackStep ==
  ASSUME Typed, Journalled, Standing, Restored, UndoStep
  PROVE  Restored'
<1>0. PICK i : i = Head(op.left) OBVIOUS
<1>1. /\ op.stage = "undoing" /\ op.left # <<>> /\ disk' = Left(journal[i])
      /\ op' = [op EXCEPT !.left = Tail(@), !.done = Append(@, i)] /\ UNCHANGED journal /\ raced \subseteq raced'
  BY <1>0 DEF UndoStep
<1>2. disk \in [Paths -> Nodes] /\ journal \in Seq(Entries) BY DEF Typed
<1>3. PICK S \in SUBSET Nat : S = ToSet(op.done) /\ S \subseteq DOMAIN journal BY <1>1, DoneAre
<1>4. PICK done \in Seq(Nat), left \in Seq(Nat) : done = op.done /\ left = op.left BY <1>1, DoneAre
<1>5. i = left[1] /\ 1 \in DOMAIN left BY <1>0, <1>1, <1>4
<1>6. Undoable(i) /\ i \in DOMAIN journal
  <2>1. InOrder(left) BY <1>1, <1>4 DEF Standing
  <2>2. QED BY <1>5, <2>1 DEF InOrder, Undoable
<1>7. i \in Nat /\ \A j \in S : i < j
  <2>1. \A m \in DOMAIN done : left[1] < done[m] BY <1>1, <1>4, <1>5 DEF Standing
  <2>2. QED BY <1>3, <1>4, <1>5, <2>1 DEF ToSet
<1>8. ToSet(op'.done) = S \cup {i}
  <2>1. op'.done = Append(done, i) BY <1>1, <1>4, DoneAre DEF Undos
  <2>2. PICK d \in Seq(Nat) : d = Append(done, i)
    <3>1. Append(done, i) \in Seq(Nat) BY <1>7
    <3>2. QED BY <3>1
  <2>3. ToSet(d) = ToSet(done) \cup {i}
    <3>1. /\ Len(done) \in Nat /\ DOMAIN done = 1 .. Len(done) /\ DOMAIN d = 1 .. (Len(done) + 1) /\ d[Len(done) + 1] = i
          /\ \A m \in DOMAIN done : d[m] = done[m]
      BY <1>7, <2>2
    <3>2. ASSUME NEW z \in ToSet(d) PROVE z \in ToSet(done) \cup {i}
      <4>1. PICK m \in DOMAIN d : z = d[m] BY DEF ToSet
      <4>2. m \in DOMAIN done \/ m = Len(done) + 1 BY <3>1
      <4>3. QED BY <3>1, <4>1, <4>2 DEF ToSet
    <3>3. ASSUME NEW z \in ToSet(done) \cup {i} PROVE z \in ToSet(d)
      <4>1. CASE z = i
        <5>1. Len(done) + 1 \in DOMAIN d BY <3>1
        <5>2. QED BY <3>1, <4>1, <5>1 DEF ToSet
      <4>2. CASE z \in ToSet(done)
        <5>1. PICK m \in DOMAIN done : z = done[m] BY <4>2 DEF ToSet
        <5>2. m \in DOMAIN d BY <3>1
        <5>3. QED BY <3>1, <5>1, <5>2 DEF ToSet
      <4>3. QED BY <4>1, <4>2
    <3>4. QED BY <3>2, <3>3
  <2>4. QED BY <1>3, <1>4, <2>1, <2>2, <2>3
<1>9. PICK x \in Entries : x = journal[i] BY <1>2, <1>6
<1>10. Recorded(x, i, turn) BY <1>6, <1>9 DEF Journalled
<1>11. x.path \in Paths /\ x.from \in Paths /\ x.kind \in Kinds BY DEF Entries
<1>12. disk' = Left(x) BY <1>1, <1>9
<1>13. Reversal(x) \in {"write", "remove", "mkdir", "rename"} /\ (Reversal(x) = "rename" => x.kind = "move") BY DEF Reversal
<1>14. Reversal(x) # "rename" => /\ \A p \in Paths \ {x.path} : disk'[p] = disk[p]
                                 /\ x.undoOf = 0 => disk'[x.path] = Before(x)
  <2>1. CASE Reversal(x) = "write"
    <3>1. Reconstructed(x) = x.old BY <1>6, <1>9, <2>1, RecoveredIs DEF Undoable
    <3>2. x.kind # "create" BY <2>1 DEF Reversal
    <3>3. disk' = [disk EXCEPT ![x.path] = x.old] BY <1>12, <2>1, <3>1 DEF Left
    <3>4. QED BY <1>2, <1>11, <3>2, <3>3 DEF Before
  <2>2. CASE Reversal(x) = "remove"
    <3>1. x.kind = "create" BY <2>2 DEF Reversal
    <3>2. disk' = [disk EXCEPT ![x.path] = Absent] BY <1>12, <2>2 DEF Left
    <3>3. QED BY <1>2, <1>11, <3>1, <3>2 DEF Before
  <2>3. CASE Reversal(x) = "mkdir"
    <3>1. x.kind = "delete" /\ x.dir BY <2>3 DEF Reversal
    <3>2. disk' = [disk EXCEPT ![x.path] = Dir] BY <1>12, <2>3 DEF Left
    <3>3. x.undoOf = 0 => x.old = Dir BY <1>10, <3>1 DEF Recorded
    <3>4. QED BY <1>2, <1>11, <3>1, <3>2, <3>3 DEF Before
  <2>4. QED BY <1>13, <2>1, <2>2, <2>3
<1>15. Reversal(x) = "rename" => \A p \in Paths \ {x.path, x.from} : disk'[p] = disk[p]
  BY <1>2, <1>12 DEF Left
<1>16. ASSUME NEW k \in S \cup {i}
       PROVE  Back(journal[k].path, S \cup {i})'
  <2>1. PICK p \in Paths : p = journal[k].path
    <3>1. journal[k] \in Entries BY <1>2, <1>3, <1>6
    <3>2. QED BY <3>1 DEF Entries
  <2>2. CASE p \in raced BY <1>1, <2>1, <2>2 DEF Back
  <2>3. CASE Entangled(p, S \cup {i}) BY <1>1, <2>1, <2>3 DEF Back, Entangled
  <2>4. CASE p \notin raced /\ ~Entangled(p, S \cup {i})
    <3>1. p \in {x.path, x.from} => x.kind # "move" /\ x.undoOf = 0 BY <1>9, <2>4 DEF Entangled
    <3>2. CASE p = x.path
      <4>1. disk'[p] = Before(x) BY <1>13, <1>14, <3>1, <3>2
      <4>2. \A j \in S \cup {i} : i <= j BY <1>7, <1>3
      <4>3. LeastHolds(p, S \cup {i})' BY <1>1, <1>9, <3>2, <4>1, <4>2 DEF LeastHolds, Before
      <4>4. QED BY <1>1, <2>1, <4>3 DEF Back
    <3>3. CASE p # x.path
      <4>1. k \in S /\ ~Entangled(p, S) BY <1>9, <2>1, <2>4, <3>3 DEF Entangled
      <4>2. LeastHolds(p, S) BY <1>1, <1>3, <2>1, <2>4, <4>1 DEF Restored, Back
      <4>3. disk'[p] = disk[p] BY <1>13, <1>14, <1>15, <3>1, <3>3
      <4>4. LeastHolds(p, S \cup {i})' BY <1>1, <1>9, <3>3, <4>2, <4>3 DEF LeastHolds, Before
      <4>5. QED BY <1>1, <2>1, <4>4 DEF Back
    <3>4. QED BY <3>2, <3>3
  <2>5. QED BY <2>2, <2>3, <2>4
<1>17. QED BY <1>8, <1>16 DEF Restored

LEMMA RestoredStep ==
  ASSUME Typed, Journalled, Standing, Restored, [Next]_vars
  PROVE  Restored'
<1>1. op \in {Idle} \cup Plans \cup Moves \cup Undos /\ disk \in [Paths -> Nodes] /\ journal \in Seq(Entries) BY DEF Typed
<1>2. ASSUME op'.stage # "undoing" PROVE Restored' BY <1>2 DEF Restored
<1>3. ASSUME op' = Idle PROVE Restored' BY <1>2, <1>3, IdleIs
<1>4. ASSUME UNCHANGED <<disk, op, raced, journal>> PROVE Restored'
  BY <1>4 DEF Restored, Back, Entangled, LeastHolds, Before
<1>5. CASE UndoStep BY <1>5, BackStep
<1>6. CASE ReadPriors
  <2>1. /\ op.stage = "priors" /\ (op' = Idle \/ \E priors : op' = [op EXCEPT !.stage = "undoing", !.priors = priors])
    BY <1>6 DEF ReadPriors
  <2>2. op \in Undos /\ op.done = <<>> BY <1>1, <2>1, StageIs DEF Standing
  <2>3. op' = Idle \/ op'.done = <<>> BY <2>1, <2>2 DEF Undos
  <2>4. ASSUME op'.done = <<>> PROVE Restored' BY <2>4 DEF Restored, ToSet
  <2>5. QED BY <1>3, <2>3, <2>4
<1>7. CASE Outside
  <2>1. PICK p \in Paths, x \in Foreign :
          /\ disk' = [disk EXCEPT ![p] = x] /\ raced' = (IF op = Idle THEN raced ELSE raced \cup {p})
          /\ UNCHANGED <<op, journal>>
    BY <1>7 DEF Outside
  <2>2. CASE op = Idle BY <1>3, <2>1, <2>2
  <2>3. CASE op # Idle
    <3>1. raced \subseteq raced' /\ \A z \in Paths \ raced' : disk'[z] = disk[z] BY <1>1, <2>1, <2>3
    <3>2. ASSUME op.stage = "undoing", NEW i \in ToSet(op.done) PROVE Back(journal[i].path, ToSet(op.done))'
      <4>1. i \in DOMAIN journal BY <3>2, DoneAre
      <4>2. journal[i] \in Entries BY <1>1, <4>1
      <4>3. journal[i].path \in Paths BY <4>2 DEF Entries
      <4>4. PICK r \in Paths : r = journal[i].path BY <4>3
      <4>5. PICK S : S = ToSet(op.done) OBVIOUS
      <4>6. Back(r, S) BY <3>2, <4>4, <4>5 DEF Restored
      <4>7. CASE r \in raced' BY <2>1, <4>4, <4>5, <4>7 DEF Back
      <4>8. CASE r \notin raced'
        <5>1. disk'[r] = disk[r] BY <3>1, <4>8
        <5>2. Entangled(r, S) \/ LeastHolds(r, S) BY <3>1, <4>6, <4>8 DEF Back
        <5>3. Entangled(r, S)' \/ LeastHolds(r, S)' BY <2>1, <5>1, <5>2 DEF Entangled, LeastHolds, Before
        <5>4. QED BY <2>1, <4>4, <4>5, <5>3 DEF Back
      <4>9. QED BY <4>7, <4>8
    <3>3. QED BY <2>1, <3>2 DEF Restored
  <2>4. QED BY <2>2, <2>3
<1>8. CASE PlanUndo
  <2>1. op'.stage = "priors" BY <1>8 DEF PlanUndo
  <2>2. QED BY <1>2, <2>1
<1>9. CASE PlanCreate \/ PlanOverwrite \/ PlanReplace \/ PlanDelete
  <2>1. \E kind, p, c, r : Planned(Plan(kind, p, c, r))
    BY <1>9 DEF PlanCreate, PlanOverwrite, PlanReplace, PlanDelete
  <2>2. PICK kind, p, c, r : Planned(Plan(kind, p, c, r)) BY <2>1
  <2>3. op'.stage = "planned" BY <2>2 DEF Planned, Plan
  <2>4. QED BY <1>2, <2>3
<1>10. CASE Recheck
  <2>1. op.stage = "planned" /\ (op' = [op EXCEPT !.stage = "checked"] \/ op' = Idle) BY <1>10 DEF Recheck
  <2>2. op \in Plans BY <1>1, <2>1, StageIs
  <2>3. op' = Idle \/ op'.stage = "checked" BY <2>1, <2>2 DEF Plans
  <2>4. QED BY <1>2, <1>3, <2>3
<1>11. CASE Move
  <2>1. op'.stage = "moving" BY <1>11 DEF Move
  <2>2. QED BY <1>2, <2>1
<1>12. CASE Link
  <2>1. op.stage = "moving" /\ op' = [op EXCEPT !.stage = "linked"] BY <1>12 DEF Link
  <2>2. op \in Moves BY <1>1, <2>1, StageIs
  <2>3. op'.stage = "linked" BY <2>1, <2>2 DEF Moves
  <2>4. QED BY <1>2, <2>3
<1>13. CASE DeleteDirectory
  <2>1. op' = Idle BY <1>13 DEF DeleteDirectory
  <2>2. QED BY <1>3, <2>1
<1>14. CASE Apply \/ Moved \/ MoveFails \/ UndoEnds \/ Crash
  <2>1. op' = Idle BY <1>14 DEF Apply, Moved, MoveFails, UndoEnds, Crash
  <2>2. QED BY <1>3, <2>1
<1>15. CASE Read \/ NextTurn \/ Compact \/ UNCHANGED vars BY <1>4, <1>15 DEF Read, NextTurn, Compact, vars
<1>16. QED
  BY <1>5, <1>6, <1>7, <1>8, <1>9, <1>10, <1>11, <1>12, <1>13, <1>14, <1>15 DEF Next

(* Files: an undo that ran to its end with nobody in between has left each file it
   rewrote as it was before the oldest edit it took back. *)
THEOREM AnUndoRestores == Spec => []UndoRestores
<1>1. Init => Restored
  <2> SUFFICES ASSUME Init PROVE Restored OBVIOUS
  <2>1. op.stage = "idle" BY IdleIs DEF Init
  <2>2. QED BY <2>1 DEF Restored
<1>2. Typed /\ Journalled /\ Standing /\ Restored /\ [Next]_vars => Restored' BY RestoredStep
<1>3. Typed /\ Standing /\ Restored => UndoRestores
  <2> SUFFICES ASSUME Typed, Standing, Restored, op.stage = "undoing",
                      NEW p, p \in {journal[i].path : i \in ToSet(op.done)}
               PROVE  \/ p \in raced
                      \/ \E i \in ToSet(op.done) : p \in {journal[i].path, journal[i].from} /\ (journal[i].kind = "move" \/ journal[i].undoOf # 0)
                      \/ disk[p] = Before(journal[Oldest(p)])
    BY DEF UndoRestores
  <2>1. PICK S \in SUBSET Nat : S = ToSet(op.done) BY DoneAre
  <2>2. p \in raced \/ Entangled(p, S) \/ LeastHolds(p, S) BY <2>1 DEF Restored, Back
  <2>3. ASSUME LeastHolds(p, S) PROVE disk[p] = Before(journal[Oldest(p)])
    <3>1. PICK i \in S : journal[i].path = p /\ disk[p] = Before(journal[i]) /\ \A j \in S : journal[j].path = p => i <= j
      BY <2>3 DEF LeastHolds
    <3>2. Oldest(p) = CHOOSE m \in S : journal[m].path = p /\ \A j \in S : journal[j].path = p => m <= j
      BY <2>1 DEF Oldest
    <3>3. Oldest(p) \in S /\ journal[Oldest(p)].path = p /\ \A j \in S : journal[j].path = p => Oldest(p) <= j
      BY <3>1, <3>2
    <3>4. Oldest(p) = i
      <4>1. i \in Nat /\ Oldest(p) \in Nat BY <3>3
      <4>2. i <= Oldest(p) /\ Oldest(p) <= i BY <3>1, <3>3
      <4>3. QED BY <4>1, <4>2
    <3>5. QED BY <3>1, <3>4
  <2>4. QED BY <2>1, <2>2, <2>3 DEF Entangled
<1>4. QED BY <1>1, <1>2, <1>3, AlwaysTyped, PTL DEF Spec

==============================================================================
