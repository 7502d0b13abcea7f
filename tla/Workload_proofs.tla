--------------------------- MODULE Workload_proofs ---------------------------
(* What work may touch and what a model is told of it: the proofs of Context, of *)
(* ShellChanges and of Sandbox.                                                *)
EXTENDS Context, ShellChanges, Sandbox, FiniteSetTheorems, SequenceTheorems, WellFoundedInduction, TLAPS

-----------------------------------------------------------------------------
(* Numbers.                                                                    *)

(* A set of naturals that is not empty has a least member, which Min names. *)
LEMMA MinOf ==
  ASSUME NEW T, T \subseteq Nat, T # {}
  PROVE  Min(T) \in T /\ \A y \in T : Min(T) <= y
<1> DEFINE R == OpToRel(<, Nat)
<1>1. IsWellFoundedOn(R, Nat) BY NatLessThanWellFounded
<1>2. R = {ss \in Nat \X Nat : ss[1] < ss[2]} BY DEF OpToRel
<1>3. \E x \in T : \A y \in T : ~(<<y, x>> \in R)
  <2> HIDE DEF R
  <2> QED BY <1>1, WFMin
<1>4. PICK x \in T : \A y \in T : ~(<<y, x>> \in R) BY <1>3
<1>5. ASSUME NEW y \in T PROVE x <= y
  <2>1. x \in Nat /\ y \in Nat OBVIOUS
  <2>2. ~(<<y, x>> \in {ss \in Nat \X Nat : ss[1] < ss[2]}) BY <1>2, <1>4
  <2>3. ~(y < x) BY <2>1, <2>2
  <2>4. QED BY <2>1, <2>3
<1>6. \E z \in T : \A y \in T : z <= y BY <1>5
<1>7. QED BY <1>6 DEF Min

(* One that is bounded has a greatest, which Max names. *)
LEMMA MaxOf ==
  ASSUME NEW n \in Nat, NEW T, T \subseteq 0 .. n, T # {}
  PROVE  Max(T) \in T /\ \A y \in T : y <= Max(T)
<1> DEFINE U == {n - x : x \in T}
<1>1. U \subseteq Nat /\ U # {} OBVIOUS
<1>2. PICK u \in U : \A y \in U : u <= y
  <2> HIDE DEF U
  <2> QED BY <1>1, MinOf
<1>3. PICK x \in T : u = n - x BY <1>2
<1>4. ASSUME NEW y \in T PROVE x >= y
  <2>1. n - x <= n - y BY <1>2, <1>3
  <2>2. x \in 0 .. n /\ y \in 0 .. n OBVIOUS
  <2>3. QED BY <2>1, <2>2
<1>5. \E z \in T : \A y \in T : z >= y BY <1>4
<1>6. QED BY <1>5 DEF Max

(* The numbers up to n are n. *)
LEMMA FirstOf ==
  ASSUME NEW n \in Nat
  PROVE  IsFiniteSet(1 .. n) /\ Cardinality(1 .. n) = n
<1>1. 1 \in Int /\ n \in Int OBVIOUS
<1>2. IsFiniteSet(1 .. n) /\ Cardinality(1 .. n) = IF 1 > n THEN 0 ELSE n - 1 + 1 BY ONLY <1>1, FS_Interval
<1>3. QED BY <1>2

-----------------------------------------------------------------------------
(* Context: conversations.                                                     *)

LEMMA IdsAre ==
  ASSUME NEW h \in Seq(Message), NEW f \in {"asks", "calls", "results", "shows"}
  PROVE  \A id : id \in IdsOf(h, f) <=> \E i \in 1 .. Len(h) : id \in h[i][f]
BY DEF IdsOf

LEMMA MessagesAre ==
  ASSUME NEW h \in Seq(Message), NEW i \in 1 .. Len(h)
  PROVE  /\ h[i] \in Message
         /\ h[i].asks \subseteq 1 .. MaxTurns /\ h[i].calls \subseteq Numbers
         /\ h[i].results \subseteq Numbers /\ h[i].shows \subseteq Numbers /\ h[i].size \in Sizes
<1>1. h[i] \in Message OBVIOUS
<1>2. QED BY <1>1 DEF Message

LEMMA PlainIs ==
  ASSUME NEW k \in Kinds
  PROVE  Plain(k) \in Message /\ Plain(k).kind = k /\ Plain(k).calls = {} /\ Plain(k).results = {}
         /\ Plain(k).shows = {}
BY DEF Plain, Message, Sizes

(* The tail's part that begins after the first b messages. *)
LEMMA ClosedAt ==
  ASSUME NEW h \in Seq(Message), NEW b \in 0 .. Len(h), Closed(h, b),
         NEW i \in 1 .. b, NEW j \in (b + 1) .. Len(h)
  PROVE  h[i].calls \cap h[j].results = {}
<1> DEFINE x == SubSeq(h, 1, b)
<1> DEFINE y == SubSeq(h, b + 1, Len(h))
<1>1. Len(h) \in Nat /\ b \in Nat /\ b <= Len(h) OBVIOUS
<1>2. x \in Seq(Message) /\ Len(x) = b /\ x[i] = h[i] BY <1>1
<1>3. y \in Seq(Message) /\ Len(y) = Len(h) - b BY <1>1
<1>4. y[j - b] = h[j] /\ j - b \in 1 .. Len(y)
  <2>1. PICK k : k = j - b OBVIOUS
  <2>2. k \in 1 .. Len(h) - b /\ b + 1 + k - 1 = j BY <1>1, <2>1
  <2>3. y[k] = h[b + 1 + k - 1] BY <1>1, <2>2
  <2>4. QED BY <1>3, <2>1, <2>2, <2>3
<1>5. IdsOf(x, "calls") \cap IdsOf(y, "results") = {} BY DEF Closed
<1> HIDE DEF x, y
<1>6. ASSUME NEW id \in h[i].calls PROVE id \in IdsOf(x, "calls") BY <1>2, IdsAre
<1>7. ASSUME NEW id \in h[j].results PROVE id \in IdsOf(y, "results") BY <1>3, <1>4, IdsAre
<1>8. QED BY <1>5, <1>6, <1>7

LEMMA ClosedAtNone ==
  ASSUME NEW h \in Seq(Message)
  PROVE  Closed(h, 0)
<1>1. SubSeq(h, 1, 0) = <<>> OBVIOUS
<1>2. IdsOf(<<>>, "calls") = {} BY DEF IdsOf
<1>3. QED BY <1>1, <1>2 DEF Closed

LEMMA TailStartIs ==
  ASSUME NEW h \in Seq(Message)
  PROVE  /\ TailStart(h) \in 0 .. Len(h) /\ Closed(h, TailStart(h))
         /\ \A i \in LastAsked(h) : TailStart(h) < i
<1>1. LastAsked(h) \subseteq 1 .. Len(h) /\ Len(h) \in Nat BY DEF LastAsked
<1>2. CASE LastAsked(h) = {}
  <2>1. TailStart(h) = 0 BY <1>2 DEF TailStart
  <2>2. QED BY <1>1, <1>2, <2>1, ClosedAtNone
<1>3. CASE LastAsked(h) # {}
  <2>1. PICK m : m = Min(LastAsked(h)) OBVIOUS
  <2>2. LastAsked(h) \subseteq Nat BY <1>1
  <2>3. Min(LastAsked(h)) \in LastAsked(h) /\ \A i \in LastAsked(h) : Min(LastAsked(h)) <= i
    BY ONLY <1>3, <2>2, MinOf
  <2>4. m \in 1 .. Len(h) /\ \A i \in LastAsked(h) : m <= i BY <1>1, <2>1, <2>3
  <2>5. PICK start : start = m - 1 OBVIOUS
  <2>6. PICK T : T = {b \in 0 .. start : Closed(h, b)} OBVIOUS
  <2>7. start \in Nat /\ T \subseteq 0 .. start /\ 0 \in T BY <2>4, <2>5, <2>6, ClosedAtNone
  <2>8. Max(T) \in T BY ONLY <2>7, MaxOf
  <2>9. TailStart(h) = Max(T)
    <3>1. TailStart(h) = SnapToClosure(h, start) BY <1>3, <2>1, <2>5 DEF TailStart
    <3>2. QED BY <2>6, <3>1 DEF SnapToClosure
  <2>10. TailStart(h) \in 0 .. start /\ Closed(h, TailStart(h)) BY <2>6, <2>8, <2>9
  <2>11. TailStart(h) \in 0 .. Len(h) BY <1>1, <2>4, <2>5, <2>10
  <2>12. ASSUME NEW i \in LastAsked(h) PROVE TailStart(h) < i BY <1>1, <2>4, <2>5, <2>10
  <2>13. QED BY <2>10, <2>11, <2>12
<1>4. QED BY <1>2, <1>3

(* What compaction makes of h: its first m messages are dropped for z new ones, no call
   of which is answered later, and after the first b every message is as it was. *)
Compacted(h, b, m, z, c) ==
  /\ c \in Seq(Message) /\ Len(c) = Len(h) - m + z
  /\ Closed(h, m)
  /\ \A i \in 1 .. z : c[i].calls = {} /\ c[i].results = {}
  /\ \A j \in (m + 1) .. Len(h) :
       c[j - m + z].calls = h[j].calls /\ c[j - m + z].results = h[j].results /\ c[j - m + z].shows = h[j].shows
  /\ \A j \in (b + 1) .. Len(h) : c[j - m + z] = h[j]
  /\ (m = 0 /\ z = 0) \/ delegations \subseteq IdsOf(c, "shows")

LEMMA ClipIs ==
  ASSUME NEW h \in Seq(Message), NEW b \in 0 .. Len(h)
  PROVE  /\ Clip(h, b) \in Seq(Message) /\ Len(Clip(h, b)) = Len(h)
         /\ \A j \in 1 .. Len(h) :
              /\ Clip(h, b)[j].calls = h[j].calls /\ Clip(h, b)[j].results = h[j].results
              /\ Clip(h, b)[j].shows = h[j].shows
         /\ \A j \in (b + 1) .. Len(h) : Clip(h, b)[j] = h[j]
<1>1. PICK c : c = Clip(h, b) OBVIOUS
<1>2. c = [i \in 1 .. Len(h) |-> IF i <= b /\ h[i].size = "large" THEN [h[i] EXCEPT !.size = "clipped"] ELSE h[i]]
  BY <1>1 DEF Clip
<1>3. Len(h) \in Nat /\ b \in Nat OBVIOUS
<1>4. ASSUME NEW i \in 1 .. Len(h)
      PROVE  /\ c[i] \in Message /\ c[i].calls = h[i].calls /\ c[i].results = h[i].results
             /\ c[i].shows = h[i].shows /\ (i > b => c[i] = h[i])
  <2>1. h[i] \in Message OBVIOUS
  <2>2. CASE i <= b /\ h[i].size = "large"
    <3>1. c[i] = [h[i] EXCEPT !.size = "clipped"] BY <1>2, <2>2
    <3>2. QED BY <1>3, <2>1, <2>2, <3>1 DEF Message, Sizes
  <2>3. CASE ~(i <= b /\ h[i].size = "large")
    <3>1. c[i] = h[i] BY <1>2, <2>3
    <3>2. QED BY <2>1, <3>1
  <2>4. QED BY <2>2, <2>3
<1>5. c \in [1 .. Len(h) -> Message] BY <1>2, <1>4
<1>6. c \in Seq(Message) /\ Len(c) = Len(h) BY <1>3, <1>5
<1>7. \A j \in (b + 1) .. Len(h) : j \in 1 .. Len(h) /\ j > b BY <1>3
<1>8. QED BY <1>1, <1>4, <1>6, <1>7

LEMMA SummaryIs ==
  ASSUME NEW h \in Seq(Message)
  PROVE  Summary(h) \in Message /\ Summary(h).calls = {} /\ Summary(h).results = {}
<1>1. PICK told : told =
        {t \in UNION {h[i].asks : i \in {j \in DOMAIN h : h[j].kind = "user"}} :
           Cardinality({u \in UNION {h[i].asks : i \in {j \in DOMAIN h : h[j].kind = "user"}} : u > t}) < NamedAsks}
  OBVIOUS
<1>2. told \subseteq 1 .. MaxTurns BY <1>1, MessagesAre
<1>3. Summary(h) = [Plain("summary") EXCEPT !.asks = told] BY <1>1, Zenon DEF Summary
<1>4. Plain("summary") \in Message /\ Plain("summary").calls = {} /\ Plain("summary").results = {}
  BY PlainIs DEF Kinds
<1>5. QED BY <1>2, <1>3, <1>4 DEF Message

LEMMA AnchorsAre ==
  ASSUME delegations \subseteq Numbers
  PROVE  /\ Anchors \in Seq(Message) /\ Len(Anchors) \in 0 .. 1
         /\ \A i \in 1 .. Len(Anchors) : Anchors[i].calls = {} /\ Anchors[i].results = {}
         /\ delegations # {} => Len(Anchors) = 1 /\ Anchors[1].shows = delegations
<1>1. PICK m : m = [Plain("anchors") EXCEPT !.shows = delegations] OBVIOUS
<1>2. Plain("anchors") \in Message /\ Plain("anchors").calls = {} /\ Plain("anchors").results = {}
  BY PlainIs DEF Kinds
<1>3. m \in Message /\ m.calls = {} /\ m.results = {} /\ m.shows = delegations BY <1>1, <1>2 DEF Message
<1>4. Anchors = IF delegations = {} THEN <<>> ELSE <<m>> BY <1>1 DEF Anchors
<1>5. QED BY <1>3, <1>4

LEMMA CompactIs ==
  ASSUME NEW h \in Seq(Message), NEW budget, delegations \subseteq Numbers
  PROVE  \E m \in 0 .. TailStart(h), z \in 0 .. 2 : Compacted(h, TailStart(h), m, z, Compact(h, budget))
<1>1. PICK b : b = TailStart(h) OBVIOUS
<1>2. PICK clipped : clipped = Clip(h, b) OBVIOUS
<1>3. PICK c : c = Compact(h, budget) OBVIOUS
<1>4. c = IF Tokens(clipped) <= budget \/ b = 0 THEN clipped
          ELSE <<Summary(SubSeq(clipped, 1, b))>> \o Anchors \o SubSeq(clipped, b + 1, Len(h))
  BY <1>1, <1>2, <1>3, Zenon DEF Compact
<1>5. b \in 0 .. Len(h) /\ Closed(h, b) /\ Len(h) \in Nat /\ b \in Nat BY <1>1, TailStartIs
<1>6. /\ clipped \in Seq(Message) /\ Len(clipped) = Len(h)
      /\ \A j \in 1 .. Len(h) :
              clipped[j].calls = h[j].calls /\ clipped[j].results = h[j].results /\ clipped[j].shows = h[j].shows
      /\ \A j \in (b + 1) .. Len(h) : clipped[j] = h[j]
  BY <1>2, <1>5, ClipIs
<1>7. CASE c = clipped
  <2>1. \A j \in 1 .. Len(h) : j - 0 + 0 = j BY <1>5
  <2>2. \A j \in (b + 1) .. Len(h) : j \in 1 .. Len(h) BY <1>5
  <2>3. Len(h) - 0 + 0 = Len(h) /\ 0 + 1 = 1 BY <1>5
  <2>4. Compacted(h, b, 0, 0, c) BY <1>6, <1>7, <2>1, <2>2, <2>3, ClosedAtNone DEF Compacted
  <2>5. 0 \in 0 .. b /\ 0 \in 0 .. 2 BY <1>5
  <2>6. QED BY <1>1, <1>3, <2>4, <2>5
<1>8. CASE c = <<Summary(SubSeq(clipped, 1, b))>> \o Anchors \o SubSeq(clipped, b + 1, Len(h))
  <2>1. PICK said : said = Summary(SubSeq(clipped, 1, b)) OBVIOUS
  <2>2. said \in Message /\ said.calls = {} /\ said.results = {}
    <3>1. SubSeq(clipped, 1, b) \in Seq(Message) BY <1>5, <1>6
    <3>2. QED BY <2>1, <3>1, SummaryIs
  <2>3. PICK left : left = SubSeq(clipped, b + 1, Len(h)) OBVIOUS
  <2>4. left \in Seq(Message) /\ Len(left) = Len(h) - b /\ \A i \in 1 .. Len(h) - b : left[i] = h[b + i]
    <3>1. left \in Seq(Message) /\ Len(left) = Len(h) - b BY <1>5, <1>6, <2>3
    <3>2. ASSUME NEW i \in 1 .. Len(h) - b PROVE left[i] = h[b + i]
      <4>1. PICK k : k = b + i OBVIOUS
      <4>2. b + 1 + i - 1 = k /\ k \in (b + 1) .. Len(h) BY <1>5, <4>1
      <4>3. left[i] = clipped[b + 1 + i - 1] BY <1>5, <1>6, <2>3
      <4>4. QED BY <1>6, <4>1, <4>2, <4>3
    <3>3. QED BY <3>1, <3>2
  <2>5. PICK head : head = <<said>> \o Anchors OBVIOUS
  <2>6. PICK z : z = Len(head) OBVIOUS
  <2>7. /\ head \in Seq(Message) /\ z \in 1 .. 2
        /\ \A i \in 1 .. z : head[i].calls = {} /\ head[i].results = {}
        /\ delegations # {} => z = 2 /\ head[2].shows = delegations
    <3>1. PICK a : a = Anchors OBVIOUS
    <3>2. /\ a \in Seq(Message) /\ Len(a) \in 0 .. 1
          /\ \A i \in 1 .. Len(a) : a[i].calls = {} /\ a[i].results = {}
          /\ delegations # {} => Len(a) = 1 /\ a[1].shows = delegations
      BY <3>1, AnchorsAre
    <3>3. <<said>> \in Seq(Message) /\ Len(<<said>>) = 1 /\ <<said>>[1] = said BY <2>2
    <3>4. head = <<said>> \o a BY <2>5, <3>1
    <3>5. /\ head \in Seq(Message) /\ Len(head) = Len(<<said>>) + Len(a)
          /\ \A i \in 1 .. Len(<<said>>) + Len(a) :
               head[i] = IF i <= Len(<<said>>) THEN <<said>>[i] ELSE a[i - Len(<<said>>)]
      BY ONLY <3>2, <3>3, <3>4, ConcatProperties
    <3>6. z = 1 + Len(a) BY <2>6, <3>3, <3>5
    <3>7. head[1] = said BY <3>2, <3>3, <3>5
    <3>8. Len(a) = 1 => z = 2 /\ head[2] = a[1] BY <3>3, <3>5, <3>6
    <3>9. ASSUME NEW i \in 1 .. z PROVE head[i].calls = {} /\ head[i].results = {}
      <4>1. i = 1 \/ (i = 2 /\ Len(a) = 1) BY <3>2, <3>6
      <4>2. 1 \in 1 .. 1 OBVIOUS
      <4>3. QED BY <2>2, <3>2, <3>7, <3>8, <4>1, <4>2
    <3>10. QED BY <3>2, <3>5, <3>6, <3>8, <3>9
  <2>8. c = head \o left BY <1>8, <2>1, <2>3, <2>5
  <2>9. /\ c \in Seq(Message) /\ Len(c) = z + Len(left)
        /\ \A i \in 1 .. z + Len(left) : c[i] = IF i <= z THEN head[i] ELSE left[i - z]
    BY ONLY <2>4, <2>6, <2>7, <2>8, ConcatProperties
  <2>10. Len(c) = Len(h) - b + z BY <1>5, <2>4, <2>7, <2>9
  <2>11. ASSUME NEW j \in (b + 1) .. Len(h) PROVE c[j - b + z] = h[j]
    <3>1. PICK i : i = j - b + z OBVIOUS
    <3>2. i \in 1 .. z + Len(left) /\ ~(i <= z) /\ i - z = j - b /\ j - b \in 1 .. Len(h) - b /\ b + (j - b) = j
      BY <1>5, <2>4, <2>7, <3>1
    <3>3. c[i] = left[j - b] BY <2>9, <3>2
    <3>4. left[j - b] = h[j] BY <2>4, <3>2
    <3>5. QED BY <3>1, <3>3, <3>4
  <2>12. ASSUME NEW i \in 1 .. z PROVE c[i] = head[i] BY <2>4, <2>7, <2>9, SMTT(30)
  <2>13. delegations \subseteq IdsOf(c, "shows")
    <3>1. CASE delegations = {} BY <3>1
    <3>2. CASE delegations # {}
      <4>1. z = 2 /\ 2 \in 1 .. z /\ 2 \in 1 .. Len(c) BY <2>4, <2>7, <2>9, <3>2
      <4>2. c[2].shows = delegations BY <2>7, <2>12, <3>2, <4>1
      <4>3. QED BY <2>9, <4>1, <4>2, IdsAre
    <3>3. QED BY <3>1, <3>2
  <2>14. Compacted(h, b, b, z, c) BY <1>5, <2>7, <2>9, <2>10, <2>11, <2>12, <2>13 DEF Compacted
  <2>15. b \in 0 .. b /\ z \in 0 .. 2 BY <1>5, <2>7
  <2>16. QED BY <1>1, <1>3, <2>14, <2>15
<1>9. QED BY <1>4, <1>7, <1>8

-----------------------------------------------------------------------------
(* Context: what stays true of a conversation.                                 *)

(* No result comes before its call. *)
InOrder(h) == \A i \in 1 .. Len(h) : \A id \in h[i].results : \E j \in 1 .. (i - 1) : id \in h[j].calls

(* Each call has a number of its own, one of the first n. *)
Unique(h, n) == /\ \A i \in 1 .. Len(h) : h[i].calls \subseteq 1 .. n
                /\ \A i \in 1 .. Len(h), j \in 1 .. Len(h) : i # j => h[i].calls \cap h[j].calls = {}

(* But for those that are open, every call has its result. *)
Sound(h, n, open) ==
  /\ InOrder(h)
  /\ ~repeats => Unique(h, n) /\ IdsOf(h, "calls") \subseteq IdsOf(h, "results") \cup open

LEMMA AppendIs ==
  ASSUME NEW h \in Seq(Message), NEW m \in Message
  PROVE  /\ Append(h, m) \in Seq(Message) /\ Len(Append(h, m)) = Len(h) + 1 /\ Len(h) \in Nat
         /\ \A i \in 1 .. Len(h) : Append(h, m)[i] = h[i]
         /\ Append(h, m)[Len(h) + 1] = m
         /\ \A i \in 1 .. (Len(h) + 1) : i \in 1 .. Len(h) \/ i = Len(h) + 1
         /\ \A f \in {"asks", "calls", "results", "shows"} : IdsOf(Append(h, m), f) = IdsOf(h, f) \cup m[f]
<1>1. PICK c : c = Append(h, m) OBVIOUS
<1>2. PICK n : n = Len(h) + 1 OBVIOUS
<1>3. /\ c \in Seq(Message) /\ Len(c) = n /\ Len(h) \in Nat /\ c[n] = m
      /\ \A i \in 1 .. Len(h) : c[i] = h[i]
  BY <1>1, <1>2, AppendProperties
<1>4. \A i \in 1 .. n : i \in 1 .. Len(h) \/ i = n BY <1>2, <1>3
<1>5. n \in 1 .. n /\ \A i \in 1 .. Len(h) : i \in 1 .. n BY <1>2, <1>3
<1>6. ASSUME NEW f \in {"asks", "calls", "results", "shows"}
      PROVE  IdsOf(c, f) = IdsOf(h, f) \cup m[f]
  <2>1. \A id : id \in IdsOf(c, f) <=> \E i \in 1 .. n : id \in c[i][f] BY <1>3, IdsAre
  <2>2. \A id : id \in IdsOf(h, f) <=> \E i \in 1 .. Len(h) : id \in h[i][f] BY IdsAre
  <2>3. \A id : id \in IdsOf(c, f) <=> (id \in IdsOf(h, f) \/ id \in m[f]) BY <1>3, <1>4, <1>5, <2>1, <2>2
  <2>4. QED BY <2>3
<1>7. QED BY <1>1, <1>2, <1>3, <1>4, <1>6

LEMMA AppendSound ==
  ASSUME NEW h \in Seq(Message), NEW m \in Message, NEW n \in Nat, NEW p \in Nat, n <= p, NEW open,
         Sound(h, n, open), m.results \subseteq IdsOf(h, "calls"),
         ~repeats => m.calls \subseteq (n + 1) .. p,
         NEW next, open \subseteq m.results \cup next, m.calls \subseteq next
  PROVE  Sound(Append(h, m), p, next)
<1>1. PICK c : c = Append(h, m) OBVIOUS
<1>2. PICK k : k = Len(h) + 1 OBVIOUS
<1>3. /\ c \in Seq(Message) /\ Len(c) = k /\ Len(h) \in Nat /\ c[k] = m
      /\ \A i \in 1 .. Len(h) : c[i] = h[i]
      /\ \A i \in 1 .. k : i \in 1 .. Len(h) \/ i = k
      /\ IdsOf(c, "calls") = IdsOf(h, "calls") \cup m.calls
      /\ IdsOf(c, "results") = IdsOf(h, "results") \cup m.results
  BY <1>1, <1>2, AppendIs
<1>4. InOrder(c)
  <2>1. ASSUME NEW i \in 1 .. k, NEW id \in c[i].results
        PROVE  \E j \in 1 .. (i - 1) : id \in c[j].calls
    <3>1. CASE i \in 1 .. Len(h)
      <4>1. PICK j \in 1 .. (i - 1) : id \in h[j].calls BY <1>3, <2>1, <3>1 DEF Sound, InOrder
      <4>2. j \in 1 .. Len(h) BY <1>3, <3>1
      <4>3. QED BY <1>3, <4>1, <4>2
    <3>2. CASE i = k
      <4>1. id \in IdsOf(h, "calls") BY <1>3, <2>1, <3>2
      <4>2. PICK j \in 1 .. Len(h) : id \in h[j].calls BY <4>1, IdsAre
      <4>3. j \in 1 .. (i - 1) BY <1>2, <1>3, <3>2
      <4>4. QED BY <1>3, <4>2, <4>3
    <3>3. QED BY <1>3, <3>1, <3>2
  <2>2. QED BY <1>3, <2>1 DEF InOrder
<1>5. ASSUME ~repeats PROVE Unique(c, p) /\ IdsOf(c, "calls") \subseteq IdsOf(c, "results") \cup next
  <2>1. Unique(h, n) /\ IdsOf(h, "calls") \subseteq IdsOf(h, "results") \cup open BY <1>5 DEF Sound
  <2>2. \A i \in 1 .. Len(h) : h[i].calls \subseteq 1 .. n BY <2>1 DEF Unique
  <2>3. m.calls \subseteq (n + 1) .. p BY <1>5
  <2>4. \A x \in 1 .. n : x \in 1 .. p /\ x \notin (n + 1) .. p OBVIOUS
  <2>5. \A x \in (n + 1) .. p : x \in 1 .. p OBVIOUS
  <2>6. \A i \in 1 .. k : c[i].calls \subseteq 1 .. p
    <3>1. ASSUME NEW i \in 1 .. k, NEW x \in c[i].calls PROVE x \in 1 .. p
      <4>1. CASE i \in 1 .. Len(h) BY <1>3, <2>2, <2>4, <3>1, <4>1
      <4>2. CASE i = k BY <1>3, <2>3, <2>5, <3>1, <4>2
      <4>3. QED BY <1>3, <4>1, <4>2
    <3>2. QED BY <3>1
  <2>7. ASSUME NEW i \in 1 .. k, NEW j \in 1 .. k, i # j PROVE c[i].calls \cap c[j].calls = {}
    <3>1. CASE i \in 1 .. Len(h) /\ j \in 1 .. Len(h) BY <1>3, <2>1, <2>7, <3>1 DEF Unique
    <3>2. CASE i \in 1 .. Len(h) /\ j = k BY <1>3, <2>2, <2>3, <2>4, <3>2
    <3>3. CASE i = k /\ j \in 1 .. Len(h) BY <1>3, <2>2, <2>3, <2>4, <3>3
    <3>4. QED BY <1>3, <2>7, <3>1, <3>2, <3>3
  <2>8. IdsOf(c, "calls") \subseteq IdsOf(c, "results") \cup next BY <1>3, <2>1
  <2>9. QED BY <1>3, <2>6, <2>7, <2>8 DEF Unique
<1>6. QED BY <1>1, <1>4, <1>5 DEF Sound

(* What says nothing of calls changes nothing of them. *)
LEMMA QuietSound ==
  ASSUME NEW h \in Seq(Message), NEW m \in Message, m.calls = {}, m.results = {}, NEW n \in Nat, NEW open,
         Sound(h, n, open)
  PROVE  Sound(Append(h, m), n, open)
<1>1. n <= n /\ open \subseteq m.results \cup open /\ m.calls \subseteq open
      /\ m.results \subseteq IdsOf(h, "calls") /\ m.calls \subseteq (n + 1) .. n
  OBVIOUS
<1>2. QED BY <1>1, AppendSound

LEMMA CompactedSound ==
  ASSUME NEW h \in Seq(Message), NEW b \in 0 .. Len(h), NEW m \in 0 .. b, NEW z \in 0 .. 2, NEW c,
         Compacted(h, b, m, z, c), NEW n \in Nat, NEW open, Sound(h, n, open)
  PROVE  Sound(c, n, open)
<1>1. /\ c \in Seq(Message) /\ Len(c) = Len(h) - m + z /\ Closed(h, m)
      /\ \A i \in 1 .. z : c[i].calls = {} /\ c[i].results = {}
      /\ \A j \in (m + 1) .. Len(h) : c[j - m + z].calls = h[j].calls /\ c[j - m + z].results = h[j].results
  BY DEF Compacted
<1>2. Len(h) \in Nat /\ m \in Nat /\ m <= Len(h) /\ z \in Nat OBVIOUS
(* Where a message of c comes from. *)
<1>3. ASSUME NEW i \in 1 .. Len(c), i > z
      PROVE  /\ i - z + m \in (m + 1) .. Len(h) /\ i - z + m \in 1 .. Len(h)
             /\ c[i].calls = h[i - z + m].calls /\ c[i].results = h[i - z + m].results
  <2>1. PICK j : j = i - z + m OBVIOUS
  <2>2. j \in (m + 1) .. Len(h) /\ j \in 1 .. Len(h) /\ j - m + z = i BY <1>1, <1>2, <1>3, <2>1
  <2>3. QED BY <1>1, <2>1, <2>2
<1>4. ASSUME NEW j \in (m + 1) .. Len(h)
      PROVE  /\ j - m + z \in 1 .. Len(c) /\ j - m + z > z
             /\ c[j - m + z].calls = h[j].calls /\ c[j - m + z].results = h[j].results
  BY <1>1, <1>2
<1>5. ASSUME NEW i \in 1 .. Len(c), c[i].calls # {} \/ c[i].results # {} PROVE i > z
  <2>1. ~(i \in 1 .. z) BY <1>1, <1>5
  <2>2. QED BY <1>1, <1>2, <2>1
<1>6. InOrder(c)
  <2>1. ASSUME NEW i \in 1 .. Len(c), NEW id \in c[i].results PROVE \E j \in 1 .. (i - 1) : id \in c[j].calls
    <3>1. PICK k : k = i - z + m OBVIOUS
    <3>2. i > z BY <1>5, <2>1
    <3>3. k \in (m + 1) .. Len(h) /\ k \in 1 .. Len(h) /\ id \in h[k].results BY <1>3, <2>1, <3>1, <3>2
    <3>4. PICK j \in 1 .. (k - 1) : id \in h[j].calls BY <3>3 DEF Sound, InOrder
    <3>5. j \notin 1 .. m
      <4>1. SUFFICES ASSUME j \in 1 .. m PROVE FALSE OBVIOUS
      <4>2. m \in 0 .. Len(h) BY <1>2
      <4>3. h[j].calls \cap h[k].results = {} BY <1>1, <3>3, <4>1, <4>2, ClosedAt
      <4>4. QED BY <3>3, <3>4, <4>3
    <3>6. j \in (m + 1) .. Len(h) BY <1>2, <3>3, <3>5
    <3>7. PICK l : l = j - m + z OBVIOUS
    <3>8. id \in c[l].calls BY <1>4, <3>4, <3>6, <3>7
    <3>9. l \in 1 .. (i - 1) BY <1>1, <1>2, <3>1, <3>3, <3>6, <3>7
    <3>10. QED BY <3>8, <3>9
  <2>2. QED BY <2>1 DEF InOrder
<1>7. ASSUME ~repeats PROVE Unique(c, n) /\ IdsOf(c, "calls") \subseteq IdsOf(c, "results") \cup open
  <2>1. /\ \A i \in 1 .. Len(h) : h[i].calls \subseteq 1 .. n
        /\ \A i \in 1 .. Len(h), j \in 1 .. Len(h) : i # j => h[i].calls \cap h[j].calls = {}
        /\ IdsOf(h, "calls") \subseteq IdsOf(h, "results") \cup open
    BY <1>7 DEF Sound, Unique
  <2>2. \A i \in 1 .. Len(c) : c[i].calls \subseteq 1 .. n
    <3>1. ASSUME NEW i \in 1 .. Len(c), NEW x \in c[i].calls PROVE x \in 1 .. n
      <4>1. i > z BY <1>5, <3>1
      <4>2. QED BY <1>3, <2>1, <3>1, <4>1
    <3>2. QED BY <3>1
  <2>3. ASSUME NEW i \in 1 .. Len(c), NEW j \in 1 .. Len(c), i # j PROVE c[i].calls \cap c[j].calls = {}
    <3>1. SUFFICES ASSUME NEW x, x \in c[i].calls, x \in c[j].calls PROVE FALSE OBVIOUS
    <3>2. i > z /\ j > z BY <1>5, <3>1
    <3>3. PICK k : k = i - z + m OBVIOUS
    <3>4. PICK l : l = j - z + m OBVIOUS
    <3>5. k \in 1 .. Len(h) /\ x \in h[k].calls BY <1>3, <3>1, <3>2, <3>3
    <3>6. l \in 1 .. Len(h) /\ x \in h[l].calls BY <1>3, <3>1, <3>2, <3>4
    <3>7. k # l BY <1>1, <1>2, <2>3, <3>3, <3>4
    <3>8. QED BY <2>1, <3>5, <3>6, <3>7
  <2>4. ASSUME NEW id \in IdsOf(c, "calls"), id \notin open PROVE id \in IdsOf(c, "results")
    <3>1. PICK i \in 1 .. Len(c) : id \in c[i].calls BY <1>1, IdsAre
    <3>2. PICK k : k = i - z + m OBVIOUS
    <3>3. i > z BY <1>5, <3>1
    <3>4. k \in (m + 1) .. Len(h) /\ k \in 1 .. Len(h) /\ id \in h[k].calls BY <1>3, <3>1, <3>2, <3>3
    <3>5. id \in IdsOf(h, "results") BY <2>1, <2>4, <3>4, IdsAre
    <3>6. PICK r \in 1 .. Len(h) : id \in h[r].results BY <3>5, IdsAre
    <3>7. PICK j \in 1 .. (r - 1) : id \in h[j].calls BY <3>6 DEF Sound, InOrder
    <3>8. j \in 1 .. Len(h) BY <1>2
    <3>9. j = k BY <2>1, <3>4, <3>7, <3>8
    <3>10. r \in (m + 1) .. Len(h) BY <1>2, <3>4, <3>7, <3>9
    <3>11. PICK l : l = r - m + z OBVIOUS
    <3>12. l \in 1 .. Len(c) /\ id \in c[l].results BY <1>4, <3>6, <3>10, <3>11
    <3>13. QED BY <1>1, <3>12, IdsAre
  <2>5. QED BY <2>2, <2>3, <2>4 DEF Unique
<1>8. QED BY <1>6, <1>7 DEF Sound

-----------------------------------------------------------------------------
(* Context: the invariant.                                                     *)

Open == IF at = "executing" THEN {issued} ELSE {}

ContextInv ==
  /\ at \in {"idle", "preparing", "requesting", "executing"} /\ repeats \in BOOLEAN
  /\ history \in Seq(Message)
  /\ receipts \subseteq Numbers /\ delegations \subseteq Numbers
  /\ turns \in Nat /\ issued \in 0 .. MaxIssued
  /\ Sound(history, issued, Open)
  /\ at = "executing" => issued \in Numbers /\ IdOf(issued) \in IdsOf(history, "calls")
  /\ ReceiptsSeen
  /\ delegations \subseteq IdsOf(history, "shows")

LEMMA BoundsAre == {MaxTurns, MaxSteps, MaxIssued, MaxNotes} \subseteq Nat
BY ContextAssumption

LEMMA ContextStarts == ContextInit => ContextInv
<1> SUFFICES ASSUME ContextInit PROVE ContextInv OBVIOUS
<1>1. history = <<>> \/ history \in Resumed BY DEF ContextInit
<1>2. PICK h : h = history OBVIOUS
<1>3. /\ h \in Seq(Message) /\ IdsOf(h, "calls") = 1 .. Cardinality(IdsOf(h, "calls"))
      /\ \A i \in DOMAIN h :
           /\ \A id \in h[i].results : \E j \in 1 .. (i - 1) : id \in h[j].calls
           /\ h[i].calls \subseteq IdsOf(h, "results")
           /\ \A j \in DOMAIN h \ {i} : h[i].calls \cap h[j].calls = {}
  <2>1. CASE h = <<>>
    <3>1. <<>> \in Seq(Message) /\ DOMAIN <<>> = {} OBVIOUS
    <3>2. IdsOf(<<>>, "calls") = {} BY DEF IdsOf
    <3>3. Cardinality({}) = 0 BY FS_EmptySet
    <3>4. 1 .. 0 = {} OBVIOUS
    <3>5. QED BY <2>1, <3>1, <3>2, <3>3, <3>4
  <2>2. CASE h \in Resumed BY <2>2, ResumedAssumption
  <2>3. QED BY <1>1, <1>2, <2>1, <2>2
<1>4. Len(h) \in Nat /\ DOMAIN h = 1 .. Len(h) BY <1>3
<1>5. IdsOf(h, "calls") \subseteq Numbers /\ IdsOf(h, "asks") \subseteq 1 .. MaxTurns
  BY <1>3, <1>4, IdsAre, MessagesAre
<1>6. Cardinality(IdsOf(h, "calls")) \in 0 .. MaxIssued
  <2>1. IsFiniteSet(1 .. MaxIssued) /\ Cardinality(1 .. MaxIssued) = MaxIssued BY BoundsAre, FirstOf
  <2>2. IsFiniteSet(IdsOf(h, "calls")) /\ Cardinality(IdsOf(h, "calls")) <= Cardinality(1 .. MaxIssued)
    BY <1>5, <2>1, FS_Subset DEF Numbers
  <2>3. Cardinality(IdsOf(h, "calls")) \in Nat BY <2>2, FS_CardinalityType
  <2>4. QED BY <2>1, <2>2, <2>3, BoundsAre
<1>7. Cardinality(IdsOf(h, "asks")) \in Nat
  <2>1. IsFiniteSet(1 .. MaxTurns) BY BoundsAre, FirstOf
  <2>2. IsFiniteSet(IdsOf(h, "asks")) BY <1>5, <2>1, FS_Subset
  <2>3. QED BY <2>2, FS_CardinalityType
<1>8. PICK n : n = Cardinality(IdsOf(h, "calls")) OBVIOUS
<1>9. Sound(h, n, {})
  <2>1. InOrder(h) BY <1>3, <1>4 DEF InOrder
  <2>2. \A i \in 1 .. Len(h) : h[i].calls \subseteq 1 .. n BY <1>3, <1>8, IdsAre
  <2>3. \A i \in 1 .. Len(h), j \in 1 .. Len(h) : i # j => h[i].calls \cap h[j].calls = {} BY <1>3, <1>4
  <2>4. IdsOf(h, "calls") \subseteq IdsOf(h, "results") \cup {} BY <1>3, <1>4, IdsAre
  <2>5. QED BY <2>1, <2>2, <2>3, <2>4 DEF Sound, Unique
<1>10. /\ at = "idle" /\ repeats \in BOOLEAN /\ receipts = {} /\ delegations = {}
       /\ turns = Cardinality(IdsOf(history, "asks")) /\ issued = Cardinality(IdsOf(history, "calls"))
  BY DEF ContextInit
<1>11. QED BY <1>2, <1>3, <1>6, <1>7, <1>8, <1>9, <1>10 DEF ContextInv, Open, ReceiptsSeen

(* A hook adds a note or nothing. *)
LEMMA NoteIs ==
  ASSUME NEW h \in Seq(Message), NEW note \in Note
  PROVE  h \o note = h \/ h \o note = Append(h, Plain("note"))
<1>1. note = <<>> \/ note = <<Plain("note")>> BY DEF Note
<1>2. h \o <<>> = h OBVIOUS
<1>3. Plain("note") \in Message BY PlainIs DEF Kinds
<1>4. Append(h, Plain("note")) = h \o <<Plain("note")>> BY ONLY <1>3, h \in Seq(Message), AppendIsConcat
<1>5. QED BY <1>1, <1>2, <1>4

(* The conversation goes on: c is h, or more of it. *)
Continues(h, c) == c \in Seq(Message) /\ Len(c) >= Len(h) /\ \A i \in 1 .. Len(h) : c[i] = h[i]

LEMMA GoesOn ==
  ASSUME NEW h \in Seq(Message), NEW m \in Message
  PROVE  Continues(h, Append(h, m))
<1>1. PICK c : c = Append(h, m) OBVIOUS
<1>2. c \in Seq(Message) /\ Len(c) = Len(h) + 1 /\ Len(h) \in Nat /\ \A i \in 1 .. Len(h) : c[i] = h[i]
  BY <1>1, AppendIs
<1>3. QED BY <1>1, <1>2 DEF Continues

LEMMA GoesOnAndOn ==
  ASSUME NEW h \in Seq(Message), NEW c, Continues(h, c), NEW d, Continues(c, d)
  PROVE  Continues(h, d)
<1>1. Len(h) \in Nat /\ Len(c) \in Nat /\ Len(d) \in Nat BY DEF Continues
<1>2. QED BY <1>1 DEF Continues

(* What the history told it goes on telling. *)
LEMMA GoesTelling ==
  ASSUME NEW h \in Seq(Message), NEW c, Continues(h, c), NEW f \in {"asks", "calls", "results", "shows"}
  PROVE  IdsOf(h, f) \subseteq IdsOf(c, f)
<1>1. c \in Seq(Message) /\ Len(c) \in Nat /\ Len(h) \in Nat BY DEF Continues
<1>2. \A i \in 1 .. Len(h) : i \in 1 .. Len(c) /\ c[i] = h[i] BY <1>1 DEF Continues
<1>3. QED BY <1>1, <1>2, IdsAre

LEMMA NoteGoes ==
  ASSUME NEW h \in Seq(Message), NEW note \in Note, NEW n \in Nat, NEW open, Sound(h, n, open)
  PROVE  /\ Continues(h, h \o note) /\ Sound(h \o note, n, open)
         /\ LastAsked(h \o note) = LastAsked(h)
         /\ \A i \in 1 .. Len(h) : (h \o note)[i] = h[i]
<1>1. PICK c : c = h \o note OBVIOUS
<1>2. CASE c = h
  <2>1. Len(h) \in Nat OBVIOUS
  <2>2. QED BY <1>1, <1>2, <2>1 DEF Continues
<1>3. CASE c = Append(h, Plain("note"))
  <2>1. PICK m : m = Plain("note") OBVIOUS
  <2>2. m \in Message /\ m.calls = {} /\ m.results = {} /\ m.kind # "user" BY <2>1, PlainIs DEF Kinds
  <2>3. Sound(Append(h, m), n, open) BY <2>2, QuietSound
  <2>4. Continues(h, Append(h, m)) BY <2>2, GoesOn
  <2>5. c = Append(h, m) BY <1>3, <2>1
  <2>6. PICK k : k = Len(h) + 1 OBVIOUS
  <2>7. /\ Len(c) = k /\ c \in Seq(Message) /\ c[k] = m /\ \A i \in 1 .. Len(h) : c[i] = h[i]
        /\ \A i \in 1 .. k : i \in 1 .. Len(h) \/ i = k
        /\ \A i \in 1 .. Len(h) : i \in 1 .. k
    BY <2>2, <2>5, <2>6, AppendIs
  <2>8. {i \in DOMAIN c : c[i].kind = "user"} = {i \in DOMAIN h : h[i].kind = "user"}
    <3>1. DOMAIN c = 1 .. k /\ DOMAIN h = 1 .. Len(h) BY <2>7
    <3>2. \A i : i \in 1 .. k /\ c[i].kind = "user" <=> i \in 1 .. Len(h) /\ h[i].kind = "user"
      BY <2>2, <2>7
    <3>3. QED BY <3>1, <3>2
  <2>9. LastAsked(c) = LastAsked(h) BY <2>8 DEF LastAsked
  <2>10. QED BY <1>1, <2>3, <2>4, <2>5, <2>7, <2>9
<1>4. QED BY <1>1, <1>2, <1>3, NoteIs

(* A receipt that is of a Read which is told stays so while the history goes on. *)
Backed(r, h) == \A x \in r : \E i \in 1 .. Len(h) : x \in h[i].shows /\ h[i].size # "clipped"

LEMMA BackedGoes ==
  ASSUME NEW h \in Seq(Message), NEW c, Continues(h, c), NEW r, Backed(r, h)
  PROVE  Backed(r, c)
<1>1. c \in Seq(Message) /\ Len(c) \in Nat /\ Len(h) \in Nat BY DEF Continues
<1>2. \A i \in 1 .. Len(h) : i \in 1 .. Len(c) /\ c[i] = h[i] BY <1>1 DEF Continues
<1>3. QED BY <1>2 DEF Backed

LEMMA SeenIsBacked == ASSUME history \in Seq(Message) PROVE ReceiptsSeen <=> Backed(receipts, history)
<1>1. DOMAIN history = 1 .. Len(history) OBVIOUS
<1>2. QED BY <1>1 DEF ReceiptsSeen, Backed

LEMMA ContextKept ==
  ASSUME at' \in {"idle", "preparing", "requesting", "executing"}, repeats' = repeats, repeats \in BOOLEAN,
         history' \in Seq(Message), receipts' \subseteq Numbers, delegations' \subseteq Numbers,
         turns' \in Nat, issued' \in 0 .. MaxIssued, Sound(history', issued', Open'),
         at' = "executing" => issued' \in Numbers /\ IdOf(issued') \in IdsOf(history', "calls"),
         Backed(receipts', history'), delegations' \subseteq IdsOf(history', "shows")
  PROVE  ContextInv'
<1>1. Sound(history, issued, Open)' BY DEF Sound
<1>2. ReceiptsSeen'
  <2>1. DOMAIN history' = 1 .. Len(history') OBVIOUS
  <2>2. QED BY <2>1 DEF ReceiptsSeen, Backed
<1>3. (at = "executing" => issued \in Numbers /\ IdOf(issued) \in IdsOf(history, "calls"))' BY DEF IdOf
<1>4. QED BY <1>1, <1>2, <1>3 DEF ContextInv

(* What compaction leaves, and a note after it. *)
LEMMA CompactionSound ==
  ASSUME NEW h \in Seq(Message), NEW budget, NEW n \in Nat, NEW open, Sound(h, n, open),
         delegations \subseteq Numbers, delegations \subseteq IdsOf(h, "shows")
  PROVE  /\ Compact(h, budget) \in Seq(Message) /\ Sound(Compact(h, budget), n, open)
         /\ delegations \subseteq IdsOf(Compact(h, budget), "shows")
<1>1. PICK c : c = Compact(h, budget) OBVIOUS
<1>2. PICK b : b = TailStart(h) OBVIOUS
<1>3. b \in 0 .. Len(h) BY <1>2, TailStartIs
<1>4. PICK m \in 0 .. b, z \in 0 .. 2 : Compacted(h, b, m, z, c) BY <1>1, <1>2, CompactIs
<1>5. Sound(c, n, open) BY <1>3, <1>4, CompactedSound
<1>6. c \in Seq(Message) BY <1>4 DEF Compacted
<1>7. delegations \subseteq IdsOf(c, "shows")
  <2>1. CASE m = 0 /\ z = 0
    <3>1. /\ Len(c) = Len(h) - m + z
          /\ \A j \in (m + 1) .. Len(h) : c[j - m + z].shows = h[j].shows
      BY <1>4 DEF Compacted
    <3>2. Len(h) \in Nat /\ Len(c) = Len(h) BY <2>1, <3>1
    <3>3. \A j \in 1 .. Len(h) : j \in (m + 1) .. Len(h) /\ j - m + z = j BY <2>1, <3>2
    <3>4. \A j \in 1 .. Len(h) : c[j].shows = h[j].shows BY <3>1, <3>3
    <3>5. QED BY <1>6, <3>2, <3>4, IdsAre
  <2>2. CASE delegations \subseteq IdsOf(c, "shows") BY <2>2
  <2>3. QED BY <1>4, <2>1, <2>2 DEF Compacted
<1>8. QED BY <1>1, <1>5, <1>6, <1>7

LEMMA EmptyIsBacked == ASSUME NEW h PROVE Backed({}, h)
BY DEF Backed

LEMMA ContextStep == ContextInv /\ [ContextNext]_contextVars => ContextInv'
<1> SUFFICES ASSUME ContextInv, [ContextNext]_contextVars PROVE ContextInv' OBVIOUS
<1>1. /\ history \in Seq(Message) /\ repeats \in BOOLEAN
      /\ receipts \subseteq Numbers /\ delegations \subseteq Numbers
      /\ turns \in Nat /\ issued \in 0 .. MaxIssued /\ issued \in Nat
      /\ Sound(history, issued, Open) /\ Backed(receipts, history)
      /\ delegations \subseteq IdsOf(history, "shows")
  <2>1. history \in Seq(Message) /\ ReceiptsSeen BY DEF ContextInv
  <2>2. Backed(receipts, history) BY <2>1, SeenIsBacked
  <2>3. issued \in 0 .. MaxIssued /\ MaxIssued \in Nat BY BoundsAre DEF ContextInv
  <2>4. QED BY <2>1, <2>2, <2>3 DEF ContextInv
<1>2. CASE BeginTurn
  <2>1. at = "idle" /\ at' = "preparing" /\ turns' = turns + 1 /\ UNCHANGED <<child, repeats, receipts, delegations, issued>>
        /\ turns < (IF child THEN 1 ELSE MaxTurns)
    BY <1>2 DEF BeginTurn
  <2>2. PICK m : m = IF child THEN Plain("note") ELSE User(turns + 1) OBVIOUS
  <2>3. PICK note \in Note : history' = Append(history, m) \o note BY <1>2, <2>2 DEF BeginTurn
  <2>4. m \in Message /\ m.calls = {} /\ m.results = {}
    <3>1. CASE child BY <2>2, <3>1, PlainIs DEF Kinds
    <3>2. CASE ~child
      <4>1. turns + 1 \in 1 .. MaxTurns BY <1>1, <2>1, <3>2, BoundsAre
      <4>2. m = [Plain("user") EXCEPT !.asks = {turns + 1}] BY <2>2, <3>2 DEF User
      <4>3. Plain("user") \in Message /\ Plain("user").calls = {} /\ Plain("user").results = {}
        BY PlainIs DEF Kinds
      <4>4. QED BY <4>1, <4>2, <4>3 DEF Message
    <3>3. QED BY <3>1, <3>2
  <2>5. PICK c : c = Append(history, m) OBVIOUS
  <2>6. c \in Seq(Message) BY <1>1, <2>4, <2>5, AppendIs
  <2>7. Continues(history, c) BY <1>1, <2>4, <2>5, GoesOn
  <2>8. Open = {} /\ Open' = {} BY <2>1 DEF Open
  <2>9. Sound(c, issued, {}) BY <1>1, <2>4, <2>5, <2>8, QuietSound
  <2>10. Continues(c, history') /\ Sound(history', issued, {}) BY <1>1, <2>3, <2>5, <2>6, <2>9, NoteGoes
  <2>11. Continues(history, history') BY <1>1, <2>7, <2>10, GoesOnAndOn
  <2>12. Backed(receipts, history') /\ history' \in Seq(Message) BY <1>1, <2>11, BackedGoes DEF Continues
  <2>13. delegations \subseteq IdsOf(history', "shows") BY <1>1, <2>11, GoesTelling
  <2>14. QED BY <1>1, <2>1, <2>8, <2>10, <2>12, <2>13, ContextKept
<1>3. CASE BeginStep
  <2>1. /\ at = "preparing" /\ at' = "requesting"
        /\ UNCHANGED <<child, repeats, delegations, turns, issued>>
    BY <1>3 DEF BeginStep
  <2>2. PICK note \in Note : LET h == history \o note
                             IN  IF Projected(h) > Window THEN RunCompaction(h, Window)
                                 ELSE history' = h /\ UNCHANGED receipts
    BY <1>3 DEF BeginStep
  <2>3. PICK h : h = history \o note OBVIOUS
  <2>4. Open = {} /\ Open' = {} BY <2>1 DEF Open
  <2>5. Continues(history, h) /\ Sound(h, issued, {}) BY <1>1, <2>3, <2>4, NoteGoes
  <2>6. h \in Seq(Message) BY <2>5 DEF Continues
  <2>7. delegations \subseteq IdsOf(h, "shows") BY <1>1, <2>5, GoesTelling
  <2>8. CASE history' = Compact(h, Window) /\ receipts' = {}
    <3>1. history' \in Seq(Message) /\ Sound(history', issued, {}) /\ delegations \subseteq IdsOf(history', "shows")
      BY <1>1, <2>5, <2>6, <2>7, <2>8, CompactionSound
    <3>2. QED BY <1>1, <2>1, <2>4, <2>8, <3>1, EmptyIsBacked, ContextKept
  <2>9. CASE history' = h /\ UNCHANGED receipts
    <3>1. Backed(receipts, h) BY <1>1, <2>5, BackedGoes
    <3>2. QED BY <1>1, <2>1, <2>4, <2>5, <2>6, <2>7, <2>9, <3>1, ContextKept
  <2>10. QED BY <2>2, <2>3, <2>8, <2>9 DEF RunCompaction
<1>4. CASE Answer
  <2>1. at = "requesting" /\ at' \in {"idle", "preparing"}
        /\ UNCHANGED <<child, repeats, receipts, delegations, turns, steps, issued>>
    BY <1>4 DEF Answer
  <2>2. Open = {} /\ Open' = {} BY <2>1 DEF Open
  <2>3. Continues(history, history') /\ Sound(history', issued, {})
    <3>1. CASE history' = Append(history, Assistant({}))
      <4>1. PICK m : m = Assistant({}) OBVIOUS
      <4>2. m \in Message /\ m.calls = {} /\ m.results = {}
        <5>1. Plain("assistant") \in Message /\ Plain("assistant").results = {} BY PlainIs DEF Kinds
        <5>2. QED BY <4>1, <5>1 DEF Assistant, Message
      <4>3. QED BY <1>1, <2>2, <3>1, <4>1, <4>2, QuietSound, GoesOn
    <3>2. CASE \E note \in Note : history' = history \o note BY <1>1, <2>2, <3>2, NoteGoes
    <3>3. QED BY <1>4, <3>1, <3>2 DEF Answer
  <2>4. Backed(receipts, history') /\ history' \in Seq(Message) BY <1>1, <2>3, BackedGoes DEF Continues
  <2>5. delegations \subseteq IdsOf(history', "shows") BY <1>1, <2>3, GoesTelling
  <2>6. QED BY <1>1, <2>1, <2>2, <2>3, <2>4, <2>5, ContextKept
<1>5. CASE Call
  <2>1. /\ at = "requesting" /\ at' = "executing" /\ issued < MaxIssued /\ issued' = issued + 1
        /\ history' = Append(history, Assistant({IdOf(issued + 1)}))
        /\ UNCHANGED <<child, repeats, receipts, delegations, turns>>
    BY <1>5 DEF Call
  <2>2. issued' \in Numbers /\ issued' \in 0 .. MaxIssued /\ issued' \in Nat /\ issued <= issued' /\ 1 \in Numbers
    BY <1>1, <2>1, BoundsAre DEF Numbers
  <2>3. PICK id : id = IdOf(issued + 1) OBVIOUS
  <2>4. id \in Numbers /\ (~repeats => id = issued') BY <2>1, <2>2, <2>3 DEF IdOf
  <2>5. PICK m : m = Assistant({id}) OBVIOUS
  <2>6. m \in Message /\ m.calls = {id} /\ m.results = {}
    <3>1. Plain("assistant") \in Message /\ Plain("assistant").results = {} BY PlainIs DEF Kinds
    <3>2. m = [Plain("assistant") EXCEPT !.calls = {id}] BY <2>5 DEF Assistant
    <3>3. QED BY <2>4, <3>1, <3>2 DEF Message
  <2>7. history' = Append(history, m) BY <2>1, <2>3, <2>5
  <2>8. Open = {} /\ Open' = {issued'} BY <2>1 DEF Open
  <2>9. Sound(history', issued', {issued'})
    <3>1. CASE repeats
      <4>1. Sound(history', issued', {id})
        <5>1. m.results \subseteq IdsOf(history, "calls") /\ m.calls \subseteq {id} /\ {} \subseteq m.results \cup {id}
          BY <2>6
        <5>2. QED BY <1>1, <2>2, <2>6, <2>7, <2>8, <3>1, <5>1, AppendSound
      <4>2. QED BY <3>1, <4>1 DEF Sound
    <3>2. CASE ~repeats
      <4>1. m.results \subseteq IdsOf(history, "calls") /\ m.calls \subseteq {issued'}
            /\ {} \subseteq m.results \cup {issued'}
        BY <2>4, <2>6, <3>2
      <4>2. m.calls \subseteq (issued + 1) .. issued' BY <1>1, <2>1, <2>4, <2>6, <3>2
      <4>3. QED BY <1>1, <2>2, <2>6, <2>7, <2>8, <4>1, <4>2, AppendSound
    <3>3. QED BY <3>1, <3>2
  <2>10. Continues(history, history') BY <1>1, <2>6, <2>7, GoesOn
  <2>11. Backed(receipts, history') /\ history' \in Seq(Message) BY <1>1, <2>10, BackedGoes DEF Continues
  <2>12. delegations \subseteq IdsOf(history', "shows") BY <1>1, <2>10, GoesTelling
  <2>13. IdOf(issued') \in IdsOf(history', "calls")
    <3>1. IdsOf(history', "calls") = IdsOf(history, "calls") \cup m.calls BY <1>1, <2>6, <2>7, AppendIs
    <3>2. QED BY <2>1, <2>3, <2>6, <3>1
  <2>14. QED BY <1>1, <2>1, <2>2, <2>8, <2>9, <2>11, <2>12, <2>13, ContextKept
<1>6. CASE Overflow
  <2>1. /\ at = "requesting" /\ at' = "preparing" /\ UNCHANGED <<child, repeats, delegations, turns, issued>>
        /\ history' = Compact(history, Forced) /\ receipts' = {}
    BY <1>6 DEF Overflow, RunCompaction
  <2>2. Open = {} /\ Open' = {} BY <2>1 DEF Open
  <2>3. history' \in Seq(Message) /\ Sound(history', issued, {}) /\ delegations \subseteq IdsOf(history', "shows")
    BY <1>1, <2>1, <2>2, CompactionSound
  <2>4. QED BY <1>1, <2>1, <2>2, <2>3, EmptyIsBacked, ContextKept
<1>7. CASE Execute
  <2>1. /\ at = "executing" /\ at' = "preparing" /\ UNCHANGED <<child, repeats, turns, issued>>
        /\ issued \in Numbers /\ IdOf(issued) \in IdsOf(history, "calls")
    BY <1>7 DEF Execute, ContextInv
  <2>2. PICK tool \in {"read", "delegate", "other"}, size \in {"plain", "large"}, note \in Note :
          /\ history' = Append(history \o note, [Result({IdOf(issued)}, {issued}) EXCEPT !.size = size])
          /\ receipts' = IF tool = "read" THEN receipts \cup {issued} ELSE receipts
          /\ delegations' = IF tool = "delegate" THEN delegations \cup {issued} ELSE delegations
    BY <1>7 DEF Execute
  <2>3. PICK m : m = [Result({IdOf(issued)}, {issued}) EXCEPT !.size = size] OBVIOUS
  <2>4. PICK h : h = history \o note OBVIOUS
  <2>5. Open = {issued} /\ Open' = {} BY <2>1 DEF Open
  <2>6. 1 \in Numbers BY <1>1, <2>1, BoundsAre DEF Numbers
  <2>7. IdOf(issued) \in Numbers BY <2>1, <2>6 DEF IdOf
  <2>8. /\ m \in Message /\ m.calls = {} /\ m.results = {IdOf(issued)} /\ m.shows = {issued} /\ m.size # "clipped"
    <3>1. Plain("tool") \in Message /\ Plain("tool").calls = {} BY PlainIs DEF Kinds
    <3>2. PICK r : r = [Plain("tool") EXCEPT !.results = {IdOf(issued)}, !.shows = {issued}] OBVIOUS
    <3>3. r \in Message /\ r.calls = {} /\ r.results = {IdOf(issued)} /\ r.shows = {issued}
      BY <2>1, <2>7, <3>1, <3>2 DEF Message
    <3>4. m = [r EXCEPT !.size = size] BY <2>3, <3>2 DEF Result
    <3>5. QED BY <3>3, <3>4 DEF Message, Sizes
  <2>9. Continues(history, h) /\ Sound(h, issued, {issued}) BY <1>1, <2>4, <2>5, NoteGoes
  <2>10. h \in Seq(Message) /\ history' = Append(h, m) BY <2>2, <2>3, <2>4, <2>9 DEF Continues
  <2>11. Sound(history', issued, {})
    <3>1. IdOf(issued) \in IdsOf(h, "calls") BY <1>1, <2>1, <2>9, GoesTelling
    <3>2. m.results \subseteq IdsOf(h, "calls") /\ m.calls \subseteq {} /\ issued <= issued
          /\ m.calls \subseteq (issued + 1) .. issued
      BY <1>1, <2>8, <3>1
    <3>3. CASE ~repeats
      <4>1. {issued} \subseteq m.results \cup {} BY <2>8, <3>3 DEF IdOf
      <4>2. QED BY <1>1, <2>8, <2>9, <2>10, <3>2, <4>1, AppendSound
    <3>4. CASE repeats
      <4>1. {issued} \subseteq m.results \cup {issued} /\ m.calls \subseteq {issued} BY <2>8
      <4>2. Sound(history', issued, {issued}) BY <1>1, <2>8, <2>9, <2>10, <3>2, <4>1, AppendSound
      <4>3. QED BY <3>4, <4>2 DEF Sound
    <3>5. QED BY <3>3, <3>4
  <2>12. Continues(h, history') BY <2>8, <2>10, GoesOn
  <2>13. Continues(history, history') BY <1>1, <2>9, <2>12, GoesOnAndOn
  <2>14. Backed(receipts, history') /\ history' \in Seq(Message) BY <1>1, <2>13, BackedGoes DEF Continues
  <2>15. PICK k : k = Len(h) + 1 OBVIOUS
  <2>16. k \in 1 .. Len(history') /\ history'[k] = m /\ IdsOf(history', "shows") = IdsOf(h, "shows") \cup m.shows
    BY <2>8, <2>10, <2>15, AppendIs
  <2>17. Backed(receipts', history')
    <3>1. receipts' \subseteq receipts \cup {issued} BY <2>2
    <3>2. ASSUME NEW x \in receipts' PROVE \E i \in 1 .. Len(history') : x \in history'[i].shows /\ history'[i].size # "clipped"
      <4>1. CASE x \in receipts BY <2>14, <4>1 DEF Backed
      <4>2. CASE x = issued BY <2>8, <2>16, <4>2
      <4>3. QED BY <3>1, <4>1, <4>2
    <3>3. QED BY <3>2 DEF Backed
  <2>18. delegations' \subseteq IdsOf(history', "shows")
    <3>1. delegations \subseteq IdsOf(history', "shows") BY <1>1, <2>13, GoesTelling
    <3>2. issued \in IdsOf(history', "shows") BY <2>8, <2>16
    <3>3. QED BY <2>2, <3>1, <3>2
  <2>19. receipts' \subseteq Numbers /\ delegations' \subseteq Numbers BY <1>1, <2>1, <2>2
  <2>20. QED BY <1>1, <2>1, <2>5, <2>11, <2>14, <2>17, <2>18, <2>19, ContextKept
<1>8. CASE EndTurn
  <2>1. at' = "idle" /\ UNCHANGED <<child, repeats, receipts, delegations, turns, steps, issued, notes>>
    BY <1>8 DEF EndTurn
  <2>2. PICK open : open = IdsOf(history, "calls") \ IdsOf(history, "results") OBVIOUS
  <2>3. history' = IF open = {} THEN history ELSE Append(history, Result(open, {})) BY <1>8, <2>2 DEF EndTurn
  <2>4. Open' = {} BY <2>1 DEF Open
  <2>5. open \subseteq Numbers
    <3>1. IdsOf(history, "calls") \subseteq Numbers BY <1>1, IdsAre, MessagesAre
    <3>2. QED BY <2>2, <3>1
  <2>6. CASE open = {}
    <3>1. Sound(history, issued, {}) BY <1>1, <2>2, <2>6 DEF Sound
    <3>2. history' = history BY <2>3, <2>6
    <3>3. QED BY <1>1, <2>1, <2>4, <3>1, <3>2, ContextKept
  <2>7. CASE open # {}
    <3>1. PICK m : m = Result(open, {}) OBVIOUS
    <3>2. m \in Message /\ m.calls = {} /\ m.results = open
      <4>1. Plain("tool") \in Message /\ Plain("tool").calls = {} BY PlainIs DEF Kinds
      <4>2. m = [Plain("tool") EXCEPT !.results = open, !.shows = {}] BY <3>1 DEF Result
      <4>3. QED BY <2>5, <4>1, <4>2 DEF Message
    <3>3. history' = Append(history, m) BY <2>3, <2>7, <3>1
    <3>4. Sound(history, issued, open)
      <4>1. InOrder(history) /\ (~repeats => Unique(history, issued)) BY <1>1 DEF Sound
      <4>2. IdsOf(history, "calls") \subseteq IdsOf(history, "results") \cup open BY <2>2
      <4>3. QED BY <4>1, <4>2 DEF Sound
    <3>5. m.results \subseteq IdsOf(history, "calls") /\ m.calls \subseteq {} /\ open \subseteq m.results \cup {}
          /\ issued <= issued /\ m.calls \subseteq (issued + 1) .. issued
      BY <1>1, <2>2, <3>2
    <3>6. Sound(history', issued, {}) BY <1>1, <3>2, <3>3, <3>4, <3>5, AppendSound
    <3>7. Continues(history, history') BY <1>1, <3>2, <3>3, GoesOn
    <3>8. Backed(receipts, history') /\ history' \in Seq(Message) BY <1>1, <3>7, BackedGoes DEF Continues
    <3>9. delegations \subseteq IdsOf(history', "shows") BY <1>1, <3>7, GoesTelling
    <3>10. QED BY <1>1, <2>1, <2>4, <3>6, <3>8, <3>9, ContextKept
  <2>8. QED BY <2>6, <2>7
<1>9. CASE CompactNow
  <2>1. at = "idle" /\ receipts' = {} /\ UNCHANGED <<at, child, repeats, delegations, turns, steps, issued>>
    BY <1>9 DEF CompactNow
  <2>2. PICK note \in Note : history' = Compact(history, Forced) \o note BY <1>9 DEF CompactNow
  <2>3. PICK c : c = Compact(history, Forced) OBVIOUS
  <2>4. Open = {} /\ Open' = {} BY <2>1 DEF Open
  <2>5. c \in Seq(Message) /\ Sound(c, issued, {}) /\ delegations \subseteq IdsOf(c, "shows")
    BY <1>1, <2>3, <2>4, CompactionSound
  <2>6. Continues(c, history') /\ Sound(history', issued, {}) BY <1>1, <2>2, <2>3, <2>5, NoteGoes
  <2>7. history' \in Seq(Message) /\ IdsOf(c, "shows") \subseteq IdsOf(history', "shows") BY <2>5, <2>6, GoesTelling DEF Continues
  <2>8. QED BY <1>1, <2>1, <2>4, <2>5, <2>6, <2>7, EmptyIsBacked, ContextKept
<1>10. CASE UNCHANGED contextVars
  <2>1. Open' = Open BY <1>10 DEF contextVars, Open
  <2>2. UNCHANGED <<at, child, repeats, history, receipts, delegations, turns, steps, issued, notes>>
    BY <1>10 DEF contextVars
  <2>3. at' \in {"idle", "preparing", "requesting", "executing"} BY <2>2 DEF ContextInv
  <2>4. at' = "executing" => issued' \in Numbers /\ IdOf(issued') \in IdsOf(history', "calls") BY <2>2 DEF ContextInv
  <2>5. QED BY <1>1, <2>1, <2>2, <2>3, <2>4, ContextKept
<1>11. QED BY <1>2, <1>3, <1>4, <1>5, <1>6, <1>7, <1>8, <1>9, <1>10 DEF ContextNext

(* What the step does not part stays whole: the invariant says so. *)
LEMMA ConversationIsSound == ContextInv => ConversationSound
<1> SUFFICES ASSUME ContextInv PROVE ConversationSound OBVIOUS
<1>1. history \in Seq(Message) /\ DOMAIN history = 1 .. Len(history) BY DEF ContextInv
<1>2. InOrder(history) BY DEF ContextInv, Sound
<1>3. ASSUME NEW i \in 1 .. Len(history), at # "executing", ~repeats
      PROVE  history[i].calls \subseteq IdsOf(history, "results")
  <2>1. Open = {} BY <1>3 DEF Open
  <2>2. IdsOf(history, "calls") \subseteq IdsOf(history, "results") BY <1>3, <2>1 DEF ContextInv, Sound
  <2>3. history[i].calls \subseteq IdsOf(history, "calls") BY <1>1, IdsAre
  <2>4. QED BY <2>2, <2>3
<1>4. ExchangesWhole BY <1>1, <1>2, <1>3 DEF ExchangesWhole, InOrder
<1>5. QED BY <1>4 DEF ConversationSound, ContextInv

(* A conversation that was whole stays so: from every resumed conversation whose calls are *)
(* each answered once, later in it (ResumedAssumption), a compaction parts no call from its *)
(* result and leaves no receipt of what it took away, whatever the window, the lengths and  *)
(* the moment it comes (compact, runCompaction, closeOpenToolCalls). A conversation rebuilt *)
(* from a log need not start whole (ResumedOrder.cfg, TornLog.cfg), and is then no instance.  *)
THEOREM AConversationStaysWhole == ContextSpec => []ConversationSound
<1>1. ContextInit => ContextInv BY ContextStarts
<1>2. ContextInv /\ [ContextNext]_contextVars => ContextInv' BY ContextStep
<1>3. ContextInv => ConversationSound BY ConversationIsSound
<1>4. QED BY <1>1, <1>2, <1>3, PTL DEF ContextSpec

-----------------------------------------------------------------------------
(* Context: what a compaction keeps.                                           *)

LEMMA ContinuesIsPrefix ==
  ASSUME NEW h \in Seq(Message), NEW c, Continues(h, c)
  PROVE  IsPrefix(h, c)
<1>1. c \in Seq(Message) /\ Len(c) \in Nat /\ Len(h) \in Nat /\ Len(h) <= Len(c) BY DEF Continues
<1>2. \A i \in 1 .. Len(h) : c[i] = h[i] BY DEF Continues
<1>3. PICK x : x = SubSeq(h, 1, Len(h)) OBVIOUS
<1>4. PICK y : y = SubSeq(c, 1, Len(h)) OBVIOUS
<1>5. x \in Seq(Message) /\ Len(x) = Len(h) /\ \A i \in 1 .. Len(h) : x[i] = h[i] BY <1>1, <1>3
<1>6. y \in Seq(Message) /\ Len(y) = Len(h) /\ \A i \in 1 .. Len(h) : y[i] = c[i] BY <1>1, <1>4
<1>7. \A i \in 1 .. Len(x) : x[i] = y[i] BY <1>2, <1>5, <1>6
<1>8. x = y BY ONLY <1>5, <1>6, <1>7, SeqEqual
<1>9. QED BY <1>1, <1>3, <1>4, <1>8 DEF IsPrefix

(* Where the last requests begin is in the tail that compaction does not touch, of the *)
(* history and of one with a note more.                                              *)
LEMMA RecentIs ==
  ASSUME NEW g \in Seq(Message), NEW h \in Seq(Message), LastAsked(h) = LastAsked(g), Len(g) <= Len(h)
  PROVE  \E r \in (TailStart(h) + 1) .. (Len(g) + 1) : Recent(g) = SubSeq(g, r, Len(g))
<1>1. LastAsked(g) \subseteq 1 .. Len(g) /\ Len(g) \in Nat /\ Len(h) \in Nat BY DEF LastAsked
<1>2. PICK T : T = LastAsked(g) \cup {Len(g) + 1} OBVIOUS
<1>3. PICK r : r = Min(T) OBVIOUS
<1>4. T \subseteq Nat /\ T # {} BY <1>1, <1>2
<1>5. r \in T /\ \A y \in T : r <= y BY ONLY <1>3, <1>4, MinOf
<1>6. TailStart(h) \in 0 .. Len(h) /\ \A i \in LastAsked(g) : TailStart(h) < i BY TailStartIs
<1>7. TailStart(h) < r /\ r \in Nat /\ r <= Len(g) + 1
  <2>1. r \in Nat /\ r <= Len(g) + 1 BY <1>2, <1>4, <1>5
  <2>2. CASE LastAsked(g) = {}
    <3>1. TailStart(h) = 0 BY <2>2 DEF TailStart
    <3>2. r = Len(g) + 1 BY <1>2, <1>5, <2>2
    <3>3. QED BY <1>1, <2>1, <3>1, <3>2
  <2>3. CASE LastAsked(g) # {}
    <3>1. PICK i : i \in LastAsked(g) BY <2>3
    <3>2. i \in T /\ i \in 1 .. Len(g) BY <1>1, <1>2, <3>1
    <3>3. r # Len(g) + 1 BY <1>1, <1>5, <2>1, <3>2
    <3>4. r \in LastAsked(g) BY <1>2, <1>5, <3>3
    <3>5. QED BY <1>6, <2>1, <3>4
  <2>4. QED BY <2>2, <2>3
<1>8. r \in (TailStart(h) + 1) .. (Len(g) + 1) BY <1>1, <1>6, <1>7
<1>9. Recent(g) = SubSeq(g, r, Len(g)) BY <1>2, <1>3, Zenon DEF Recent
<1>10. QED BY <1>8, <1>9

(* g is compacted with a note after it, or before it, or none. *)
LEMMA CompactedKeeps ==
  ASSUME NEW g \in Seq(Message), NEW h \in Seq(Message), Continues(g, h), LastAsked(h) = LastAsked(g),
         delegations \subseteq Numbers, NEW budget, NEW d, Continues(Compact(h, budget), d)
  PROVE  \E i \in 0 .. Len(d) : IsPrefix(Recent(g), SubSeq(d, i + 1, Len(d)))
<1>1. PICK b : b = TailStart(h) OBVIOUS
<1>2. PICK c : c = Compact(h, budget) OBVIOUS
<1>3. b \in 0 .. Len(h) /\ b \in Nat /\ Len(h) \in Nat /\ Len(g) \in Nat /\ Len(g) <= Len(h)
  BY <1>1, TailStartIs DEF Continues
<1>4. PICK m \in 0 .. b, z \in 0 .. 2 : Compacted(h, b, m, z, c) BY <1>1, <1>2, CompactIs
<1>5. PICK r \in (b + 1) .. (Len(g) + 1) : Recent(g) = SubSeq(g, r, Len(g)) BY <1>1, <1>3, RecentIs
<1>6. /\ c \in Seq(Message) /\ Len(c) = Len(h) - m + z
      /\ \A j \in (b + 1) .. Len(h) : c[j - m + z] = h[j]
  BY <1>4 DEF Compacted
<1>7. /\ d \in Seq(Message) /\ Len(d) \in Nat /\ Len(d) >= Len(c) /\ Len(c) \in Nat
      /\ \A i \in 1 .. Len(c) : d[i] = c[i]
  BY <1>2, <1>6 DEF Continues
<1>8. m \in Nat /\ m <= b /\ z \in Nat /\ r \in Nat /\ r >= b + 1 /\ r <= Len(g) + 1 BY <1>3, <1>4, <1>5
<1>9. PICK i : i = r - m + z - 1 OBVIOUS
<1>10. i \in 0 .. Len(d) /\ i \in Nat /\ i <= Len(d) BY <1>3, <1>6, <1>7, <1>8, <1>9
<1>11. PICK s : s = SubSeq(g, r, Len(g)) OBVIOUS
<1>12. PICK t : t = SubSeq(d, i + 1, Len(d)) OBVIOUS
<1>13. PICK n : n = Len(g) - r + 1 OBVIOUS
<1>14. n \in Nat BY <1>3, <1>8, <1>13
<1>15. s \in Seq(Message) /\ Len(s) = n /\ \A k \in 1 .. n : s[k] = g[r + k - 1]
  BY <1>3, <1>8, <1>11, <1>13
<1>16. t \in Seq(Message) /\ Len(t) = Len(d) - i /\ \A k \in 1 .. Len(d) - i : t[k] = d[i + 1 + k - 1]
  BY <1>7, <1>10, <1>12
<1>17. n <= Len(d) - i BY <1>3, <1>6, <1>7, <1>8, <1>9, <1>13
<1>18. ASSUME NEW k \in 1 .. n PROVE t[k] = s[k]
  <2>1. PICK j : j = r + k - 1 OBVIOUS
  <2>2. j \in (b + 1) .. Len(h) /\ j \in 1 .. Len(g) BY <1>3, <1>8, <1>13, <2>1
  <2>3. PICK l : l = j - m + z OBVIOUS
  <2>4. l \in 1 .. Len(c) /\ i + 1 + k - 1 = l BY <1>3, <1>6, <1>8, <1>9, <2>1, <2>2, <2>3
  <2>5. k \in 1 .. Len(d) - i BY <1>7, <1>10, <1>14, <1>17
  <2>6. t[k] = d[l] BY <1>16, <2>4, <2>5
  <2>7. d[l] = c[l] BY <1>7, <2>4
  <2>8. c[l] = h[j] BY <1>6, <2>2, <2>3
  <2>9. h[j] = g[j] BY <2>2 DEF Continues
  <2>10. s[k] = g[j] BY <1>15, <2>1
  <2>11. QED BY <2>6, <2>7, <2>8, <2>9, <2>10
<1>19. Continues(s, t)
  <2>1. Len(t) >= Len(s) BY <1>7, <1>10, <1>14, <1>15, <1>16, <1>17
  <2>2. QED BY <1>15, <1>16, <1>18, <2>1 DEF Continues
<1>20. IsPrefix(s, t) BY <1>15, <1>19, ContinuesIsPrefix
<1>21. QED BY <1>5, <1>10, <1>11, <1>12, <1>20

LEMMA GoesItself == ASSUME NEW h \in Seq(Message) PROVE Continues(h, h)
<1>1. Len(h) \in Nat OBVIOUS
<1>2. QED BY <1>1 DEF Continues

(* What a step does to the history: more of it, or a compaction. *)
LEMMA HistoryStep ==
  ASSUME ContextInv, [ContextNext]_contextVars
  PROVE  \/ Continues(history, history')
         \/ /\ \E i \in 0 .. Len(history') :
                  IsPrefix(Recent(history), SubSeq(history', i + 1, Len(history')))
            /\ delegations \subseteq IdsOf(history', "shows")
<1>1. /\ history \in Seq(Message) /\ delegations \subseteq Numbers /\ issued \in Nat
      /\ turns \in Nat /\ Sound(history, issued, Open) /\ delegations \subseteq IdsOf(history, "shows")
      /\ issued \in 0 .. MaxIssued /\ MaxIssued \in Nat
  BY BoundsAre DEF ContextInv
<1>2. Continues(history, history) BY <1>1, GoesItself
<1>3. \A note \in Note : Continues(history, history \o note) /\ LastAsked(history \o note) = LastAsked(history)
  BY <1>1, NoteGoes
<1>4. ASSUME NEW m \in Message, history' = Append(history, m) PROVE Continues(history, history') BY <1>1, <1>4, GoesOn
<1>5. ASSUME NEW h \in Seq(Message), Continues(history, h), LastAsked(h) = LastAsked(history), NEW budget,
             Continues(Compact(h, budget), history')
      PROVE  \E i \in 0 .. Len(history') : IsPrefix(Recent(history), SubSeq(history', i + 1, Len(history')))
  BY <1>1, <1>5, CompactedKeeps
<1>6. CASE BeginTurn
  <2>1. PICK m : m = IF child THEN Plain("note") ELSE User(turns + 1) OBVIOUS
  <2>2. turns < (IF child THEN 1 ELSE MaxTurns) BY <1>6 DEF BeginTurn
  <2>3. PICK note \in Note : history' = Append(history, m) \o note BY <1>6, <2>1 DEF BeginTurn
  <2>4. m \in Message
    <3>1. CASE child BY <2>1, <3>1, PlainIs DEF Kinds
    <3>2. CASE ~child
      <4>1. turns + 1 \in 1 .. MaxTurns BY <1>1, <2>2, <3>2, BoundsAre
      <4>2. m = [Plain("user") EXCEPT !.asks = {turns + 1}] BY <2>1, <3>2 DEF User
      <4>3. Plain("user") \in Message BY PlainIs DEF Kinds
      <4>4. QED BY <4>1, <4>2, <4>3 DEF Message
    <3>3. QED BY <3>1, <3>2
  <2>5. PICK c : c = Append(history, m) OBVIOUS
  <2>6. Continues(history, c) /\ c \in Seq(Message) BY <1>1, <2>4, <2>5, GoesOn, AppendIs
  <2>7. history' = c \/ history' = Append(c, Plain("note")) BY <2>3, <2>5, <2>6, NoteIs
  <2>8. Plain("note") \in Message BY PlainIs DEF Kinds
  <2>9. Continues(c, history') BY <2>6, <2>7, <2>8, GoesOn, GoesItself
  <2>10. QED BY <1>1, <2>6, <2>9, GoesOnAndOn
<1>7. CASE BeginStep
  <2>1. PICK note \in Note : LET h == history \o note
                             IN  IF Projected(h) > Window THEN RunCompaction(h, Window)
                                 ELSE history' = h /\ UNCHANGED receipts
    BY <1>7 DEF BeginStep
  <2>2. PICK h : h = history \o note OBVIOUS
  <2>3. Continues(history, h) /\ LastAsked(h) = LastAsked(history) BY <1>3, <2>2
  <2>4. h \in Seq(Message) BY <2>3 DEF Continues
  <2>5. CASE history' = Compact(h, Window)
    <3>1. delegations \subseteq IdsOf(h, "shows") BY <1>1, <2>3, GoesTelling
    <3>2. Sound(h, issued, Open) BY <1>1, <2>2, NoteGoes
    <3>3. Compact(h, Window) \in Seq(Message) /\ delegations \subseteq IdsOf(history', "shows")
      BY <1>1, <2>4, <2>5, <3>1, <3>2, CompactionSound
    <3>4. Continues(Compact(h, Window), history') BY <2>5, <3>3, GoesItself
    <3>5. QED BY <1>5, <2>3, <2>4, <3>3, <3>4
  <2>6. CASE history' = h BY <2>3, <2>6
  <2>7. QED BY <2>1, <2>2, <2>5, <2>6 DEF RunCompaction
<1>8. CASE Answer
  <2>1. CASE history' = Append(history, Assistant({}))
    <3>1. Plain("assistant") \in Message BY PlainIs DEF Kinds
    <3>2. Assistant({}) \in Message BY <3>1 DEF Assistant, Message
    <3>3. QED BY <1>4, <2>1, <3>2
  <2>2. CASE \E note \in Note : history' = history \o note BY <1>3, <2>2
  <2>3. QED BY <1>8, <2>1, <2>2 DEF Answer
<1>9. CASE Call
  <2>1. issued < MaxIssued /\ history' = Append(history, Assistant({IdOf(issued + 1)})) BY <1>9 DEF Call
  <2>2. issued + 1 \in Numbers /\ 1 \in Numbers BY <1>1, <2>1 DEF Numbers
  <2>3. PICK id : id = IdOf(issued + 1) OBVIOUS
  <2>4. id \in Numbers BY <2>2, <2>3 DEF IdOf
  <2>5. PICK m : m = [Plain("assistant") EXCEPT !.calls = {id}] OBVIOUS
  <2>6. Plain("assistant") \in Message BY PlainIs DEF Kinds
  <2>7. m \in Message BY <2>4, <2>5, <2>6 DEF Message
  <2>8. history' = Append(history, m) BY <2>1, <2>3, <2>5 DEF Assistant
  <2>9. QED BY <1>4, <2>7, <2>8
<1>10. CASE Overflow
  <2>1. history' = Compact(history, Forced) BY <1>10 DEF Overflow, RunCompaction
  <2>2. Compact(history, Forced) \in Seq(Message) /\ delegations \subseteq IdsOf(history', "shows")
    BY <1>1, <2>1, CompactionSound
  <2>3. Continues(Compact(history, Forced), history') BY <2>1, <2>2, GoesItself
  <2>4. QED BY <1>1, <1>2, <1>5, <2>2, <2>3
<1>11. CASE Execute
  <2>1. issued \in Numbers BY <1>11 DEF Execute, ContextInv
  <2>2. PICK size \in {"plain", "large"}, note \in Note :
          history' = Append(history \o note, [Result({IdOf(issued)}, {issued}) EXCEPT !.size = size])
    BY <1>11 DEF Execute
  <2>3. PICK m : m = [Result({IdOf(issued)}, {issued}) EXCEPT !.size = size] OBVIOUS
  <2>4. PICK h : h = history \o note OBVIOUS
  <2>5. 1 \in Numbers BY <1>1, <2>1 DEF Numbers
  <2>6. IdOf(issued) \in Numbers BY <2>1, <2>5 DEF IdOf
  <2>7. m \in Message
    <3>1. Plain("tool") \in Message BY PlainIs DEF Kinds
    <3>2. PICK r : r = [Plain("tool") EXCEPT !.results = {IdOf(issued)}, !.shows = {issued}] OBVIOUS
    <3>3. r \in Message BY <2>1, <2>6, <3>1, <3>2 DEF Message
    <3>4. m = [r EXCEPT !.size = size] BY <2>3, <3>2 DEF Result
    <3>5. QED BY <3>3, <3>4 DEF Message, Sizes
  <2>8. Continues(history, h) BY <1>3, <2>4
  <2>9. h \in Seq(Message) /\ history' = Append(h, m) BY <2>2, <2>3, <2>4, <2>8 DEF Continues
  <2>10. Continues(h, history') BY <2>7, <2>9, GoesOn
  <2>11. QED BY <1>1, <2>8, <2>10, GoesOnAndOn
<1>12. CASE EndTurn
  <2>1. PICK open : open = IdsOf(history, "calls") \ IdsOf(history, "results") OBVIOUS
  <2>2. history' = IF open = {} THEN history ELSE Append(history, Result(open, {})) BY <1>12, <2>1 DEF EndTurn
  <2>3. open \subseteq Numbers
    <3>1. IdsOf(history, "calls") \subseteq Numbers BY <1>1, IdsAre, MessagesAre
    <3>2. QED BY <2>1, <3>1
  <2>4. PICK m : m = [Plain("tool") EXCEPT !.results = open, !.shows = {}] OBVIOUS
  <2>5. Plain("tool") \in Message BY PlainIs DEF Kinds
  <2>6. m \in Message BY <2>3, <2>4, <2>5 DEF Message
  <2>7. history' = history \/ history' = Append(history, m) BY <2>2, <2>4 DEF Result
  <2>8. QED BY <1>2, <1>4, <2>6, <2>7
<1>13. CASE CompactNow
  <2>1. PICK note \in Note : history' = Compact(history, Forced) \o note BY <1>13 DEF CompactNow
  <2>2. PICK c : c = Compact(history, Forced) OBVIOUS
  <2>3. c \in Seq(Message) /\ Sound(c, issued, Open) /\ delegations \subseteq IdsOf(c, "shows")
    BY <1>1, <2>2, CompactionSound
  <2>4. Continues(c, history') BY <1>1, <2>1, <2>2, <2>3, NoteGoes
  <2>5. delegations \subseteq IdsOf(history', "shows") BY <2>3, <2>4, GoesTelling
  <2>6. QED BY <1>1, <1>2, <1>5, <2>2, <2>4, <2>5
<1>14. CASE UNCHANGED contextVars
  <2>1. history' = history BY <1>14 DEF contextVars
  <2>2. QED BY <1>2, <2>1
<1>15. QED BY <1>6, <1>7, <1>8, <1>9, <1>10, <1>11, <1>12, <1>13, <1>14 DEF ContextNext

(* A compaction keeps the last PreserveExchanges requests of the user, and all that  *)
(* came after them, word for word, and tells every delegation, however long the tail *)
(* is and wherever snapToClosure moves its start; every other step only adds.        *)
THEOREM CompactionKeepsTheTail == ContextSpec => CompactionKeeps
<1>1. ContextInit => ContextInv BY ContextStarts
<1>2. ContextInv /\ [ContextNext]_contextVars => ContextInv' BY ContextStep
<1>3. ContextInv /\ [ContextNext]_contextVars =>
        [\/ IsPrefix(history, history')
         \/ /\ \E i \in 0 .. Len(history') :
                  IsPrefix(Recent(history), SubSeq(history', i + 1, Len(history')))
            /\ delegations \subseteq IdsOf(history', "shows")]_contextVars
  <2> SUFFICES ASSUME ContextInv, [ContextNext]_contextVars
               PROVE  \/ IsPrefix(history, history')
                      \/ /\ \E i \in 0 .. Len(history') :
                               IsPrefix(Recent(history), SubSeq(history', i + 1, Len(history')))
                         /\ delegations \subseteq IdsOf(history', "shows")
    OBVIOUS
  <2>1. history \in Seq(Message) BY DEF ContextInv
  <2>2. QED BY <2>1, HistoryStep, ContinuesIsPrefix
<1>4. QED BY <1>1, <1>2, <1>3, PTL DEF ContextSpec, CompactionKeeps

-----------------------------------------------------------------------------
(* ShellChanges: what a look saw and what a snapshot says of it.               *)

(* A walk noted every file it came by that is there and not ignored. *)
Scanned(o, e) ==
  /\ \A f \in DOMAIN e : f \in DOMAIN o /\ e[f] = o[f].stamp /\ o[f].text # Blanked /\ f \notin Ignored \cup Skipped
  /\ \A f \in DOMAIN o : f \notin DOMAIN e => o[f].text = Blanked \/ f \in Ignored \cup Skipped

(* Git noted every file that differs. *)
Statused(o, e) ==
  /\ DOMAIN o = Sheets
  /\ DOMAIN e = {g \in Sheets : CodeOf(g, o[g]) # <<" ", " ">>}
  /\ \A f \in DOMAIN e : e[f] = CodeOf(f, o[f])

Describes(s, o) ==
  /\ s.strategy \in {"git", "scan", "unavailable"}
  /\ s.strategy = "scan" => Scanned(o, s.entries)
  /\ s.strategy = "git" => Statused(o, s.entries)

(* The walk has come by files of the folders before the n-th only. *)
Passed(o, n) == \A f \in DOMAIN o : \E i \in DOMAIN Folders : i < n /\ f \in ToSet(Folders[i])

ShellInv ==
  /\ shell \in {"idle", "git", "walk", "command", "git2", "walk2", "reported"}
  /\ look.folder \in Nat \ {0} /\ look.files \in Nat
  /\ shell = "git" => was = <<>>
  /\ shell = "walk" => Scanned(was, look.entries) /\ Passed(was, look.folder)
  /\ shell \in {"git", "walk", "command", "git2"} => is = <<>>
  /\ shell \in {"command", "git2"} => look = NoLook
  /\ shell \in {"command", "git2", "walk2"} => Describes(before, was)
  /\ shell = "walk2" => Scanned(is, look.entries) /\ Passed(is, look.folder)
  /\ ChangesTold

LEMMA NothingSeen == Scanned(<<>>, <<>>) /\ \A n : Passed(<<>>, n)
BY DEF Scanned, Passed

LEMMA NoLookIs == NoLook.entries = <<>> /\ NoLook.folder = 1 /\ NoLook.files = 0
BY DEF NoLook

LEMMA StatusIs == Statused([f \in Sheets |-> Seen(f)], Status)
<1>1. PICK o : o = [f \in Sheets |-> Seen(f)] OBVIOUS
<1>2. DOMAIN o = Sheets /\ \A f \in Sheets : o[f] = Seen(f) BY <1>1
<1>3. Status = [f \in {g \in Sheets : CodeOf(g, Seen(g)) # <<" ", " ">>} |-> CodeOf(f, Seen(f))] BY DEF Status
<1>4. PICK e : e = Status OBVIOUS
<1>5. DOMAIN e = {g \in Sheets : CodeOf(g, Seen(g)) # <<" ", " ">>}
      /\ \A f \in DOMAIN e : e[f] = CodeOf(f, Seen(f)) BY <1>3, <1>4
<1>6. {g \in Sheets : CodeOf(g, Seen(g)) # <<" ", " ">>} = {g \in Sheets : CodeOf(g, o[g]) # <<" ", " ">>} BY <1>2
<1>7. \A f \in DOMAIN e : e[f] = CodeOf(f, o[f]) BY <1>2, <1>5
<1>8. Statused(o, e) BY <1>2, <1>5, <1>6, <1>7 DEF Statused
<1>9. QED BY <1>1, <1>4, <1>8

(* What a walk adds to what it has seen, and to its entries. *)
LEMMA FolderScanned ==
  ASSUME NEW o, NEW e, NEW taken, NEW came, Scanned(o, e), taken \subseteq came,
         \A f \in taken : Shows(f), \A f \in came \ taken : ~Shows(f), DOMAIN o \cap came = {},
         NEW p, p = With(o, [f \in came |-> Seen(f)]), NEW d, d = With(e, [f \in taken |-> sheets[f].stamp])
  PROVE  Scanned(p, d)
<1>1. PICK x : x = [f \in came |-> Seen(f)] OBVIOUS
<1>2. PICK y : y = [f \in taken |-> sheets[f].stamp] OBVIOUS
<1>3. /\ DOMAIN p = DOMAIN o \cup came /\ \A f \in DOMAIN o : p[f] = o[f]
      /\ \A f \in came : p[f] = Seen(f)
  <2>1. DOMAIN x = came /\ \A f \in came : x[f] = Seen(f) BY <1>1
  <2>2. p = With(o, x) BY <1>1
  <2>3. DOMAIN p = DOMAIN o \cup DOMAIN x /\ (\A f \in DOMAIN o : p[f] = o[f])
        /\ \A f \in DOMAIN x : f \notin DOMAIN o => p[f] = x[f]
    BY <2>2 DEF With
  <2>4. \A f \in came : f \notin DOMAIN o BY SMT
  <2>5. QED BY <2>1, <2>3, <2>4
<1>4. /\ DOMAIN d = DOMAIN e \cup taken /\ \A f \in DOMAIN e : d[f] = e[f]
      /\ \A f \in taken : f \notin DOMAIN e => d[f] = sheets[f].stamp
  <2>1. DOMAIN y = taken /\ \A f \in taken : y[f] = sheets[f].stamp BY <1>2
  <2>2. d = With(e, y) BY <1>2
  <2>3. DOMAIN d = DOMAIN e \cup DOMAIN y /\ (\A f \in DOMAIN e : d[f] = e[f])
        /\ \A f \in DOMAIN y : f \notin DOMAIN e => d[f] = y[f]
    BY <2>2 DEF With
  <2>4. QED BY <2>1, <2>3
<1>5. \A f \in DOMAIN e : f \in DOMAIN o /\ e[f] = o[f].stamp /\ o[f].text # Blanked /\ f \notin Ignored \cup Skipped
  BY DEF Scanned
<1>6. \A f \in DOMAIN o : f \notin DOMAIN e => o[f].text = Blanked \/ f \in Ignored \cup Skipped BY DEF Scanned
<1>7. \A f : Seen(f).text = sheets[f].text /\ Seen(f).stamp = sheets[f].stamp BY DEF Seen
<1>8. \A f : Shows(f) <=> sheets[f].text # Blanked /\ f \notin Ignored \cup Skipped BY DEF Shows
<1>9. ASSUME NEW f \in DOMAIN d
      PROVE  f \in DOMAIN p /\ d[f] = p[f].stamp /\ p[f].text # Blanked /\ f \notin Ignored \cup Skipped
  <2>1. CASE f \in DOMAIN e BY <1>3, <1>4, <1>5, <2>1
  <2>2. CASE f \in taken
    <3>1. f \notin DOMAIN e BY <1>5, <2>2
    <3>2. QED BY <1>3, <1>4, <1>7, <1>8, <2>2, <3>1
  <2>3. QED BY <1>4, <2>1, <2>2
<1>10. ASSUME NEW f \in DOMAIN p, f \notin DOMAIN d PROVE p[f].text = Blanked \/ f \in Ignored \cup Skipped
  <2>1. CASE f \in DOMAIN o BY <1>3, <1>4, <1>6, <1>10, <2>1
  <2>2. CASE f \in came BY <1>3, <1>4, <1>7, <1>8, <1>10, <2>2
  <2>3. QED BY <1>3, <2>1, <2>2
<1>11. QED BY <1>9, <1>10 DEF Scanned

(* The walk of one folder, whichever look it is of. *)
LEMMA FolderWalked ==
  ASSUME NEW o, Scanned(o, look.entries), look.folder \in DOMAIN Folders, look.files \in Nat, Passed(o, look.folder),
         NEW x, x = [f \in CameBy |-> Seen(f)], NEW y, y = [f \in Taken |-> sheets[f].stamp]
  PROVE  /\ Scanned(With(o, x), With(look.entries, y))
         /\ Passed(With(o, x), look.folder + 1)
         /\ Cardinality(Yielded) \in Nat
<1>1. PICK folder : folder = Folder OBVIOUS
<1>2. PICK shown : shown = {i \in DOMAIN folder : Shows(folder[i])} OBVIOUS
<1>3. PICK room : room = MaxScanFiles - look.files OBVIOUS
<1>4. PICK yielded : yielded = {i \in shown : Cardinality({j \in shown : j < i}) < room} OBVIOUS
<1>5. PICK taken : taken = {folder[i] : i \in yielded} OBVIOUS
<1>6. PICK came : came = IF Cardinality(shown) >= room THEN taken ELSE ToSet(folder) OBVIOUS
<1>7. Taken = taken /\ CameBy = came /\ Yielded = yielded
  <2>1. Shown = shown /\ Room = room BY <1>1, <1>2, <1>3 DEF Shown, Room
  <2>2. Yielded = yielded BY <1>4, <2>1 DEF Yielded
  <2>3. Taken = taken BY <1>1, <1>5, <2>2 DEF Taken
  <2>4. CameBy = came BY <1>1, <1>6, <2>1, <2>3 DEF CameBy, Full
  <2>5. QED BY <2>2, <2>3, <2>4
<1>8. /\ folder = Folders[look.folder] /\ folder \in Seq(Sheets) /\ Folders \in Seq(Seq(Sheets)) /\ DOMAIN Folders \subseteq Nat
       /\ DOMAIN folder = 1 .. Len(folder) /\ Len(folder) \in Nat /\ MaxScanFiles \in Nat
  BY <1>1, SheetsAssumption DEF Folder
<1>9. \A i \in 1 .. Len(folder) : folder[i] \in Sheets BY <1>8
<1>10. ToSet(folder) = {folder[i] : i \in 1 .. Len(folder)} BY <1>8 DEF ToSet
<1>11. shown \subseteq 1 .. Len(folder) /\ IsFiniteSet(shown) /\ Cardinality(shown) \in Nat
  <2>1. shown \subseteq 1 .. Len(folder) BY <1>2, <1>8
  <2>2. IsFiniteSet(1 .. Len(folder))
    <3>1. PICK n \in Nat : n = Len(folder) BY <1>8
    <3>2. IsFiniteSet(1 .. n) BY FirstOf
    <3>3. QED BY <3>1, <3>2
  <2>3. IsFiniteSet(shown) BY <2>1, <2>2, FS_Subset
  <2>4. QED BY <2>1, <2>3, FS_CardinalityType
<1>12. taken \subseteq ToSet(folder) /\ \A f \in taken : Shows(f) BY <1>2, <1>4, <1>5, <1>10, <1>11
<1>13. Cardinality(yielded) \in Nat
  <2>1. yielded \subseteq shown BY <1>4
  <2>2. IsFiniteSet(yielded) BY <1>11, <2>1, FS_Subset
  <2>3. QED BY <2>2, FS_CardinalityType
<1>14. taken \subseteq came /\ came \subseteq ToSet(folder) BY <1>6, <1>12
<1>15. \A f \in came \ taken : ~Shows(f)
  <2>1. CASE Cardinality(shown) >= room BY <1>6, <2>1
  <2>2. CASE ~(Cardinality(shown) >= room)
    <3>1. room \in Int /\ Cardinality(shown) < room
      <4>1. room \in Int BY <1>3, <1>8
      <4>2. QED BY <1>11, <2>2, <4>1
    <3>2. ASSUME NEW j \in shown PROVE Cardinality({k \in shown : k < j}) < room
      <4>1. PICK S : S = {k \in shown : k < j} OBVIOUS
      <4>2. S \subseteq shown BY <4>1
      <4>3. IsFiniteSet(S) /\ Cardinality(S) <= Cardinality(shown) BY <1>11, <4>2, FS_Subset
      <4>4. Cardinality(S) \in Nat BY <4>3, FS_CardinalityType
      <4>5. QED BY <1>11, <3>1, <4>1, <4>3, <4>4
    <3>3. \A i \in shown : folder[i] \in taken
      <4>1. \A i \in shown : i \in yielded BY <1>4, <3>2
      <4>2. QED BY <1>5, <4>1
    <3>4. ASSUME NEW f \in came, Shows(f) PROVE f \in taken
      <4>1. PICK i \in 1 .. Len(folder) : f = folder[i] BY <1>10, <1>14
      <4>2. i \in shown BY <1>2, <1>8, <3>4, <4>1
      <4>3. QED BY <3>3, <4>1, <4>2
    <3>5. QED BY <3>4
  <2>3. QED BY <2>1, <2>2
(* Each file is in one folder: the walk has not come by any of these. *)
<1>16. DOMAIN o \cap came = {}
  <2>1. SUFFICES ASSUME NEW f \in DOMAIN o, f \in came PROVE FALSE OBVIOUS
  <2>2. PICK i \in DOMAIN Folders : i < look.folder /\ f \in ToSet(Folders[i]) BY <2>1 DEF Passed
  <2>3. i # look.folder /\ f \in ToSet(Folders[look.folder]) BY <1>8, <1>14, <2>1, <2>2
  <2>4. ToSet(Folders[i]) \cap ToSet(Folders[look.folder]) = {} BY <2>3, SheetsAssumption
  <2>5. QED BY <2>2, <2>3, <2>4
<1>17. came \subseteq Sheets BY <1>8, <1>9, <1>10, <1>14
<1>18. x = [f \in came |-> Seen(f)] BY <1>7
<1>20. PICK p : p = With(o, x) OBVIOUS
<1>21. /\ DOMAIN p = DOMAIN o \cup DOMAIN x /\ DOMAIN x = came
       /\ \A f \in DOMAIN o : p[f] = o[f]
       /\ \A f \in came : p[f] = x[f]
  <2>1. DOMAIN x = came BY <1>18
  <2>2. DOMAIN p = DOMAIN o \cup DOMAIN x /\ (\A f \in DOMAIN o : p[f] = o[f])
        /\ \A f \in DOMAIN x : f \notin DOMAIN o => p[f] = x[f]
    BY <1>20 DEF With
  <2>3. QED BY <1>16, <2>1, <2>2
<1>25. Passed(p, look.folder + 1)
  <2>1. ASSUME NEW f \in DOMAIN p PROVE \E i \in DOMAIN Folders : i < look.folder + 1 /\ f \in ToSet(Folders[i])
    <3>1. CASE f \in DOMAIN o
      <4>1. PICK i \in DOMAIN Folders : i < look.folder /\ f \in ToSet(Folders[i]) BY <3>1 DEF Passed
      <4>2. i \in Nat /\ look.folder \in Nat BY <1>8
      <4>3. i < look.folder + 1 BY <4>1, <4>2
      <4>4. QED BY <4>1, <4>3
    <3>2. CASE f \in came
      <4>1. look.folder \in Nat BY <1>8
      <4>2. look.folder < look.folder + 1 BY <4>1
      <4>3. f \in ToSet(Folders[look.folder]) BY <1>8, <1>14, <3>2
      <4>4. QED BY <4>2, <4>3
    <3>3. QED BY <1>21, <2>1, <3>1, <3>2
  <2>2. QED BY <2>1 DEF Passed
<1>26. Scanned(p, With(look.entries, y))
  <2>1. y = [f \in taken |-> sheets[f].stamp] BY <1>7
  <2>2. QED BY <2>1, <1>12, <1>14, <1>15, <1>16, <1>18, <1>20, FolderScanned
<1>27. QED BY <1>7, <1>13, <1>20, <1>25, <1>26

(* The difference of two snapshots says of the files both looks came by what it should. *)
LEMMA ReportSound ==
  ASSUME NEW b, NEW a, NEW o, NEW p, Describes(b, o), Describes(a, p), NEW cs, cs = Diff(b, a),
         NEW f \in DOMAIN o \cap DOMAIN p
  PROVE  /\ f \notin Ignored \cup Skipped /\ Marked(o[f], p[f]) /\ b.strategy = "scan" /\ a.strategy = "scan"
              => \E c \in cs : c.path = f
         /\ b.strategy = "git" /\ a.strategy = "git" /\ f \notin Ignored /\ Clean(o[f])
              /\ p[f].text \notin {o[f].text, p[f].committed} => \E c \in cs : c.path = f
         /\ (\E c \in cs : c.path = f) => o[f] # p[f]
<1>0. PICK told : told = (\E c \in cs : c.path = f) OBVIOUS
<1>1. PICK old : old = DOMAIN b.entries OBVIOUS
<1>2. PICK new : new = DOMAIN a.entries OBVIOUS
<1>3. Diff(b, a) = IF "unavailable" \in {b.strategy, a.strategy} \/ b.strategy # a.strategy THEN {}
                   ELSE Change("added", new \ old) \cup Change("deleted", old \ new)
                        \cup Change("modified", {g \in old \cap new : b.entries[g] # a.entries[g]})
  BY <1>1, <1>2, Zenon DEF Diff
<1>4. ASSUME NEW kind, NEW S PROVE (\E c \in Change(kind, S) : c.path = f) <=> f \in S
  <2>1. ASSUME f \in S PROVE \E c \in Change(kind, S) : c.path = f
    <3>1. PICK c : c = [path |-> f, kind |-> kind] OBVIOUS
    <3>2. c \in Change(kind, S) /\ c.path = f BY <2>1, <3>1 DEF Change
    <3>3. QED BY <3>2
  <2>2. ASSUME NEW c \in Change(kind, S), c.path = f PROVE f \in S
    <3>1. PICK g \in S : c = [path |-> g, kind |-> kind] BY <2>2 DEF Change
    <3>2. QED BY <2>2, <3>1
  <2>3. QED BY <2>1, <2>2
<1>5. CASE "unavailable" \in {b.strategy, a.strategy} \/ b.strategy # a.strategy
  <2>1. cs = {} BY <1>3, <1>5
  <2>2. ~(\E c \in cs : c.path = f) BY <2>1
  <2>3. ~(b.strategy = "scan" /\ a.strategy = "scan") /\ ~(b.strategy = "git" /\ a.strategy = "git") BY <1>5
  <2>4. QED BY <2>2, <2>3
<1>6. CASE ~("unavailable" \in {b.strategy, a.strategy} \/ b.strategy # a.strategy)
  <2>1. b.strategy = a.strategy BY <1>6
  <2>2. cs = Change("added", new \ old) \cup Change("deleted", old \ new)
             \cup Change("modified", {g \in old \cap new : b.entries[g] # a.entries[g]})
    BY <1>3, <1>6
  <2>3. told <=> \/ f \in new \ old \/ f \in old \ new
                 \/ f \in {g \in old \cap new : b.entries[g] # a.entries[g]}
    <3>1. told <=> \/ \E c \in Change("added", new \ old) : c.path = f
                   \/ \E c \in Change("deleted", old \ new) : c.path = f
                   \/ \E c \in Change("modified", {g \in old \cap new : b.entries[g] # a.entries[g]}) : c.path = f
      BY <1>0, <2>2, Zenon
    <3>2. QED BY <1>4, <3>1, Zenon
  <2>4. CASE b.strategy = "scan"
    <3>1. Scanned(o, b.entries) /\ Scanned(p, a.entries) BY <2>1, <2>4 DEF Describes
    <3>2. /\ f \in old => b.entries[f] = o[f].stamp /\ o[f].text # Blanked /\ f \notin Ignored \cup Skipped
          /\ f \notin old => o[f].text = Blanked \/ f \in Ignored \cup Skipped
      BY <1>1, <3>1 DEF Scanned
    <3>3. /\ f \in new => a.entries[f] = p[f].stamp /\ p[f].text # Blanked /\ f \notin Ignored \cup Skipped
          /\ f \notin new => p[f].text = Blanked \/ f \in Ignored \cup Skipped
      BY <1>2, <3>1 DEF Scanned
    <3>5. ASSUME told PROVE o[f] # p[f]
      <4>1. CASE f \in new \ old BY <3>2, <3>3, <4>1
      <4>2. CASE f \in old \ new BY <3>2, <3>3, <4>2
      <4>3. CASE f \in {g \in old \cap new : b.entries[g] # a.entries[g]} BY <3>2, <3>3, <4>3
      <4>4. QED BY <2>3, <3>5, <4>1, <4>2, <4>3
    <3>6. ASSUME f \notin Ignored \cup Skipped, Marked(o[f], p[f]) PROVE told
      <4>1. CASE f \in old /\ f \in new
        <5>1. b.entries[f] # a.entries[f] BY <3>2, <3>3, <3>6, <4>1 DEF Marked
        <5>2. QED BY <2>3, <4>1, <5>1
      <4>2. CASE f \notin old /\ f \notin new BY <3>2, <3>3, <3>6, <4>2 DEF Marked
      <4>3. QED BY <2>3, <4>1, <4>2
    <3>7. QED
      <4>1. b.strategy # "git" BY <2>4
      <4>2. QED BY <1>0, <3>5, <3>6, <4>1, Zenon
  <2>5. CASE b.strategy = "git"
    <3>1. Statused(o, b.entries) /\ Statused(p, a.entries) BY <2>1, <2>5 DEF Describes
    <3>2. /\ f \in Sheets
          /\ f \in old <=> CodeOf(f, o[f]) # <<" ", " ">>
          /\ f \in old => b.entries[f] = CodeOf(f, o[f])
      BY <1>1, <3>1 DEF Statused
    <3>3. /\ f \in new <=> CodeOf(f, p[f]) # <<" ", " ">>
          /\ f \in new => a.entries[f] = CodeOf(f, p[f])
      BY <1>2, <3>1, <3>2 DEF Statused
    <3>4. ASSUME told PROVE o[f] # p[f]
      <4>1. CASE f \in new \ old BY <3>2, <3>3, <4>1
      <4>2. CASE f \in old \ new BY <3>2, <3>3, <4>2
      <4>3. CASE f \in {g \in old \cap new : b.entries[g] # a.entries[g]} BY <3>2, <3>3, <4>3
      <4>4. QED BY <2>3, <3>4, <4>1, <4>2, <4>3
    <3>5. ASSUME f \notin Ignored, Clean(o[f]), p[f].text \notin {o[f].text, p[f].committed} PROVE told
      <4>1. o[f].text = o[f].indexed /\ o[f].indexed = o[f].committed BY <3>5 DEF Clean
      <4>2. CodeOf(f, o[f]) = <<" ", " ">>
        <5>1. CASE o[f].indexed = Blanked BY <4>1, <5>1 DEF CodeOf
        <5>2. CASE o[f].indexed # Blanked BY <4>1, <5>2 DEF CodeOf
        <5>3. QED BY <5>1, <5>2
      <4>3. p[f].text # p[f].committed BY <3>5
      <4>4. <<" ", " ">>[1] = " " /\ <<" ", " ">>[2] = " " OBVIOUS
      <4>5. CodeOf(f, p[f]) # <<" ", " ">>
        <5>1. CASE p[f].indexed = Blanked
          <6>1. CASE p[f].text # Blanked
            <7>1. CodeOf(f, p[f])[1] = "?" BY <3>5, <5>1, <6>1 DEF CodeOf
            <7>2. QED BY <4>4, <7>1
          <6>2. CASE p[f].text = Blanked
            <7>1. CodeOf(f, p[f])[1] = "D" BY <4>3, <5>1, <6>2 DEF CodeOf
            <7>2. QED BY <4>4, <7>1
          <6>3. QED BY <6>1, <6>2
        <5>2. CASE p[f].indexed # Blanked
          <6>1. CASE p[f].committed = Blanked
            <7>1. CodeOf(f, p[f])[1] = "A" BY <5>2, <6>1 DEF CodeOf
            <7>2. QED BY <4>4, <7>1
          <6>2. CASE p[f].committed # Blanked /\ p[f].indexed # p[f].committed
            <7>1. CodeOf(f, p[f])[1] = "M" BY <5>2, <6>2 DEF CodeOf
            <7>2. QED BY <4>4, <7>1
          <6>3. CASE p[f].indexed = p[f].committed
            <7>1. CodeOf(f, p[f])[2] \in {"D", "M"} BY <4>3, <5>2, <6>3 DEF CodeOf
            <7>2. QED BY <4>4, <7>1
          <6>4. QED BY <6>1, <6>2, <6>3
        <5>3. QED BY <5>1, <5>2
      <4>6. f \in new \ old BY <3>2, <3>3, <4>2, <4>5
      <4>7. QED BY <2>3, <4>6
    <3>6. QED
      <4>1. b.strategy # "scan" BY <2>5
      <4>2. QED BY <1>0, <3>4, <3>5, <4>1, Zenon
  <2>6. b.strategy \in {"scan", "git"} BY <1>6 DEF Describes
  <2>7. QED BY <2>4, <2>5, <2>6
<1>7. QED BY <1>5, <1>6

LEMMA ReportKept ==
  ASSUME NEW after, Reported(after), Describes(before, was), NEW p, is' = p, Describes(after, p),
         was' = was, before' = before, means' = after.strategy
  PROVE  ChangesTold'
<1>1. PICK cs : cs = Diff(before, after) OBVIOUS
<1>2. altered' = cs /\ fact' = IF Undeclared(cs) = {} THEN fact ELSE {c.path : c \in Undeclared(cs)}
  BY <1>1, Zenon DEF Reported
<1>3. PICK b : b = before OBVIOUS
<1>4. PICK o : o = was OBVIOUS
<1>5. ASSUME NEW f \in DOMAIN o \cap DOMAIN p
      PROVE  /\ f \notin Ignored \cup Skipped /\ Marked(o[f], p[f]) /\ b.strategy = "scan" /\ after.strategy = "scan"
                  => \E c \in cs : c.path = f
             /\ b.strategy = "git" /\ after.strategy = "git" /\ f \notin Ignored /\ Clean(o[f])
                  /\ p[f].text \notin {o[f].text, p[f].committed} => \E c \in cs : c.path = f
             /\ (\E c \in cs : c.path = f) => o[f] # p[f]
  <2>1. Describes(b, o) /\ cs = Diff(b, after) BY <1>1, <1>3, <1>4, Zenon
  <2>2. QED BY <1>5, <2>1, ReportSound
<1>6. {c.path : c \in Undeclared(cs)} \in {{}, fact'}
  <2>1. CASE Undeclared(cs) = {} BY <2>1
  <2>2. CASE Undeclared(cs) # {} BY <1>2, <2>2
  <2>3. QED BY <2>1, <2>2
<1>7. Undeclared(altered') = Undeclared(cs) BY <1>2
<1>8. (ChangesTold)' <=>
        (shell' = "reported" =>
           /\ \A f \in DOMAIN o \cap DOMAIN p :
                /\ f \notin Ignored \cup Skipped /\ Marked(o[f], p[f]) /\ b.strategy = "scan" /\ after.strategy = "scan"
                     => \E c \in cs : c.path = f
                /\ b.strategy = "git" /\ after.strategy = "git" /\ f \notin Ignored /\ Clean(o[f])
                     /\ p[f].text \notin {o[f].text, p[f].committed} => \E c \in cs : c.path = f
                /\ (\E c \in cs : c.path = f) => o[f] # p[f]
           /\ {c.path : c \in Undeclared(cs)} \in {{}, fact'})
  BY <1>2, <1>3, <1>4, <1>7 DEF ChangesTold, Both, Told, Clean, Undeclared
<1>9. QED BY <1>5, <1>6, <1>8

LEMMA ShellStarts == ShellInit => ShellInv
<1> SUFFICES ASSUME ShellInit PROVE ShellInv OBVIOUS
<1>1. shell = "idle" /\ was = <<>> /\ is = <<>> /\ look = NoLook BY DEF ShellInit
<1>2. ChangesTold BY <1>1 DEF ChangesTold
<1>3. QED BY <1>1, <1>2, NoLookIs DEF ShellInv

LEMMA ShellStep == ShellInv /\ [ShellNext]_shellVars => ShellInv'
<1> SUFFICES ASSUME ShellInv, [ShellNext]_shellVars PROVE ShellInv' OBVIOUS
<1>1. /\ shell \in {"idle", "git", "walk", "command", "git2", "walk2", "reported"}
      /\ look.folder \in Nat \ {0} /\ look.files \in Nat
      /\ shell = "git" => was = <<>>
      /\ shell = "walk" => Scanned(was, look.entries) /\ Passed(was, look.folder)
      /\ shell \in {"git", "walk", "command", "git2"} => is = <<>>
      /\ shell \in {"command", "git2"} => look = NoLook
      /\ shell \in {"command", "git2", "walk2"} => Describes(before, was)
      /\ shell = "walk2" => Scanned(is, look.entries) /\ Passed(is, look.folder)
      /\ ChangesTold
  BY DEF ShellInv
(* A step that looks at nothing and reports nothing. *)
<1>2. ASSUME UNCHANGED <<look, before, was, is, means, altered, fact>>,
             \/ shell' = shell
             \/ shell = "command" /\ shell' \in {"git2", "walk2", "idle"}
      PROVE  ShellInv'
  <2>1. CASE shell' = shell
    <3>1. ChangesTold' BY <1>1, <1>2, <2>1 DEF ChangesTold, Both, Told, Clean, Undeclared
    <3>2. QED BY <1>1, <1>2, <2>1, <3>1 DEF ShellInv
  <2>2. CASE shell = "command" /\ shell' \in {"git2", "walk2", "idle"}
    <3>1. ChangesTold' BY <2>2 DEF ChangesTold
    <3>2. is = <<>> /\ look = NoLook /\ Describes(before, was) BY <1>1, <2>2
    <3>3. Scanned(is, look.entries) /\ Passed(is, look.folder) BY <3>2, NothingSeen, NoLookIs
    <3>4. QED BY <1>1, <1>2, <2>2, <3>1, <3>2, <3>3 DEF ShellInv
  <2>3. QED BY <1>2, <2>1, <2>2
(* A look is over. *)
<1>3. ASSUME NEW snapshot, NEW o, Snapped(snapshot, o), Describes(snapshot, o),
             shell \in {"git", "walk", "git2", "walk2"}
      PROVE  ShellInv'
  <2>1. CASE shell \in {"git", "walk"}
    <3>1. /\ shell' = "command" /\ before' = snapshot /\ was' = o /\ look' = NoLook /\ is' = is
      BY <1>3, <2>1 DEF Snapped
    <3>2. is = <<>> BY <1>1, <2>1
    <3>3. ChangesTold' BY <3>1 DEF ChangesTold
    <3>4. Describes(before', was') BY <1>3, <3>1
    <3>5. QED BY <1>1, <1>3, <3>1, <3>2, <3>3, <3>4, NoLookIs DEF ShellInv
  <2>2. CASE shell \in {"git2", "walk2"}
    <3>1. /\ Reported(snapshot) /\ is' = o /\ means' = snapshot.strategy /\ before' = before /\ was' = was
          /\ look' = look
      BY <1>3, <2>2 DEF Snapped
    <3>2. shell' = "reported" BY <3>1 DEF Reported
    <3>3. Describes(before, was) BY <1>1, <2>2
    <3>4. ChangesTold' BY <1>3, <3>1, <3>3, ReportKept
    <3>5. QED BY <1>1, <1>3, <3>1, <3>2, <3>3, <3>4 DEF ShellInv
  <2>3. QED BY <1>3, <2>1, <2>2
<1>4. CASE CallShell
  <2>1. shell' \in {"git", "walk"} /\ look' = NoLook /\ was' = <<>> /\ is' = <<>> BY <1>4 DEF CallShell
  <2>2. ChangesTold' BY <2>1 DEF ChangesTold
  <2>3. Scanned(was', look'.entries) /\ Passed(was', look'.folder) BY <2>1, NothingSeen, NoLookIs
  <2>4. QED BY <1>1, <2>1, <2>2, <2>3, NoLookIs DEF ShellInv
<1>5. CASE GitLooks
  <2>1. shell \in {"git", "git2"} BY <1>5 DEF GitLooks
  <2>2. CASE Snapped([strategy |-> "git", entries |-> Status], [f \in Sheets |-> Seen(f)])
    <3>1. PICK o : o = [f \in Sheets |-> Seen(f)] OBVIOUS
    <3>2. PICK snapshot : snapshot = [strategy |-> "git", entries |-> Status] OBVIOUS
    <3>3. Statused(o, Status) BY <3>1, StatusIs
    <3>4. snapshot.strategy = "git" /\ snapshot.entries = Status BY <3>2
    <3>5. Describes(snapshot, o) BY <3>3, <3>4 DEF Describes
    <3>6. Snapped(snapshot, o) BY <2>2, <3>1, <3>2, Zenon
    <3>7. QED BY <1>3, <2>1, <3>5, <3>6
  <2>3. CASE /\ shell' = (IF shell = "git" THEN "walk" ELSE "walk2")
             /\ look' = NoLook /\ UNCHANGED <<before, was, is, means, reports>>
    <3>1. ChangesTold' BY <2>3 DEF ChangesTold
    <3>2. Scanned(<<>>, look'.entries) /\ Passed(<<>>, look'.folder) BY <2>3, NothingSeen, NoLookIs
    <3>3. is = <<>> /\ (shell = "git" => was = <<>>) /\ (shell = "git2" => Describes(before, was)) BY <1>1, <2>1
    <3>4. QED BY <1>1, <2>1, <2>3, <3>1, <3>2, <3>3, NoLookIs DEF ShellInv
  <2>4. QED BY <1>5, <2>2, <2>3 DEF GitLooks
<1>6. CASE WalkFolder
  <2>1. shell \in {"walk", "walk2"} /\ shell' = shell /\ UNCHANGED <<before, means>>
        /\ look.folder <= Len(Folders)
    BY <1>6 DEF WalkFolder
  <2>2. PICK x : x = [f \in CameBy |-> Seen(f)] OBVIOUS
  <2>3. PICK y : y = [f \in Taken |-> sheets[f].stamp] OBVIOUS
  <2>4. look' = [entries |-> With(look.entries, y),
                 folder |-> look.folder + 1, files |-> look.files + Cardinality(Yielded), cut |-> Full]
    BY <1>6, <2>3, Zenon DEF WalkFolder
  <2>5. IF shell = "walk" THEN was' = With(was, x) /\ UNCHANGED is ELSE is' = With(is, x) /\ UNCHANGED was
    BY <1>6, <2>2, Zenon DEF WalkFolder
  <2>6. ChangesTold' BY <2>1 DEF ChangesTold
  <2>7. look.folder \in DOMAIN Folders
    <3>1. DOMAIN Folders = 1 .. Len(Folders) /\ Len(Folders) \in Nat BY SheetsAssumption
    <3>2. QED BY <1>1, <2>1, <3>1
  <2>8. ASSUME NEW o, Scanned(o, look.entries), Passed(o, look.folder)
         PROVE  /\ Scanned(With(o, x), look'.entries)
                /\ Passed(With(o, x), look'.folder) /\ look'.folder \in Nat \ {0} /\ look'.files \in Nat
    <3>1. /\ Scanned(With(o, x), With(look.entries, y))
          /\ Passed(With(o, x), look.folder + 1) /\ Cardinality(Yielded) \in Nat
      BY <1>1, <2>2, <2>3, <2>7, <2>8, FolderWalked
    <3>2. /\ look'.entries = With(look.entries, y)
          /\ look'.folder = look.folder + 1 /\ look'.files = look.files + Cardinality(Yielded)
      BY <2>4
    <3>3. look'.folder \in Nat \ {0} /\ look'.files \in Nat BY <1>1, <3>1, <3>2
    <3>4. QED BY <3>1, <3>2, <3>3
  <2>9. CASE shell = "walk"
    <3>1. was' = With(was, x) /\ is' = is BY <2>5, <2>9
    <3>2. is = <<>> BY <1>1, <2>9
    <3>3. /\ Scanned(was', look'.entries)
          /\ Passed(was', look'.folder) /\ look'.folder \in Nat \ {0} /\ look'.files \in Nat
      BY <1>1, <2>8, <2>9, <3>1, <3>2
    <3>4. QED BY <1>1, <2>1, <2>6, <2>9, <3>1, <3>2, <3>3 DEF ShellInv
  <2>10. CASE shell = "walk2"
    <3>1. is' = With(is, x) /\ was' = was BY <2>5, <2>10
    <3>2. /\ Scanned(is', look'.entries)
          /\ Passed(is', look'.folder) /\ look'.folder \in Nat \ {0} /\ look'.files \in Nat
      BY <1>1, <2>8, <2>10, <3>1
    <3>3. QED BY <1>1, <2>1, <2>6, <2>10, <3>1, <3>2 DEF ShellInv
  <2>11. QED BY <2>1, <2>9, <2>10
<1>7. CASE WalkEnds
  <2>1. shell \in {"walk", "walk2"} BY <1>7 DEF WalkEnds
  <2>2. PICK o : o = IF shell = "walk" THEN was ELSE is OBVIOUS
  <2>3. PICK snapshot : snapshot = [strategy |-> "scan", entries |-> look.entries] OBVIOUS
  <2>4. Snapped(snapshot, o) BY <1>7, <2>2, <2>3, Zenon DEF WalkEnds
  <2>5. Scanned(o, look.entries) BY <1>1, <2>1, <2>2
  <2>6. snapshot.strategy = "scan" /\ snapshot.entries = look.entries BY <2>3
  <2>7. Describes(snapshot, o) BY <2>5, <2>6 DEF Describes
  <2>8. QED BY <1>3, <2>1, <2>4, <2>7
<1>8. CASE WalkFails
  <2>1. shell \in {"walk", "walk2"} BY <1>8 DEF WalkFails
  <2>2. PICK o : o = <<>> OBVIOUS
  <2>3. PICK snapshot : snapshot = [strategy |-> "unavailable", entries |-> look.entries] OBVIOUS
  <2>4. Snapped(snapshot, o) BY <1>8, <2>2, <2>3, Zenon DEF WalkFails
  <2>5. snapshot.strategy = "unavailable" BY <2>3
  <2>6. Describes(snapshot, o) BY <2>5 DEF Describes
  <2>7. QED BY <1>3, <2>1, <2>4, <2>6
<1>9. CASE Writes BY <1>2, <1>9 DEF Writes, looking, reports
<1>10. CASE UsesGit BY <1>2, <1>10 DEF UsesGit, looking, reports
<1>11. CASE CommandEnds
  <2>1. shell = "command" /\ shell' \in {"git2", "walk2", "idle"} BY <1>11 DEF CommandEnds
  <2>2. QED BY <1>2, <1>11, <2>1 DEF CommandEnds, looking, reports, repository
<1>12. CASE Aborts BY <1>2, <1>12 DEF Aborts, looking, reports, repository
<1>13. CASE UNCHANGED shellVars BY <1>2, <1>13 DEF shellVars, looking, reports, repository
<1>14. QED BY <1>4, <1>5, <1>6, <1>7, <1>8, <1>9, <1>10, <1>11, <1>12, <1>13 DEF ShellNext

(* Whatever a command, git and others write, and whenever: of a file that both looks of the
   detector came by, by the same means, and that is not ignored, a change is told. For a walk
   it is one of size or time, or of a file that came or went; for git, one of a file that was
   clean before, and not committed since. What is told of a file both looks came by has
   changed, and the sources among what is told are in the fact (MutationDetector.snapshot
   and diff, Kernel.onUndeclaredMutation). Changes of other files may go untold: NeverSilent
   is refuted. *)
THEOREM ShellChangesAreTold == ShellSpec => []ChangesTold
<1>1. ShellInit => ShellInv BY ShellStarts
<1>2. ShellInv /\ [ShellNext]_shellVars => ShellInv' BY ShellStep
<1>3. ShellInv => ChangesTold BY DEF ShellInv
<1>4. QED BY <1>1, <1>2, <1>3, PTL DEF ShellSpec

-----------------------------------------------------------------------------
(* Sandbox: paths.                                                             *)

Path == Seq(STRING)

LEMMA WithinIs ==
  ASSUME NEW q \in Path, NEW p \in Path
  PROVE  Within(q, p) <=> Len(q) <= Len(p) /\ \A i \in 1 .. Len(q) : q[i] = p[i]
<1>1. Len(q) \in Nat /\ Len(p) \in Nat BY DEF Path
<1>2. SubSeq(q, 1, Len(q)) = [i \in 1 .. Len(q) |-> q[i]] BY <1>1 DEF Path
<1>3. ASSUME Len(q) <= Len(p) PROVE SubSeq(p, 1, Len(q)) = [i \in 1 .. Len(q) |-> p[i]] BY <1>1, <1>3 DEF Path
<1>4. ASSUME Len(q) <= Len(p) PROVE SubSeq(q, 1, Len(q)) = SubSeq(p, 1, Len(q)) <=> \A i \in 1 .. Len(q) : q[i] = p[i]
  BY <1>2, <1>3, <1>4
<1>5. QED BY <1>4 DEF Within, IsPrefix

LEMMA WithinItself ==
  ASSUME NEW p \in Path
  PROVE  Within(p, p)
BY WithinIs DEF Path

LEMMA SameLength ==
  ASSUME NEW q \in Path, NEW p \in Path, Within(q, p), Len(p) <= Len(q)
  PROVE  q = p
<1>1. Len(q) = Len(p) /\ \A i \in 1 .. Len(q) : q[i] = p[i] BY WithinIs DEF Path
<1>2. q = [i \in 1 .. Len(q) |-> q[i]] /\ p = [i \in 1 .. Len(p) |-> p[i]] BY DEF Path
<1>3. QED BY <1>1, <1>2

LEMMA WithinBoth ==
  ASSUME NEW a \in Path, NEW b \in Path, NEW c \in Path
  PROVE  /\ Within(a, b) /\ Within(b, c) => Within(a, c)
         /\ Within(a, c) /\ Within(b, c) /\ Len(a) <= Len(b) => Within(a, b)
<1>1. Len(a) \in Nat /\ Len(b) \in Nat /\ Len(c) \in Nat BY DEF Path
<1>2. ASSUME Within(a, b), Within(b, c) PROVE Within(a, c)
  <2>1. /\ Len(a) <= Len(b) /\ \A i \in 1 .. Len(a) : a[i] = b[i]
        /\ Len(b) <= Len(c) /\ \A i \in 1 .. Len(b) : b[i] = c[i]
    BY <1>2, WithinIs
  <2>2. Len(a) <= Len(c) /\ \A i \in 1 .. Len(a) : i \in 1 .. Len(b) /\ a[i] = c[i] BY <1>1, <2>1
  <2>3. QED BY <2>2, WithinIs
<1>3. ASSUME Within(a, c), Within(b, c), Len(a) <= Len(b) PROVE Within(a, b)
  <2>1. /\ \A i \in 1 .. Len(a) : a[i] = c[i]
        /\ \A i \in 1 .. Len(b) : b[i] = c[i]
    BY <1>3, WithinIs
  <2>2. \A i \in 1 .. Len(a) : i \in 1 .. Len(b) /\ a[i] = b[i] BY <1>1, <1>3, <2>1
  <2>3. QED BY <1>3, <2>2, WithinIs
<1>4. QED BY <1>2, <1>3

(* The workspace and its .git are a step apart. *)
LEMMA GitIs == /\ Workspace \in Path /\ Git \in Path /\ Len(Git) = Len(Workspace) + 1
<1>1. Workspace \in Path /\ Git \in Path BY SandboxAssumption DEF Path
<1>2. QED BY <1>1, SandboxAssumption

(* Nothing in the workspace and above .git is not one of them. *)
LEMMA NothingBetween ==
  ASSUME NEW q \in Path, NEW p \in Path, IsStrictPrefix(Workspace, q), Within(q, p), Within(Git, p)
  PROVE  Within(Git, q)
<1>1. Within(Workspace, q) /\ q # Workspace BY DEF IsStrictPrefix, Within
<1>2. ~(Len(q) <= Len(Workspace)) BY <1>1, SameLength, GitIs
<1>3. Len(q) \in Nat /\ Len(Workspace) \in Nat BY GitIs DEF Path
<1>4. Len(Git) <= Len(q) BY <1>2, <1>3, GitIs
<1>5. QED BY <1>4, GitIs, WithinBoth

(* The deepest of what is above a path is above it, and as deep as any. *)
LEMMA DeepestIs ==
  ASSUME NEW plan, NEW p \in Path, plan.writable \cup plan.masked \subseteq Path, Over(plan, p) # {}
  PROVE  /\ Deepest(Over(plan, p)) \in Over(plan, p)
         /\ \A r \in Over(plan, p) : Len(r) <= Len(Deepest(Over(plan, p)))
<1>1. PICK over : over = Over(plan, p) OBVIOUS
<1>2. \A q \in over : q \in Path /\ Len(q) \in Nat /\ Len(q) <= Len(p)
  <2>1. \A q \in over : q \in Path /\ Within(q, p) BY <1>1, GitIs DEF Over
  <2>2. QED BY <2>1, WithinIs DEF Path
<1>3. Len(p) \in Nat BY DEF Path
<1>4. PICK T : T = {Len(q) : q \in over} OBVIOUS
<1>5. T \subseteq 0 .. Len(p) /\ T # {} BY <1>1, <1>2, <1>3, <1>4
<1>6. PICK n \in T : \A y \in T : y <= n BY <1>3, <1>5, MaxOf
<1>7. PICK q \in over : Len(q) = n BY <1>4, <1>6
<1>8. \A r \in over : Len(r) <= Len(q) BY <1>4, <1>6, <1>7
<1>9. QED BY <1>1, <1>7, <1>8 DEF Deepest

(* A mount at the path itself is the deepest. *)
LEMMA MountDecides ==
  ASSUME NEW plan, NEW p \in Path, plan.writable \cup plan.masked \subseteq Path,
         p \in plan.writable \cup plan.masked \cup {Workspace}
  PROVE  Over(plan, p) # {} /\ Deepest(Over(plan, p)) = p
<1>1. p \in Over(plan, p) BY WithinItself DEF Over
<1>2. PICK d : d = Deepest(Over(plan, p)) OBVIOUS
<1>3. d \in Over(plan, p) /\ Len(p) <= Len(d) BY <1>1, <1>2, DeepestIs
<1>4. d \in Path /\ Within(d, p) BY <1>3, GitIs DEF Over
<1>5. QED BY <1>1, <1>2, <1>3, <1>4, SameLength

LEMMA FrontIs == ASSUME NEW p \in Path PROVE Front(p) \in Path
<1>1. Len(p) \in Nat BY DEF Path
<1>2. CASE Len(p) = 0
  <2>1. SubSeq(p, 1, Len(p) - 1) = [i \in 1 .. 0 |-> p[i]] BY <1>2 DEF Path
  <2>2. QED BY <2>1 DEF Front, Path
<1>3. CASE Len(p) # 0
  <2>1. \A i \in 1 .. Len(p) - 1 : p[i] \in STRING BY <1>1 DEF Path
  <2>2. SubSeq(p, 1, Len(p) - 1) = [i \in 1 .. Len(p) - 1 |-> p[i]] BY <1>1, <1>3 DEF Path
  <2>3. QED BY <1>1, <1>3, <2>1, <2>2 DEF Front, Path
<1>4. QED BY <1>2, <1>3

-----------------------------------------------------------------------------
(* Sandbox: the invariant.                                                     *)

BoxKinds == {"none", "local", "ssh", "container", "linux-native"}

(* A session that is up has found what is protected, unless it says that it did not
   look at everything. *)
Boxed ==
  /\ box.at \in {"down", "up", "refused"} /\ box.kind \in BoxKinds
  /\ box.known \subseteq Secrets /\ \A p \in box.known : IsStrictPrefix(Workspace, p)
  /\ box.kind \in {"container", "linux-native"} /\ ~box.truncated => box.found = box.known
  /\ box.found \subseteq Secrets
  /\ box.generated \subseteq Places
  /\ box.label = "os-isolated" => box.kind = "linux-native" /\ machine >= NetworkAbi
  /\ box.label = "container-enforced" => box.kind = "container"
  /\ box.at = "up" /\ box.kind = "linux-native" =>
       box.launcher = box.source \/ box.manifest.source # box.manifest.binary

Launching == {"reading", "closing", "denying", "adding", "privileges", "filtering", "restricting"}
CommandFields == {"at", "call", "roots", "plan", "there", "launcher", "rules", "asked", "added", "applied"}

(* What the launcher has done when it stands there. *)
Done ==
  [reading |-> {}, closing |-> {}, denying |-> {"descriptors"}, adding |-> {"descriptors", "tcp"},
   privileges |-> {"descriptors", "tcp"}, filtering |-> {"descriptors", "tcp", "no_new_privs"},
   restricting |-> {"descriptors", "tcp", "no_new_privs", "seccomp"},
   running |-> {"descriptors", "tcp", "no_new_privs", "seccomp", "landlock"}]

Opened == {Planned(q) : q \in command.roots.writes \cup {AgentTmp} \cup box.generated}
Hidden == {Planned(q) : q \in box.found}

(* The plan of a container, by what was there when it was made. *)
Mounted ==
  /\ command.plan.writable \subseteq Opened \ Hidden
  /\ \A q \in command.plan.writable : IsStrictPrefix(Workspace, q) /\ ~Within(Git, q)
  /\ \A q \in Opened \cap command.there : q \in command.plan.writable \cup command.plan.unrepresented
  /\ command.plan.masked \subseteq Hidden /\ \A q \in command.plan.masked : IsStrictPrefix(Workspace, q)
  /\ \A q \in Hidden \cap command.there : IsStrictPrefix(Workspace, q) => q \in command.plan.masked

(* What the launcher is asked for, and what it has done of it. *)
Launched ==
  /\ box.known = {} /\ command.added \subseteq command.rules
  /\ \A r \in command.rules : r.verb = "rw" => r.path \in command.roots.writes \cup {SandboxHome}
  /\ command.applied = Done[command.at]
  /\ command.at # "reading" => command.asked = {"tcp", "seccomp"}
  /\ command.at \in {"privileges", "filtering", "restricting", "running"} => command.added = command.rules

Commanded ==
  /\ command.at \in {"none", "running", "refused", "dead"} \cup Launching
  /\ CommandFields \subseteq DOMAIN command
  /\ command.at # "none" => box.at = "up" /\ command.call \in Calls /\ command.roots = Profile(command.call)
  /\ command.at \in Launching => box.kind = "linux-native" /\ command.call.exec
  /\ Runs /\ box.kind = "container" => Mounted
  /\ command.at \in Launching \/ (Runs /\ box.kind = "linux-native") => Launched

-----------------------------------------------------------------------------
(* Sandbox: what follows from it.                                              *)

LEMMA PlannedIs == ASSUME NEW p \in Path PROVE Planned(p) \in Path
<1>1. CASE p \in DOMAIN LinkTo \cap command.there
  <2>1. Planned(p) = LinkTo[p] /\ p \in DOMAIN LinkTo BY <1>1 DEF Planned
  <2>2. LinkTo[p] \in Places BY <2>1, SandboxAssumption
  <2>3. QED BY <2>1, <2>2, SandboxAssumption DEF Path
<1>2. CASE p \notin DOMAIN LinkTo \cap command.there
  BY <1>2 DEF Planned
<1>3. QED BY <1>1, <1>2

(* Where a command may write, by its decisions. *)
LEMMA WritesAre ==
  ASSUME NEW call \in Calls
  PROVE  /\ Profile(call).writes \subseteq Path
         /\ \A q \in Profile(call).writes :
              \/ q = AgentTmp
              \/ \E d \in call.decisions : /\ d.kind \in {"write", "delete"}
                                           /\ q \in {d.path} \cup (IF d.kind = "write" THEN {Front(d.path)} ELSE {})
<1>1. PICK written : written = PathsOf(call, {"write", "delete"}) \cup {Front(p) : p \in PathsOf(call, {"write"})} OBVIOUS
<1>2. Profile(call).writes = written \cup (IF call.exec \/ written # {} THEN {AgentTmp} ELSE {})
  BY <1>1 DEF Profile
<1>3. \A q \in Profile(call).writes : q \in written \/ q = AgentTmp BY <1>2
<1>4. ASSUME NEW q \in written
      PROVE  \E d \in call.decisions : /\ d.kind \in {"write", "delete"}
                                       /\ q \in {d.path} \cup (IF d.kind = "write" THEN {Front(d.path)} ELSE {})
  <2>1. CASE q \in PathsOf(call, {"write", "delete"})
    BY <2>1 DEF PathsOf
  <2>2. CASE q \in {Front(p) : p \in PathsOf(call, {"write"})}
    <3>1. PICK p \in PathsOf(call, {"write"}) : q = Front(p) BY <2>2
    <3>2. PICK d \in call.decisions : d.kind = "write" /\ p = d.path BY <3>1 DEF PathsOf
    <3>3. QED BY <3>1, <3>2
  <2>3. QED BY <1>1, <1>4, <2>1, <2>2
<1>5. AgentTmp \in Path BY SandboxAssumption DEF Path
<1>6. \A d \in call.decisions : d.path \in Path BY SandboxAssumption DEF Path
<1>7. \A d \in call.decisions : {d.path} \cup (IF d.kind = "write" THEN {Front(d.path)} ELSE {}) \subseteq Path
  BY <1>6, FrontIs
<1>8. QED BY <1>3, <1>4, <1>5, <1>7

LEMMA OpenedAre ==
  ASSUME Boxed, Commanded, command.at # "none"
  PROVE  /\ Opened \subseteq Path /\ Hidden \subseteq Path
         /\ \A q \in Opened, p \in Places : Within(q, p) => Granted(p)
<1>1. command.call \in Calls /\ command.roots = Profile(command.call) BY DEF Commanded
<1>2. PICK written : written = command.roots.writes OBVIOUS
<1>3. /\ written \subseteq Path
      /\ \A q \in written :
              \/ q = AgentTmp
              \/ \E d \in command.call.decisions : /\ d.kind \in {"write", "delete"}
                                           /\ q \in {d.path} \cup (IF d.kind = "write" THEN {Front(d.path)} ELSE {})
  BY <1>1, <1>2, WritesAre
<1>4. AgentTmp \in Path /\ box.generated \subseteq Path /\ box.found \subseteq Path
  BY SandboxAssumption DEF Boxed, Path
<1>5. Opened = {Planned(q) : q \in written \cup {AgentTmp} \cup box.generated} BY <1>2 DEF Opened
<1>6. Opened \subseteq Path /\ Hidden \subseteq Path BY <1>3, <1>4, <1>5, PlannedIs DEF Hidden
<1>7. ASSUME NEW q \in Opened, NEW p \in Places, Within(q, p) PROVE Granted(p)
  <2>1. PICK r \in written \cup {AgentTmp} \cup box.generated : q = Planned(r) BY <1>5
  <2>2. CASE r \in {AgentTmp} \cup box.generated BY <1>7, <2>1, <2>2 DEF Granted
  <2>3. CASE r \in written /\ r # AgentTmp BY <1>3, <1>7, <2>1, <2>3 DEF Granted
  <2>4. QED BY <2>1, <2>2, <2>3
<1>8. QED BY <1>6, <1>7

LEMMA GrantedAre ==
  ASSUME Boxed, Commanded, command.at # "none", NEW q \in command.roots.writes \cup {SandboxHome}, NEW p \in Places,
         Within(q, p)
  PROVE  Granted(p)
<1>1. command.call \in Calls /\ command.roots = Profile(command.call) BY DEF Commanded
<1>2. PICK written : written = command.roots.writes OBVIOUS
<1>3. \A r \in written :
              \/ r = AgentTmp
              \/ \E d \in command.call.decisions : /\ d.kind \in {"write", "delete"}
                                           /\ r \in {d.path} \cup (IF d.kind = "write" THEN {Front(d.path)} ELSE {})
  BY <1>1, <1>2, WritesAre
<1>4. CASE q \in {AgentTmp, SandboxHome} BY <1>4 DEF Granted
<1>5. CASE q \in written /\ q # AgentTmp BY <1>3, <1>5 DEF Granted
<1>6. QED BY <1>2, <1>4, <1>5

LEMMA MountsKeep ==
  ASSUME Boxed, Commanded, Runs, box.kind = "container"
  PROVE  /\ \A p \in Places : MayWrite(p) => Granted(p)
         /\ \A p \in Places : Within(Git, p) => ~MayWrite(p)
         /\ \A p \in command.roots.writes :
              Planned(p) \in command.there => MayWrite(Planned(p)) \/ Planned(p) \in command.plan.unrepresented
         /\ ~box.truncated => \A p \in box.known :
              Planned(p) \in command.there \ {Workspace} =>
                Sight(command.plan, Planned(p)) \in {"hidden", "absent"}
<1>1. Mounted /\ command.at # "none" /\ command.call.exec /\ Places \subseteq Path
  BY SandboxAssumption DEF Commanded, Runs, Path
<1>2. PICK plan : plan = command.plan OBVIOUS
<1>3. /\ Opened \subseteq Path /\ Hidden \subseteq Path
      /\ \A q \in Opened, p \in Places : Within(q, p) => Granted(p)
  BY <1>1, OpenedAre
<1>4. /\ plan.writable \subseteq Opened \ Hidden /\ plan.masked \subseteq Hidden
      /\ \A q \in plan.writable : IsStrictPrefix(Workspace, q) /\ ~Within(Git, q)
      /\ \A q \in plan.masked : IsStrictPrefix(Workspace, q)
      /\ \A q \in Opened \cap command.there : q \in plan.writable \cup plan.unrepresented
      /\ \A q \in Hidden \cap command.there : IsStrictPrefix(Workspace, q) => q \in plan.masked
  BY <1>1, <1>2 DEF Mounted
<1>5. plan.writable \cup plan.masked \subseteq Path BY <1>3, <1>4
(* what may be written lies in what was mounted for it *)
<1>6. \A p : MayWrite(p) <=> Sight(plan, p) = "writable" BY <1>1, <1>2 DEF MayWrite
<1>7. ASSUME NEW p \in Path, Sight(plan, p) = "writable"
      PROVE  \E q \in plan.writable : Within(q, p)
  <2>1. Over(plan, p) # {} /\ Deepest(Over(plan, p)) \in plan.writable BY <1>7 DEF Sight
  <2>2. Deepest(Over(plan, p)) \in Over(plan, p) BY <1>5, <2>1, DeepestIs
  <2>3. QED BY <2>1, <2>2 DEF Over
<1>8. ASSUME NEW p \in Places, MayWrite(p) PROVE Granted(p) /\ ~Within(Git, p)
  <2>1. p \in Path BY <1>1
  <2>2. PICK q \in plan.writable : Within(q, p) BY <1>6, <1>7, <1>8, <2>1
  <2>3. Granted(p) BY <1>3, <1>4, <2>2
  <2>4. q \in Path /\ IsStrictPrefix(Workspace, q) /\ ~Within(Git, q) BY <1>4, <1>5, <2>2
  <2>5. QED BY <2>1, <2>2, <2>3, <2>4, NothingBetween
(* what was granted and is not told is mounted *)
<1>9. ASSUME NEW p \in command.roots.writes, Planned(p) \in command.there
      PROVE  MayWrite(Planned(p)) \/ Planned(p) \in command.plan.unrepresented
  <2>1. Planned(p) \in Opened BY DEF Opened
  <2>2. PICK r \in Path : r = Planned(p) BY <1>3, <2>1
  <2>3. CASE r \in plan.writable
    <3>1. Over(plan, r) # {} /\ Deepest(Over(plan, r)) = r BY <1>5, <2>3, MountDecides
    <3>2. r \notin plan.masked BY <1>4, <2>3
    <3>3. Sight(plan, r) = "writable" BY <2>3, <3>1, <3>2 DEF Sight
    <3>4. QED BY <1>6, <2>2, <3>3
  <2>4. CASE r \notin plan.writable BY <1>2, <1>4, <1>9, <2>1, <2>2, <2>4
  <2>5. QED BY <2>3, <2>4
(* what is protected is masked, or lies where nothing is mounted *)
<1>10. ASSUME ~box.truncated, NEW p \in box.known, Planned(p) \in command.there \ {Workspace}
       PROVE  Sight(plan, Planned(p)) \in {"hidden", "absent"}
  <2>1. p \in box.found /\ p \in Secrets /\ IsStrictPrefix(Workspace, p) BY <1>10 DEF Boxed
  <2>2. Planned(p) \in Hidden BY <2>1 DEF Hidden
  <2>3. PICK r \in Path : r = Planned(p) BY <1>3, <2>2
  <2>4. r # Workspace BY <1>10, <2>3
  <2>5. CASE Within(Workspace, r)
    <3>1. IsStrictPrefix(Workspace, r) BY <2>4, <2>5 DEF IsStrictPrefix, Within
    <3>2. r \in plan.masked BY <1>4, <1>10, <2>2, <2>3, <3>1
    <3>3. Over(plan, r) # {} /\ Deepest(Over(plan, r)) = r BY <1>5, <3>2, MountDecides
    <3>4. QED BY <2>3, <3>2, <3>3 DEF Sight
  <2>6. CASE ~Within(Workspace, r)
    <3>1. ASSUME NEW q \in Over(plan, r) PROVE FALSE
      <4>1. q \in plan.writable \cup plan.masked \cup {Workspace} /\ Within(q, r) BY <3>1 DEF Over
      <4>2. q # Workspace BY <2>6, <4>1
      <4>3. q \in Path /\ Within(Workspace, q) BY <1>4, <1>5, <4>1, <4>2 DEF IsStrictPrefix, Within
      <4>4. QED BY <2>6, <4>1, <4>3, GitIs, WithinBoth
    <3>2. Over(plan, r) = {} BY <3>1
    <3>3. QED BY <2>3, <3>2 DEF Sight
  <2>7. QED BY <2>5, <2>6
<1>11. QED BY <1>2, <1>8, <1>9, <1>10

LEMMA ConfinementHolds == Boxed /\ Commanded => CommandConfined
<1> SUFFICES ASSUME Boxed, Commanded PROVE WorkloadConfined /\ PlanFaithful BY DEF CommandConfined
<1>1. WorkloadConfined
  <2>1. ASSUME Runs, box.kind = "linux-native"
        PROVE  /\ command.added = command.rules
               /\ command.applied = {"descriptors", "tcp", "no_new_privs", "seccomp", "landlock"}
    <3>1. Launched /\ command.at = "running" BY <2>1 DEF Commanded, Runs
    <3>2. QED BY <3>1 DEF Launched, Done
  <2>2. QED BY <2>1 DEF WorkloadConfined, Boxed
<1>2. ASSUME command.at = "running", NEW p \in Places, MayWrite(p) PROVE Granted(p)
  <2>1. command.at # "none" BY <1>2
  <2>2. CASE \E root \in command.roots.writes : Within(root, p) BY <2>1, <2>2, GrantedAre
  <2>3. CASE Runs /\ box.kind = "container" BY <1>2, <2>3, MountsKeep
  <2>4. CASE Runs /\ box.kind = "linux-native" /\ \E r \in command.added : r.verb = "rw" /\ Within(r.path, p)
    <3>1. Launched BY <2>4 DEF Commanded
    <3>2. PICK r \in command.rules : r.verb = "rw" /\ Within(r.path, p) BY <2>4, <3>1 DEF Launched
    <3>3. r.path \in command.roots.writes \cup {SandboxHome} BY <3>1, <3>2 DEF Launched
    <3>4. QED BY <2>1, <3>2, <3>3, GrantedAre
  <2>5. QED BY <1>2, <2>2, <2>3, <2>4 DEF MayWrite
<1>3. Runs /\ box.kind = "linux-native" => box.known = {} BY DEF Commanded, Launched
<1>4. PlanFaithful BY <1>2, <1>3, MountsKeep DEF PlanFaithful
<1>5. QED BY <1>1, <1>4

-----------------------------------------------------------------------------
(* Sandbox: the steps.                                                         *)

(* What is called isolated by the system has both dimensions from it. *)
LEMMA RanksAre ==
  /\ Rank("none") = 1 /\ Rank("best-effort") = 2 /\ Rank("policy-enforced") = 3
  /\ Rank("container-enforced") = 4 /\ Rank("os-enforced") = 5
<1>1. /\ DOMAIN Levels = 1 .. 5 /\ Levels[1] = "none" /\ Levels[2] = "best-effort" /\ Levels[3] = "policy-enforced"
      /\ Levels[4] = "container-enforced" /\ Levels[5] = "os-enforced"
  BY DEF Levels
<1>2. ASSUME NEW i \in 1 .. 5, NEW l, l = Levels[i] PROVE Rank(l) = i
  <2>1. \A j \in DOMAIN Levels : Levels[j] = l => j = i BY <1>1, <1>2
  <2>2. i \in DOMAIN Levels /\ Levels[i] = l BY <1>1, <1>2
  <2>3. QED BY <2>1, <2>2 DEF Rank
<1>3. QED BY <1>1, <1>2

LEMMA LabelsAre ==
  ASSUME NEW kind \in BoxKinds \ {"none"}
  PROVE  /\ Summarize(EnforcementOf(kind)) = "os-isolated" => kind = "linux-native" /\ machine >= NetworkAbi
         /\ Summarize(EnforcementOf(kind)) = "container-enforced" => kind = "container"
<1>1. CASE kind = "container"
  <2>1. EnforcementOf(kind) = [filesystem |-> "container-enforced", network |-> "container-enforced"]
    BY <1>1 DEF EnforcementOf
  <2>2. Summarize(EnforcementOf(kind)) = "container-enforced" BY <2>1, RanksAre DEF Summarize
  <2>3. QED BY <1>1, <2>2
<1>2. CASE kind = "linux-native" /\ machine >= NetworkAbi
  <2>1. EnforcementOf(kind) = [filesystem |-> "os-enforced", network |-> "os-enforced"]
    BY <1>2 DEF EnforcementOf
  <2>2. Summarize(EnforcementOf(kind)) = "os-isolated" BY <2>1, RanksAre DEF Summarize
  <2>3. QED BY <1>2, <2>2
<1>3. CASE kind = "linux-native" /\ ~(machine >= NetworkAbi)
  <2>1. EnforcementOf(kind) = [filesystem |-> "os-enforced", network |-> "none"]
    BY <1>3 DEF EnforcementOf
  <2>2. Summarize(EnforcementOf(kind)) = "policy-enforced" BY <2>1, RanksAre DEF Summarize
  <2>3. QED BY <2>2
<1>4. CASE kind \notin {"container", "linux-native"}
  <2>1. EnforcementOf(kind) = [filesystem |-> "policy-enforced", network |-> "best-effort"]
    BY <1>4 DEF EnforcementOf
  <2>2. Summarize(EnforcementOf(kind)) = "policy-enforced" BY <2>1, RanksAre DEF Summarize
  <2>3. QED BY <2>2
<1>5. QED BY <1>1, <1>2, <1>3, <1>4

LEMMA BoxedStarts == SandboxInit => Boxed /\ Commanded
BY DEF SandboxInit, Boxed, Commanded, NoBox, NoCommand, BoxKinds, Launching, CommandFields, Runs

(* A session starts. *)
LEMMA SessionBoxed ==
  ASSUME Boxed, StartSession
  PROVE  Boxed'
<1>a. PICK kind \in {"local", "ssh", "container", "linux-native"} : \E scan \in Scans(Prepared(kind)) :
        box' = [NoBox EXCEPT
                        !.at = IF Confines(kind) THEN "up" ELSE "refused", !.kind = kind,
                        !.found = IF Looks(kind) THEN scan.found ELSE {},
                        !.truncated = Looks(kind) /\ scan.truncated,
                        !.known = Entries(Prepared(kind)) \cap Secrets,
                        !.generated = {g \in Generated : Prepared(kind)[g] = "dir"},
                        !.label = Summarize(EnforcementOf(kind)),
                        !.source = source, !.launcher = binary, !.manifest = manifest]
  BY DEF StartSession
<1>1. PICK scan \in Scans(Prepared(kind)) :
        box' = [NoBox EXCEPT
                        !.at = IF Confines(kind) THEN "up" ELSE "refused", !.kind = kind,
                        !.found = IF Looks(kind) THEN scan.found ELSE {},
                        !.truncated = Looks(kind) /\ scan.truncated,
                        !.known = Entries(Prepared(kind)) \cap Secrets,
                        !.generated = {g \in Generated : Prepared(kind)[g] = "dir"},
                        !.label = Summarize(EnforcementOf(kind)),
                        !.source = source, !.launcher = binary, !.manifest = manifest]
  BY <1>a
<1>2. machine' = machine BY DEF StartSession
<1>3. PICK seen \in SUBSET Entries(Prepared(kind)) : scan = [found |-> seen \cap Secrets, truncated |-> seen # Entries(Prepared(kind))]
  BY <1>1 DEF Scans
<1>4. /\ box'.at = (IF Confines(kind) THEN "up" ELSE "refused") /\ box'.kind = kind
      /\ box'.found = (IF Looks(kind) THEN scan.found ELSE {})
      /\ box'.truncated = (Looks(kind) /\ scan.truncated)
      /\ box'.known = Entries(Prepared(kind)) \cap Secrets
      /\ box'.generated = {g \in Generated : Prepared(kind)[g] = "dir"}
      /\ box'.label = Summarize(EnforcementOf(kind))
      /\ box'.source = source /\ box'.launcher = binary /\ box'.manifest = manifest
  BY <1>1 DEF NoBox
<1>5. \A p \in Entries(Prepared(kind)) : IsStrictPrefix(Workspace, p) BY DEF Entries
<1>6. Generated \subseteq Places BY SandboxAssumption
<1>7. kind \in BoxKinds \ {"none"} BY <1>1 DEF BoxKinds
<1>8. /\ box'.label = "os-isolated" => box'.kind = "linux-native" /\ machine' >= NetworkAbi
      /\ box'.label = "container-enforced" => box'.kind = "container"
  BY <1>2, <1>4, <1>7, LabelsAre
<1>9. box'.at = "up" /\ box'.kind = "linux-native" =>
        box'.launcher = box'.source \/ box'.manifest.source # box'.manifest.binary
  BY <1>4 DEF Confines, VerifyLauncher
<1>10. box'.at \in {"up", "refused"} /\ box'.kind \in BoxKinds /\ box'.found \subseteq Secrets
       /\ box'.generated \subseteq Places /\ box'.known \subseteq Secrets
  BY <1>3, <1>4, <1>6, <1>7
<1>11. box'.kind \in {"container", "linux-native"} /\ ~box'.truncated => box'.found = box'.known
  BY <1>3, <1>4 DEF Looks
<1>12. QED BY <1>4, <1>5, <1>8, <1>9, <1>10, <1>11 DEF Boxed

(* Everybody else leaves the session's box and what runs in it as they are. *)
LEMMA Untouched ==
  ASSUME Boxed, Commanded, UNCHANGED <<box, command, machine>>
  PROVE  Boxed' /\ Commanded'
<1>1. Boxed' BY DEF Boxed
<1>2. Mounted' = Mounted /\ Launched' = Launched /\ Runs' = Runs
  BY DEF Mounted, Launched, Runs, Opened, Hidden, Planned
<1>3. QED BY <1>1, <1>2 DEF Commanded

(* A command that is planned. *)
LEMMA CommandIs ==
  ASSUME NEW call, NEW profile, NEW state
  PROVE  LET c == Command(call, profile, state) IN
         /\ DOMAIN c = CommandFields /\ c.at = state /\ c.call = call /\ c.roots = profile
         /\ c.there = {p \in Places : There(p)} /\ c.added = {} /\ c.applied = {}
BY DEF Command, NoCommand, CommandFields

(* A command that no launcher and no container runs. *)
LEMMA PlainCommanded ==
  ASSUME Boxed, Commanded, box.at = "up", UNCHANGED box, NEW call \in Calls, NEW state \in {"running", "refused"},
         command' = Command(call, Profile(call), state),
         state = "running" => ~call.exec \/ box.kind \in {"local", "ssh"}
  PROVE  Commanded'
<1>1. /\ DOMAIN command' = CommandFields /\ command'.at = state /\ command'.call = call
      /\ command'.roots = Profile(call)
  BY CommandIs
<1>2. command'.at \notin Launching BY <1>1 DEF Launching
<1>3. Runs' => box.kind \in {"local", "ssh"} BY <1>1 DEF Runs
<1>4. Profile(command.call)' = Profile(call)
  <2>1. ASSUME NEW c, c = command'.call PROVE Profile(command.call)' = Profile(c)
    BY <2>1, SMTT(30) DEF Profile, PathsOf
  <2>2. QED BY <1>1, <2>1, Zenon
<1>5. QED BY <1>1, <1>2, <1>3, <1>4 DEF Commanded

LEMMA MountsAre ==
  ASSUME NEW profile, NEW protected
  PROVE  LET plan == MountsOver(profile, protected)
             granted == {Real(p) : p \in profile.writes \cup {AgentTmp} \cup box.generated}
         IN  /\ plan.writable \subseteq granted \ protected
             /\ \A q \in plan.writable : IsStrictPrefix(Workspace, q) /\ ~Within(Git, q)
             /\ \A q \in granted : There(q) => q \in plan.writable \cup plan.unrepresented
             /\ plan.masked \subseteq protected /\ \A q \in plan.masked : IsStrictPrefix(Workspace, q)
             /\ \A q \in protected : There(q) /\ IsStrictPrefix(Workspace, q) => q \in plan.masked
<1>1. PICK granted : granted = {Real(p) : p \in profile.writes \cup {AgentTmp} \cup box.generated} OBVIOUS
<1>2. PICK hidden : hidden = {p \in protected : IsStrictPrefix(Workspace, p)} OBVIOUS
<1>3. PICK mountable :
        mountable = {p \in granted : IsStrictPrefix(Workspace, p) /\ ~Within(Git, p) /\ There(p)} OBVIOUS
<1>4. PICK plan : plan = MountsOver(profile, protected) OBVIOUS
<1>5. plan = [writable |-> mountable \ hidden, masked |-> {p \in hidden : There(p)},
              unrepresented |-> (granted \ mountable) \cup (granted \cap hidden)]
  BY <1>1, <1>2, <1>3, <1>4 DEF MountsOver
<1>6. /\ plan.writable = mountable \ hidden /\ plan.masked = {p \in hidden : There(p)}
      /\ plan.unrepresented = (granted \ mountable) \cup (granted \cap hidden)
  BY <1>5
<1>7. plan.writable \subseteq granted \ protected BY <1>2, <1>3, <1>6
<1>8. \A q \in plan.writable : IsStrictPrefix(Workspace, q) /\ ~Within(Git, q) BY <1>3, <1>6
<1>9. \A q \in granted : q \in plan.writable \cup plan.unrepresented BY <1>6
<1>10. plan.masked \subseteq protected /\ \A q \in plan.masked : IsStrictPrefix(Workspace, q) BY <1>2, <1>6
<1>11. \A q \in protected : There(q) /\ IsStrictPrefix(Workspace, q) => q \in plan.masked BY <1>2, <1>6
<1>12. QED BY <1>1, <1>4, <1>7, <1>8, <1>9, <1>10, <1>11

LEMMA ContainerCommanded ==
  ASSUME Boxed, Commanded, box.at = "up", UNCHANGED box, NEW call \in Calls, RunContainer(call)
  PROVE  Commanded'
<1>1. PICK profile : profile = Profile(call) OBVIOUS
<1>2. PICK plan : plan = Mounts(profile) OBVIOUS
<1>3. PICK state \in {"running", "refused"} : command' = [Command(call, profile, state) EXCEPT !.plan = plan]
  BY <1>1, <1>2 DEF RunContainer
<1>4. PICK c : c = Command(call, profile, state) OBVIOUS
<1>5. /\ DOMAIN c = CommandFields /\ c.at = state /\ c.call = call /\ c.roots = profile
      /\ c.there = {p \in Places : There(p)}
  BY <1>4, CommandIs
<1>6. /\ DOMAIN command' = CommandFields /\ command'.at = state /\ command'.call = call
      /\ command'.roots = profile /\ command'.there = {p \in Places : There(p)} /\ command'.plan = plan
  BY <1>3, <1>4, <1>5 DEF CommandFields
<1>7. command'.at \notin Launching /\ box.kind = "container" BY <1>6 DEF Launching, RunContainer
<1>8. ASSUME NEW q PROVE Planned(q)' = Real(q)
  BY <1>6, SandboxAssumption DEF Planned, Real
<1>9. PICK granted, protected :
        /\ granted = {Real(p) : p \in profile.writes \cup {AgentTmp} \cup box.generated}
        /\ protected = {Real(p) : p \in box.found}
  OBVIOUS
<1>10. Opened' = granted /\ Hidden' = protected
  <2>1. Opened' = {Planned(q)' : q \in profile.writes \cup {AgentTmp} \cup box.generated} BY <1>6 DEF Opened
  <2>2. Hidden' = {Planned(q)' : q \in box.found} BY DEF Hidden
  <2>3. QED BY <1>8, <1>9, <2>1, <2>2
<1>11. plan = MountsOver(profile, protected) BY <1>2, <1>9 DEF Mounts
<1>12. /\ plan.writable \subseteq granted \ protected
       /\ \A q \in plan.writable : IsStrictPrefix(Workspace, q) /\ ~Within(Git, q)
       /\ \A q \in granted : There(q) => q \in plan.writable \cup plan.unrepresented
       /\ plan.masked \subseteq protected /\ \A q \in plan.masked : IsStrictPrefix(Workspace, q)
       /\ \A q \in protected : There(q) /\ IsStrictPrefix(Workspace, q) => q \in plan.masked
  BY <1>9, <1>11, MountsAre
<1>13. Mounted' BY <1>6, <1>10, <1>12 DEF Mounted
<1>14. Profile(command.call)' = profile BY <1>1, <1>6 DEF Profile, PathsOf
<1>15. QED BY <1>6, <1>7, <1>13, <1>14 DEF Commanded, Runs

(* The launcher is not asked to run a command where something protected was found. *)
LEMMA NothingProtected ==
  ASSUME Boxed, box.kind = "linux-native", NEW call \in Calls, call.exec, ~Refuses(Profile(call))
  PROVE  box.known = {}
<1>1. Workspace \in Profile(call).reads BY DEF Profile
<1>2. ~box.truncated /\ \A p \in box.found : ~Within(Workspace, p) BY <1>1 DEF Refuses
<1>3. box.found = box.known /\ \A p \in box.known : Within(Workspace, p)
  BY <1>2 DEF Boxed, IsStrictPrefix, Within
<1>4. QED BY <1>2, <1>3

LEMMA LauncherCommanded ==
  ASSUME Boxed, Commanded, box.at = "up", UNCHANGED box, NEW call \in Calls, call.exec, RunLauncher(call)
  PROVE  Commanded'
<1>1. PICK profile : profile = Profile(call) OBVIOUS
<1>2. CASE ~(Admits(call, profile) /\ ~Refuses(profile) /\ binary # 0)
  <2>1. command' = Command(call, Profile(call), "refused") BY <1>1, <1>2 DEF RunLauncher
  <2>2. QED BY <2>1, PlainCommanded
<1>3. CASE Admits(call, profile) /\ ~Refuses(profile) /\ binary # 0
  <2>1. PICK c : c = Command(call, profile, "reading") OBVIOUS
  <2>2. PICK rules : rules = Rules(profile) OBVIOUS
  <2>3. command' = [c EXCEPT !.rules = rules, !.launcher = binary]
    BY <1>1, <1>3, <2>1, <2>2 DEF RunLauncher
  <2>4. DOMAIN c = CommandFields /\ c.at = "reading" /\ c.call = call /\ c.roots = profile /\ c.added = {} /\ c.applied = {}
    BY <2>1, CommandIs
  <2>5. /\ DOMAIN command' = CommandFields /\ command'.at = "reading" /\ command'.call = call
        /\ command'.roots = profile /\ command'.added = {} /\ command'.applied = {} /\ command'.rules = rules
    BY <2>3, <2>4 DEF CommandFields
  <2>6. box.kind = "linux-native" /\ box.known = {} BY <1>1, <1>3, NothingProtected DEF RunLauncher
  <2>7. \A r \in rules : r.verb = "rw" => r.path \in profile.writes \cup {SandboxHome} BY <2>2 DEF Rules
  <2>8. Launched' BY <2>5, <2>6, <2>7 DEF Launched, Done
  <2>9. Profile(command.call)' = profile BY <1>1, <2>5 DEF Profile, PathsOf
  <2>10. QED BY <2>5, <2>6, <2>8, <2>9 DEF Commanded, Launching, Runs
<1>4. QED BY <1>2, <1>3

(* The launcher goes on to the next place: what it was asked and what it has done are
   what that place says. *)
LEMMA LauncherGoes ==
  ASSUME Boxed, Commanded, command.at \in Launching, UNCHANGED box,
         DOMAIN command' = DOMAIN command, \A f \in DOMAIN command \ {"at", "asked", "added", "applied"} : command'[f] = command[f],
         command'.at \in Launching \cup {"running"}, command'.at # "reading", command'.asked = {"tcp", "seccomp"},
         command'.applied = Done[command'.at], command'.added \subseteq command.rules,
         command'.at \in {"privileges", "filtering", "restricting", "running"} => command'.added = command.rules
  PROVE  Commanded'
<1>1. /\ command'.call = command.call /\ command'.roots = command.roots /\ command'.rules = command.rules
  BY DEF Commanded, CommandFields
<1>2. Launched /\ box.kind = "linux-native" /\ command.call.exec BY DEF Commanded
<1>3. Launched' BY <1>1, <1>2 DEF Launched
<1>4. Profile(command.call)' = Profile(command.call) BY <1>1 DEF Profile, PathsOf
<1>5. CommandFields \subseteq DOMAIN command /\ command.at # "none" BY DEF Commanded, Launching
<1>6. QED BY <1>1, <1>2, <1>3, <1>4, <1>5 DEF Commanded, Launching, Runs

(* Or it dies. *)
LEMMA LauncherDies ==
  ASSUME Commanded, command.at \in Launching, UNCHANGED box, Dies
  PROVE  Commanded'
<1>1. command' = [command EXCEPT !.at = "dead"] BY DEF Dies, Goes
<1>2. /\ DOMAIN command' = DOMAIN command /\ command'.at = "dead" /\ command'.call = command.call
      /\ command'.roots = command.roots
  BY <1>1 DEF Commanded, CommandFields
<1>3. Profile(command.call)' = Profile(command.call) BY <1>2 DEF Profile, PathsOf
<1>4. QED BY <1>2, <1>3 DEF Commanded, Launching, Runs

LEMMA LauncherStep ==
  ASSUME Boxed, Commanded,
         ReadPlan \/ CloseInherited \/ DenyTcp \/ AddRule \/ NoNewPrivileges \/ ApplySeccomp \/ RestrictSelf
  PROVE  Commanded'
<1>1. command.at \in Launching /\ UNCHANGED box
  BY DEF ReadPlan, CloseInherited, DenyTcp, AddRule, NoNewPrivileges, ApplySeccomp, RestrictSelf, Applies, Steps, Launching
<1>2. Launched BY <1>1 DEF Commanded
<1>3. /\ command.applied = Done[command.at] /\ command.added \subseteq command.rules
      /\ command.at # "reading" => command.asked = {"tcp", "seccomp"}
      /\ command.at \in {"privileges", "filtering", "restricting"} => command.added = command.rules
  BY <1>2 DEF Launched
<1>4. CommandFields \subseteq DOMAIN command BY DEF Commanded
<1>5. CASE Dies BY <1>1, <1>5, LauncherDies
(* it reads the plan *)
<1>6. ASSUME ReadPlan, ~Dies PROVE Commanded'
  <2>1. command.at = "reading" /\ command' = [command EXCEPT !.at = "closing", !.asked = {"tcp", "seccomp"}]
    BY <1>6 DEF ReadPlan, Steps
  <2>a. command.applied = {} BY <1>3, <2>1 DEF Done
  <2>2. /\ DOMAIN command' = DOMAIN command /\ command'.at = "closing" /\ command'.asked = {"tcp", "seccomp"}
        /\ command'.added = command.added /\ command'.applied = command.applied
        /\ \A f \in DOMAIN command \ {"at", "asked", "added", "applied"} : command'[f] = command[f]
    BY <1>4, <2>1 DEF CommandFields
  <2>3. command'.applied = Done[command'.at] BY <2>a, <2>2 DEF Done
  <2>4. command'.at \in Launching \cup {"running"} BY <2>2 DEF Launching
  <2>5. QED BY <1>1, <1>3, <2>2, <2>3, <2>4, LauncherGoes
(* it does one thing and goes on *)
<1>7. ASSUME NEW place \in Launching \ {"reading"}, NEW what, NEW next \in (Launching \ {"reading"}) \cup {"running"},
             command.at = place, command' = [command EXCEPT !.at = next, !.applied = @ \cup {what}],
             Done[next] = Done[place] \cup {what},
             next \in {"privileges", "filtering", "restricting", "running"} => command.added = command.rules
      PROVE  Commanded'
  <2>1. /\ DOMAIN command' = DOMAIN command /\ command'.at = next /\ command'.applied = command.applied \cup {what}
        /\ command'.added = command.added /\ command'.asked = command.asked
        /\ \A f \in DOMAIN command \ {"at", "asked", "added", "applied"} : command'[f] = command[f]
    BY <1>4, <1>7 DEF CommandFields
  <2>2. command'.applied = Done[command'.at] /\ command'.asked = {"tcp", "seccomp"} BY <1>3, <1>7, <2>1
  <2>3. QED BY <1>1, <1>3, <1>7, <2>1, <2>2, LauncherGoes
<1>8. ASSUME CloseInherited, ~Dies PROVE Commanded'
  <2>1. command.at = "closing" /\ command' = [command EXCEPT !.at = "denying", !.applied = @ \cup {"descriptors"}]
    BY <1>8 DEF CloseInherited, Applies, Steps
  <2>2. Done["denying"] = Done["closing"] \cup {"descriptors"} BY DEF Done
  <2>3. QED BY <1>7, <2>1, <2>2 DEF Launching
<1>9. ASSUME DenyTcp, ~Dies PROVE Commanded'
  <2>1. command.at = "denying" BY <1>9 DEF DenyTcp, Steps
  <2>2. "tcp" \in command.asked BY <1>3, <2>1
  <2>3. command' = [command EXCEPT !.at = "adding", !.applied = @ \cup {"tcp"}] BY <1>9, <2>2 DEF DenyTcp
  <2>4. Done["adding"] = Done["denying"] \cup {"tcp"} BY DEF Done
  <2>5. QED BY <1>7, <2>1, <2>3, <2>4 DEF Launching
<1>10. ASSUME AddRule, ~Dies PROVE Commanded'
  <2>1. command.at = "adding" BY <1>10 DEF AddRule, Steps
  <2>2. \/ \E r \in command.rules : command' = [command EXCEPT !.added = @ \cup {r}]
        \/ command.rules = command.added /\ command' = [command EXCEPT !.at = "privileges"]
    BY <1>10 DEF AddRule, Goes
  <2>3. ASSUME NEW r \in command.rules, command' = [command EXCEPT !.added = @ \cup {r}] PROVE Commanded'
    <3>1. /\ DOMAIN command' = DOMAIN command /\ command'.at = "adding" /\ command'.applied = command.applied
          /\ command'.added = command.added \cup {r} /\ command'.asked = command.asked
          /\ \A f \in DOMAIN command \ {"at", "asked", "added", "applied"} : command'[f] = command[f]
      BY <1>4, <2>1, <2>3 DEF CommandFields
    <3>2. command'.applied = Done[command'.at] /\ command'.asked = {"tcp", "seccomp"} BY <1>3, <2>1, <3>1
    <3>3. command'.added \subseteq command.rules BY <1>3, <3>1
    <3>4. QED BY <1>1, <3>1, <3>2, <3>3, LauncherGoes DEF Launching
  <2>4. ASSUME command.rules = command.added, command' = [command EXCEPT !.at = "privileges"] PROVE Commanded'
    <3>1. /\ DOMAIN command' = DOMAIN command /\ command'.at = "privileges" /\ command'.applied = command.applied
          /\ command'.added = command.added /\ command'.asked = command.asked
          /\ \A f \in DOMAIN command \ {"at", "asked", "added", "applied"} : command'[f] = command[f]
      BY <1>4, <2>4 DEF CommandFields
    <3>2. Done["privileges"] = Done["adding"] BY DEF Done
    <3>3. command'.applied = Done[command'.at] /\ command'.asked = {"tcp", "seccomp"} BY <1>3, <2>1, <3>1, <3>2
    <3>4. QED BY <1>1, <2>4, <3>1, <3>3, LauncherGoes DEF Launching
  <2>5. QED BY <2>2, <2>3, <2>4
<1>11. ASSUME NoNewPrivileges, ~Dies PROVE Commanded'
  <2>1. command.at = "privileges" /\ command' = [command EXCEPT !.at = "filtering", !.applied = @ \cup {"no_new_privs"}]
    BY <1>11 DEF NoNewPrivileges, Applies, Steps
  <2>2. Done["filtering"] = Done["privileges"] \cup {"no_new_privs"} BY DEF Done
  <2>3. QED BY <1>3, <1>7, <2>1, <2>2 DEF Launching
<1>12. ASSUME ApplySeccomp, ~Dies PROVE Commanded'
  <2>1. command.at = "filtering" BY <1>12 DEF ApplySeccomp, Applies, Steps
  <2>2. "seccomp" \in command.asked BY <1>3, <2>1
  <2>3. command' = [command EXCEPT !.at = "restricting", !.applied = @ \cup {"seccomp"}]
    BY <1>12, <2>2 DEF ApplySeccomp, Applies
  <2>4. Done["restricting"] = Done["filtering"] \cup {"seccomp"} BY DEF Done
  <2>5. QED BY <1>3, <1>7, <2>1, <2>3, <2>4 DEF Launching
<1>13. ASSUME RestrictSelf, ~Dies PROVE Commanded'
  <2>1. command.at = "restricting" /\ command' = [command EXCEPT !.at = "running", !.applied = @ \cup {"landlock"}]
    BY <1>13 DEF RestrictSelf, Applies, Steps
  <2>2. Done["running"] = Done["restricting"] \cup {"landlock"} BY DEF Done
  <2>3. QED BY <1>3, <1>7, <2>1, <2>2 DEF Launching
<1>14. QED BY <1>5, <1>6, <1>8, <1>9, <1>10, <1>11, <1>12, <1>13

LEMMA RunCommanded ==
  ASSUME Boxed, Commanded, Run
  PROVE  Commanded'
<1>1. box.at = "up" /\ UNCHANGED box BY DEF Run
<1>2. PICK call \in Calls :
        \/ ~call.exec /\ command' = Command(call, Profile(call), "running")
        \/ call.exec /\ RunContainer(call)
        \/ call.exec /\ RunLauncher(call)
        \/ /\ call.exec /\ box.kind \in {"local", "ssh"}
           /\ command' = Command(call, Profile(call), IF Admits(call, Profile(call)) THEN "running" ELSE "refused")
  BY DEF Run
<1>3. CASE ~call.exec /\ command' = Command(call, Profile(call), "running") BY <1>1, <1>3, PlainCommanded
<1>4. CASE RunContainer(call) BY <1>1, <1>4, ContainerCommanded
<1>5. CASE call.exec /\ RunLauncher(call) BY <1>1, <1>5, LauncherCommanded
<1>6. CASE /\ call.exec /\ box.kind \in {"local", "ssh"}
           /\ command' = Command(call, Profile(call), IF Admits(call, Profile(call)) THEN "running" ELSE "refused")
  <2>1. PICK state \in {"running", "refused"} : command' = Command(call, Profile(call), state) BY <1>6
  <2>2. QED BY <1>1, <1>6, <2>1, PlainCommanded
<1>7. QED BY <1>2, <1>3, <1>4, <1>5, <1>6

LEMMA SandboxStep ==
  ASSUME Boxed, Commanded, [SandboxNext]_sandboxVars
  PROVE  Boxed' /\ Commanded'
<1>1. CASE BuildSandbox \/ Compiled \/ ManifestWritten \/ DiskChanges \/ UNCHANGED sandboxVars
  <2>1. UNCHANGED <<box, command, machine>>
    BY <1>1 DEF BuildSandbox, Compiled, ManifestWritten, DiskChanges, sandboxVars
  <2>2. QED BY <2>1, Untouched
<1>2. CASE StartSession
  <2>1. command' = command /\ box.at = "down" BY <1>2 DEF StartSession
  <2>2. command.at = "none" BY <2>1 DEF Commanded
  <2>3. Commanded' BY <2>1, <2>2 DEF Commanded, Runs, Launching
  <2>4. QED BY <1>2, <2>3, SessionBoxed
<1>3. CASE CommandOver
  <2>1. command' = NoCommand BY <1>3 DEF CommandOver
  <2>2. Commanded' BY <2>1 DEF Commanded, NoCommand, Runs, Launching, CommandFields
  <2>3. Boxed' BY <1>3 DEF CommandOver, Boxed
  <2>4. QED BY <2>2, <2>3
<1>4. CASE Run
  <2>1. Boxed' BY <1>4 DEF Run, Boxed
  <2>2. QED BY <1>4, <2>1, RunCommanded
<1>5. CASE ReadPlan \/ CloseInherited \/ DenyTcp \/ AddRule \/ NoNewPrivileges \/ ApplySeccomp \/ RestrictSelf
  <2>1. UNCHANGED <<box, machine>>
    BY <1>5 DEF ReadPlan, CloseInherited, DenyTcp, AddRule, NoNewPrivileges, ApplySeccomp, RestrictSelf, Applies, Steps
  <2>2. Boxed' BY <2>1 DEF Boxed
  <2>3. QED BY <1>5, <2>2, LauncherStep
<1>6. QED BY <1>1, <1>2, <1>3, <1>4, <1>5 DEF SandboxNext

(* What runs is confined as the session says, and by what was granted: for every
   tree, link, call and machine, and whoever changes the disk or the launcher's
   source meanwhile. *)
THEOREM CommandsStayConfined == SandboxInit /\ [][SandboxNext]_sandboxVars => []CommandConfined
<1>1. SandboxInit => Boxed /\ Commanded BY BoxedStarts
<1>2. Boxed /\ Commanded /\ [SandboxNext]_sandboxVars => Boxed' /\ Commanded' BY SandboxStep
<1>3. Boxed /\ Commanded => CommandConfined BY ConfinementHolds
<1>4. QED BY <1>1, <1>2, <1>3, PTL
=============================================================================
