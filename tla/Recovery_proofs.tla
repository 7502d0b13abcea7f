--------------------------- MODULE Recovery_proofs ---------------------------
(***************************************************************************)
(* A session over any number of processes, turns, calls and crashes: what  *)
(* a resume rebuilds from the event log, and what it counts.  Both the log *)
(* and what is made of it are sequences of any length, so the first part   *)
(* is about recursive functions over a sequence: that there is one, and    *)
(* that one event more is one step more.                                   *)
(***************************************************************************)
EXTENDS Recovery, FiniteSetTheorems, SequenceTheorems, WellFoundedInduction, TLAPS

-----------------------------------------------------------------------------
(* Recursive functions.                                                    *)

(* A set of naturals that is not empty has a least member. *)
LEMMA LeastOf ==
  ASSUME NEW T, T \subseteq Nat, T # {}
  PROVE  \E x \in T : \A y \in T : x <= y
<1> DEFINE R == OpToRel(<, Nat)
<1>1. IsWellFoundedOn(R, Nat) BY NatLessThanWellFounded
<1>2. R = {ss \in Nat \X Nat : ss[1] < ss[2]} BY DEF OpToRel
<1>3. \E x \in T : \A y \in T : ~(<<y, x>> \in R)
  <2> HIDE DEF R
  <2> QED BY <1>1, WFMin
<1>4. PICK x \in T : \A y \in T : ~(<<y, x>> \in R) BY <1>3
<1>5. ASSUME NEW y \in T PROVE x <= y
  <2>1. x \in Nat /\ y \in Nat OBVIOUS
  <2>2. ~(<<y, x>> \in {ss \in Nat \X Nat : ss[1] < ss[2]}) BY <1>2, <1>4
  <2>3. ~(y < x) BY <2>1, <2>2
  <2>4. QED BY <2>1, <2>3
<1>6. QED BY <1>5

(* What holds of 0, and of n when it holds of n - 1, holds of all up to N. *)
LEMMA UpTo ==
  ASSUME NEW N \in Nat, NEW T, 0 \in T, \A n \in 1 .. N : n - 1 \in T => n \in T
  PROVE  \A n \in 0 .. N : n \in T
<1> DEFINE Missing == {n \in 0 .. N : n \notin T}
<1>1. ASSUME Missing # {} PROVE FALSE
  <2>1. PICK x \in Missing : \A y \in Missing : x <= y
    <3>1. Missing \subseteq Nat OBVIOUS
    <3> HIDE DEF Missing
    <3>2. QED BY <1>1, <3>1, LeastOf
  <2>2. x \in 1 .. N /\ x \notin T BY <2>1
  <2>3. x - 1 \in 0 .. N /\ ~(x <= x - 1) BY <2>2
  <2>4. x - 1 \in T BY <2>1, <2>3
  <2>5. QED BY <2>2, <2>4
<1>2. QED BY <1>1

(* What holds of the empty sequence, and of one that is an element longer than one it
   holds of, holds of every sequence. *)
LEMMA AnySequence ==
  ASSUME NEW S, NEW T, << >> \in T, \A q \in Seq(S), e \in S : q \in T => Append(q, e) \in T
  PROVE  \A q \in Seq(S) : q \in T
<1> SUFFICES ASSUME NEW q \in Seq(S) PROVE q \in T OBVIOUS
<1> DEFINE U == {n \in 0 .. Len(q) : SubSeq(q, 1, n) \in T}
<1>1. Len(q) \in Nat /\ \A i \in 1 .. Len(q) : q[i] \in S OBVIOUS
<1>2. ASSUME NEW n \in 0 .. Len(q)
      PROVE  /\ SubSeq(q, 1, n) \in Seq(S) /\ Len(SubSeq(q, 1, n)) = n
             /\ \A i \in 1 .. n : SubSeq(q, 1, n)[i] = q[i]
  <2>1. 1 \in Int /\ n \in Int /\ n \in Nat /\ \A i \in 1 .. n : q[i] \in S BY <1>1
  <2>2. /\ SubSeq(q, 1, n) \in Seq(S) /\ Len(SubSeq(q, 1, n)) = IF 1 <= n THEN n - 1 + 1 ELSE 0
        /\ \A i \in 1 .. n - 1 + 1 : SubSeq(q, 1, n)[i] = q[1 + i - 1]
    BY <2>1, SubSeqProperties
  <2>3. QED BY <2>1, <2>2
<1>3. 0 \in U
  <2>1. 0 \in 0 .. Len(q) BY <1>1
  <2>2. SubSeq(q, 1, 0) = << >> BY <1>2, <2>1, EmptySeq
  <2>3. QED BY <2>1, <2>2
<1>4. ASSUME NEW n \in 1 .. Len(q), n - 1 \in U PROVE n \in U
  <2>1. n - 1 \in 0 .. Len(q) /\ n \in 0 .. Len(q) /\ n - 1 + 1 = n BY <1>1
  <2>2. PICK p : p = SubSeq(q, 1, n - 1) OBVIOUS
  <2>3. p \in Seq(S) /\ Len(p) = n - 1 /\ \A i \in 1 .. n - 1 : p[i] = q[i] BY <1>2, <2>1, <2>2
  <2>4. q[n] \in S BY <1>1
  <2>5. /\ Append(p, q[n]) \in Seq(S) /\ Len(Append(p, q[n])) = n
        /\ \A i \in 1 .. n : Append(p, q[n])[i] = q[i]
    <3>1. /\ Append(p, q[n]) \in Seq(S) /\ Len(Append(p, q[n])) = n BY <2>1, <2>3, <2>4
    <3>2. ASSUME NEW i \in 1 .. n PROVE Append(p, q[n])[i] = q[i]
      <4>1. CASE i = n BY <2>1, <2>3, <2>4, <4>1
      <4>2. CASE i # n
        <5>1. i \in 1 .. n - 1 BY <2>1, <4>2
        <5>2. QED BY <2>1, <2>3, <2>4, <4>2, <5>1
      <4>3. QED BY <4>1, <4>2
    <3>3. QED BY <3>1, <3>2
  <2>6. Append(p, q[n]) = SubSeq(q, 1, n) BY <1>2, <2>1, <2>5, SeqEqual
  <2>7. QED BY <1>4, <2>1, <2>2, <2>3, <2>4, <2>6
<1>5. Len(q) \in U
  <2> HIDE DEF U
  <2>1. \A n \in 0 .. Len(q) : n \in U BY <1>1, <1>3, <1>4, UpTo
  <2>2. QED BY <1>1, <2>1
<1>6. SubSeq(q, 1, Len(q)) = q
  <2>1. Len(q) \in 0 .. Len(q) BY <1>1
  <2>2. QED BY <1>2, <2>1, SeqEqual
<1>7. QED BY <1>5, <1>6

(* A function that starts at base and takes step n at n. *)
Iterates(g, N, base, step) == g[0] = base /\ \A n \in 1 .. N : g[n] = step[n][g[n - 1]]

LEMMA IterationExists ==
  ASSUME NEW N \in Nat, NEW S, NEW base \in S, NEW step \in [1 .. N -> [S -> S]]
  PROVE  \E g \in [0 .. N -> S] : Iterates(g, N, base, step)
<1> DEFINE T == {m \in 0 .. N : \E g \in [0 .. m -> S] : Iterates(g, m, base, step)}
<1>1. 0 \in T
  <2>1. [i \in 0 .. 0 |-> base] \in [0 .. 0 -> S] /\ Iterates([i \in 0 .. 0 |-> base], 0, base, step)
    BY DEF Iterates
  <2>2. QED BY <2>1
<1>2. ASSUME NEW n \in 1 .. N, n - 1 \in T PROVE n \in T
  <2>1. PICK g \in [0 .. n - 1 -> S] : Iterates(g, n - 1, base, step) BY <1>2
  <2>2. n - 1 \in 0 .. n - 1 /\ 0 \in 0 .. n - 1 BY <1>2
  <2>3. step[n] \in [S -> S] /\ g[n - 1] \in S BY <2>1, <2>2
  <2>4. PICK h : h = [i \in 0 .. n |-> IF i = n THEN step[n][g[n - 1]] ELSE g[i]] OBVIOUS
  <2>5. h \in [0 .. n -> S]
    <3>1. ASSUME NEW i \in 0 .. n PROVE h[i] \in S
      <4>1. CASE i = n BY <2>3, <2>4, <4>1
      <4>2. CASE i # n
        <5>1. i \in 0 .. n - 1 BY <4>2
        <5>2. QED BY <2>1, <2>4, <4>2, <5>1
      <4>3. QED BY <4>1, <4>2
    <3>2. QED BY <2>4, <3>1
  <2>6. h[0] = base BY <2>1, <2>2, <2>4, <1>2 DEF Iterates
  <2>7. ASSUME NEW i \in 1 .. n PROVE h[i] = step[i][h[i - 1]]
    <3>1. i - 1 \in 0 .. n /\ i - 1 # n /\ i - 1 \in 0 .. n - 1 OBVIOUS
    <3>2. h[i - 1] = g[i - 1] BY <2>4, <3>1
    <3>3. CASE i = n BY <2>4, <3>2, <3>3
    <3>4. CASE i # n
      <4>1. i \in 1 .. n - 1 /\ i \in 0 .. n BY <3>4
      <4>2. g[i] = step[i][g[i - 1]] BY <2>1, <4>1 DEF Iterates
      <4>3. QED BY <2>4, <3>2, <3>4, <4>1, <4>2
    <3>5. QED BY <3>3, <3>4
  <2>8. QED BY <2>5, <2>6, <2>7, SMTT(40) DEF Iterates
<1>3. \A n \in 0 .. N : n \in T
  <2> HIDE DEF T
  <2> QED BY <1>1, <1>2, UpTo
<1>4. N \in 0 .. N OBVIOUS
<1>5. QED BY <1>3, <1>4

-----------------------------------------------------------------------------
(* What the log is made of, and what it tells.                             *)

EventTypes ==
  {"session.started", "turn.started", "budget.exceeded", "model.request.started", "model.request.completed",
   "model.request.failed", "tool.call", "tool.result", "tool.synthetic_result",
   "turn.completed", "turn.failed", "turn.cancelled"}
Events == [type : EventTypes, datum : Nat, seq : Nat]
Roles == {"user", "assistant", "tool", "control"}
Spoken == [role : Roles, calls : SUBSET Nat]
Tales == [ms : Seq(Spoken), pending : SUBSET Nat]
Outcomes == DOMAIN Ended
Nothing == [ms |-> << >>, pending |-> {}]

LEMMA SpeakIs ==
  ASSUME NEW ms \in Seq(Spoken), NEW role \in Roles, NEW calls \in SUBSET Nat
  PROVE  /\ Message(role, calls) \in Spoken /\ Speak(ms, role, calls) \in Seq(Spoken)
         /\ AnswerAll(ms, calls) \in Seq(Spoken)
<1>1. Message(role, calls) \in Spoken /\ Message("tool", calls) \in Spoken BY DEF Message, Spoken, Roles
<1>2. QED BY <1>1 DEF Speak, AnswerAll

LEMMA AddCallTyped ==
  ASSUME NEW ms \in Seq(Spoken), NEW c \in Nat
  PROVE  AddCall(ms, c) \in Seq(Spoken)
<1>1. CASE ms # << >> /\ Last(ms).role = "assistant"
  <2>1. Len(ms) \in 1 .. Len(ms) /\ ms[Len(ms)] \in Spoken BY <1>1
  <2>2. [ms[Len(ms)] EXCEPT !.calls = @ \cup {c}] \in Spoken BY <2>1 DEF Spoken
  <2>3. [ms EXCEPT ![Len(ms)].calls = @ \cup {c}] = [ms EXCEPT ![Len(ms)] = [ms[Len(ms)] EXCEPT !.calls = @ \cup {c}]]
    BY <2>1
  <2>4. [ms EXCEPT ![Len(ms)] = [ms[Len(ms)] EXCEPT !.calls = @ \cup {c}]] \in Seq(Spoken) BY <2>1, <2>2
  <2>5. QED BY <1>1, <2>3, <2>4 DEF AddCall
<1>2. CASE ~(ms # << >> /\ Last(ms).role = "assistant")
  <2>1. AddCall(ms, c) = Speak(ms, "assistant", {c}) BY <1>2 DEF AddCall
  <2>2. QED BY <2>1, SpeakIs DEF Roles
<1>3. QED BY <1>1, <1>2

LEMMA FlushTyped ==
  ASSUME NEW r \in Tales
  PROVE  Flush(r) \in Tales /\ Flush(r).ms = AnswerAll(r.ms, r.pending) /\ Flush(r).pending = {}
<1>1. r.ms \in Seq(Spoken) /\ r.pending \in SUBSET Nat BY DEF Tales
<1>2. AnswerAll(r.ms, r.pending) \in Seq(Spoken) BY <1>1, SpeakIs DEF Roles
<1>3. QED BY <1>2 DEF Flush, Tales

(* What each event does to the tale. *)
LEMMA RetoldIs ==
  ASSUME NEW r \in Tales, NEW e \in Events
  PROVE  /\ e.type = "turn.started" =>
              Retold(r, e) = [ms |-> Speak(AnswerAll(r.ms, r.pending), "user", {}), pending |-> {}]
         /\ e.type = "model.request.completed" =>
              Retold(r, e) = [ms |-> IF e.datum > 0 THEN Speak(AnswerAll(r.ms, r.pending), "assistant", {})
                                     ELSE AnswerAll(r.ms, r.pending),
                              pending |-> {}]
         /\ e.type = "tool.call" => Retold(r, e) = [ms |-> AddCall(r.ms, e.datum), pending |-> r.pending]
         /\ e.type \in {"tool.result", "tool.synthetic_result"} =>
              Retold(r, e) = [ms |-> r.ms, pending |-> r.pending \cup {e.datum}]
         /\ e.type \notin {"turn.started", "model.request.completed", "tool.call", "tool.result", "tool.synthetic_result"} =>
              Retold(r, e) = r
<1>1. r = [ms |-> r.ms, pending |-> r.pending] BY DEF Tales
<1>2. Flush(r) = [ms |-> AnswerAll(r.ms, r.pending), pending |-> {}] BY DEF Flush
<1>3. CASE e.type = "turn.started" BY <1>2, <1>3 DEF Retold
<1>4. CASE e.type = "model.request.completed" BY <1>2, <1>4 DEF Retold
<1>5. CASE e.type = "tool.call" BY <1>1, <1>5 DEF Retold
<1>6. CASE e.type \in {"tool.result", "tool.synthetic_result"} BY <1>1, <1>6 DEF Retold
<1>7. CASE e.type \notin {"turn.started", "model.request.completed", "tool.call", "tool.result", "tool.synthetic_result"}
  BY <1>7 DEF Retold
<1>8. QED BY <1>3, <1>4, <1>5, <1>6, <1>7

LEMMA RetoldTyped ==
  ASSUME NEW r \in Tales, NEW e \in Events
  PROVE  Retold(r, e) \in Tales
<1>1. r.ms \in Seq(Spoken) /\ r.pending \in SUBSET Nat /\ e.datum \in Nat BY DEF Tales, Events
<1>2. AnswerAll(r.ms, r.pending) \in Seq(Spoken) BY <1>1, SpeakIs DEF Roles
<1>3. /\ Speak(AnswerAll(r.ms, r.pending), "user", {}) \in Seq(Spoken)
      /\ Speak(AnswerAll(r.ms, r.pending), "assistant", {}) \in Seq(Spoken)
  BY <1>2, SpeakIs DEF Roles
<1>4. AddCall(r.ms, e.datum) \in Seq(Spoken) BY <1>1, AddCallTyped
<1>5. r.pending \cup {e.datum} \in SUBSET Nat BY <1>1
<1>6. \A ms \in Seq(Spoken), pending \in SUBSET Nat : [ms |-> ms, pending |-> pending] \in Tales BY DEF Tales
<1>7. QED BY <1>1, <1>2, <1>3, <1>4, <1>5, <1>6, RetoldIs

ToldBy(g, es) == g[0] = Nothing /\ \A n \in 1 .. Len(es) : g[n] = Retold(g[n - 1], es[n])

LEMMA ToldIs ==
  ASSUME NEW es \in Seq(Events)
  PROVE  \E g \in [0 .. Len(es) -> Tales] : ToldBy(g, es) /\ Told(es) = g[Len(es)]
<1> DEFINE Rec(g) == [n \in 0 .. Len(es) |->
                        IF n = 0 THEN [ms |-> << >>, pending |-> {}] ELSE Retold(g[n - 1], es[n])]
           told == CHOOSE g : g = Rec(g)
           step == [n \in 1 .. Len(es) |-> [r \in Tales |-> Retold(r, es[n])]]
<1>1. Len(es) \in Nat /\ \A n \in 1 .. Len(es) : es[n] \in Events OBVIOUS
<1>2. Nothing \in Tales BY DEF Nothing, Tales
<1>3. step \in [1 .. Len(es) -> [Tales -> Tales]] BY <1>1, RetoldTyped
<1>4. PICK g \in [0 .. Len(es) -> Tales] : Iterates(g, Len(es), Nothing, step)
  <2> HIDE DEF step
  <2> QED BY <1>1, <1>2, <1>3, IterationExists
<1>5. ASSUME NEW n \in 1 .. Len(es) PROVE g[n] = Retold(g[n - 1], es[n])
  <2>1. g[n - 1] \in Tales BY <1>1, <1>4
  <2>2. QED BY <1>4, <2>1 DEF Iterates
<1>6. ToldBy(g, es) BY <1>4, <1>5 DEF Iterates, ToldBy
<1>7. g = Rec(g)
  <2>1. ASSUME NEW n \in 0 .. Len(es) PROVE g[n] = Rec(g)[n]
    <3>1. CASE n = 0 BY <1>6, <3>1 DEF ToldBy, Nothing
    <3>2. CASE n # 0
      <4>1. n \in 1 .. Len(es) BY <1>1, <3>2
      <4>2. QED BY <1>5, <3>2, <4>1
    <3>3. QED BY <3>1, <3>2
  <2>2. QED BY <1>4, <2>1
<1>8. told = Rec(told) BY <1>7
<1>9. Told(es) = told[Len(es)] BY DEF Told
<1>10. told[0] = Nothing
  <2>1. 0 \in 0 .. Len(es) BY <1>1
  <2>2. Rec(told)[0] = Nothing BY <2>1 DEF Nothing
  <2>3. QED BY <1>8, <2>2
<1>11. ASSUME NEW n \in 1 .. Len(es) PROVE told[n] = Retold(told[n - 1], es[n])
  <2>1. n \in 0 .. Len(es) /\ n # 0 BY <1>1
  <2>2. QED BY <1>8, <2>1
<1>12. told[Len(es)] = g[Len(es)]
  <2> HIDE DEF told
  <2> DEFINE T == {n \in 0 .. Len(es) : told[n] = g[n]}
  <2>1. 0 \in T BY <1>1, <1>6, <1>10 DEF ToldBy
  <2>2. ASSUME NEW n \in 1 .. Len(es), n - 1 \in T PROVE n \in T BY <1>1, <1>5, <1>11, <2>2
  <2>3. \A n \in 0 .. Len(es) : n \in T
    <3> HIDE DEF T
    <3> QED BY <1>1, <2>1, <2>2, UpTo
  <2>4. QED BY <1>1, <2>3
<1>13. QED BY <1>6, <1>9, <1>12

LEMMA ToldOfMore ==
  ASSUME NEW es \in Seq(Events), NEW e \in Events
  PROVE  /\ Told(es) \in Tales /\ Told(<< >>) = Nothing
         /\ Told(Append(es, e)) = Retold(Told(es), e)
<1>1. PICK g \in [0 .. Len(es) -> Tales] : ToldBy(g, es) /\ Told(es) = g[Len(es)] BY ToldIs
<1>2. PICK more : more = Append(es, e) OBVIOUS
<1>3. more \in Seq(Events) /\ Len(more) = Len(es) + 1 /\ more[Len(more)] = e
      /\ \A n \in 1 .. Len(es) : more[n] = es[n]
  BY <1>2
<1>4. PICK h \in [0 .. Len(more) -> Tales] : ToldBy(h, more) /\ Told(more) = h[Len(more)] BY <1>3, ToldIs
<1>5. Len(es) \in Nat OBVIOUS
<1>6. h[Len(es)] = g[Len(es)]
  <2> DEFINE T == {n \in 0 .. Len(es) : h[n] = g[n]}
  <2>1. 0 \in T BY <1>1, <1>4, <1>5 DEF ToldBy
  <2>2. ASSUME NEW n \in 1 .. Len(es), n - 1 \in T PROVE n \in T
    <3>1. n \in 1 .. Len(more) /\ more[n] = es[n] BY <1>3, <1>5
    <3>2. h[n] = Retold(h[n - 1], es[n]) /\ g[n] = Retold(g[n - 1], es[n]) BY <1>1, <1>4, <3>1 DEF ToldBy
    <3>3. QED BY <1>5, <2>2, <3>2
  <2>3. \A n \in 0 .. Len(es) : n \in T
    <3> HIDE DEF T
    <3> QED BY <1>5, <2>1, <2>2, UpTo
  <2>4. QED BY <1>5, <2>3
<1>7. Len(more) \in 1 .. Len(more) /\ Len(more) - 1 = Len(es) BY <1>3, <1>5
<1>8. h[Len(more)] = Retold(h[Len(es)], e) BY <1>3, <1>4, <1>7 DEF ToldBy
<1>9. Told(<< >>) = Nothing
  <2>1. << >> \in Seq(Events) /\ Len(<< >>) = 0 OBVIOUS
  <2>2. QED BY <2>1, ToldIs DEF ToldBy
<1>10. g[Len(es)] \in Tales BY <1>1, <1>5
<1>11. QED BY <1>1, <1>2, <1>4, <1>6, <1>8, <1>9, <1>10

LEMMA ConcludedTyped ==
  ASSUME NEW r \in Seq(Outcomes), NEW e \in Events
  PROVE  Concluded(r, e) \in Seq(Outcomes)
<1>1. CASE \E s \in DOMAIN Ended : Ended[s] = e.type
  <2>1. (CHOOSE s \in DOMAIN Ended : Ended[s] = e.type) \in Outcomes BY <1>1 DEF Outcomes
  <2>2. QED BY <1>1, <2>1 DEF Concluded
<1>2. CASE ~\E s \in DOMAIN Ended : Ended[s] = e.type BY <1>2 DEF Concluded
<1>3. QED BY <1>1, <1>2

TurnsBy(g, es) == g[0] = << >> /\ \A n \in 1 .. Len(es) : g[n] = Concluded(g[n - 1], es[n])

LEMMA TurnsIs ==
  ASSUME NEW es \in Seq(Events)
  PROVE  \E g \in [0 .. Len(es) -> Seq(Outcomes)] : TurnsBy(g, es) /\ Turns(es) = g[Len(es)]
<1> DEFINE Rec(g) == [n \in 0 .. Len(es) |->
                        IF n = 0 THEN << >> ELSE Concluded(g[n - 1], es[n])]
           concluded == CHOOSE g : g = Rec(g)
           step == [n \in 1 .. Len(es) |-> [r \in Seq(Outcomes) |-> Concluded(r, es[n])]]
<1>1. Len(es) \in Nat /\ \A n \in 1 .. Len(es) : es[n] \in Events OBVIOUS
<1>2. << >> \in Seq(Outcomes) OBVIOUS
<1>3. step \in [1 .. Len(es) -> [Seq(Outcomes) -> Seq(Outcomes)]] BY <1>1, ConcludedTyped
<1>4. PICK g \in [0 .. Len(es) -> Seq(Outcomes)] : Iterates(g, Len(es), << >>, step)
  <2> HIDE DEF step
  <2> QED BY <1>1, <1>2, <1>3, IterationExists
<1>5. ASSUME NEW n \in 1 .. Len(es) PROVE g[n] = Concluded(g[n - 1], es[n])
  <2>1. g[n - 1] \in Seq(Outcomes) BY <1>1, <1>4
  <2>2. QED BY <1>4, <2>1 DEF Iterates
<1>6. TurnsBy(g, es) BY <1>4, <1>5 DEF Iterates, TurnsBy
<1>7. g = Rec(g)
  <2>1. ASSUME NEW n \in 0 .. Len(es) PROVE g[n] = Rec(g)[n]
    <3>1. CASE n = 0 BY <1>6, <3>1 DEF TurnsBy
    <3>2. CASE n # 0
      <4>1. n \in 1 .. Len(es) BY <1>1, <3>2
      <4>2. QED BY <1>5, <3>2, <4>1
    <3>3. QED BY <3>1, <3>2
  <2>2. QED BY <1>4, <2>1
<1>8. concluded = Rec(concluded) BY <1>7
<1>9. Turns(es) = concluded[Len(es)] BY DEF Turns
<1>10. concluded[0] = << >>
  <2>1. 0 \in 0 .. Len(es) BY <1>1
  <2>2. Rec(concluded)[0] = << >> BY <2>1
  <2>3. QED BY <1>8, <2>2
<1>11. ASSUME NEW n \in 1 .. Len(es) PROVE concluded[n] = Concluded(concluded[n - 1], es[n])
  <2>1. n \in 0 .. Len(es) /\ n # 0 BY <1>1
  <2>2. QED BY <1>8, <2>1
<1>12. concluded[Len(es)] = g[Len(es)]
  <2> HIDE DEF concluded
  <2> DEFINE T == {n \in 0 .. Len(es) : concluded[n] = g[n]}
  <2>1. 0 \in T BY <1>1, <1>6, <1>10 DEF TurnsBy
  <2>2. ASSUME NEW n \in 1 .. Len(es), n - 1 \in T PROVE n \in T BY <1>1, <1>5, <1>11, <2>2
  <2>3. \A n \in 0 .. Len(es) : n \in T
    <3> HIDE DEF T
    <3> QED BY <1>1, <2>1, <2>2, UpTo
  <2>4. QED BY <1>1, <2>3
<1>13. QED BY <1>6, <1>9, <1>12

LEMMA TurnsOfMore ==
  ASSUME NEW es \in Seq(Events), NEW e \in Events
  PROVE  /\ Turns(es) \in Seq(Outcomes) /\ Turns(<< >>) = << >>
         /\ Turns(Append(es, e)) = Concluded(Turns(es), e)
<1>1. PICK g \in [0 .. Len(es) -> Seq(Outcomes)] : TurnsBy(g, es) /\ Turns(es) = g[Len(es)] BY TurnsIs
<1>2. PICK more : more = Append(es, e) OBVIOUS
<1>3. more \in Seq(Events) /\ Len(more) = Len(es) + 1 /\ more[Len(more)] = e
      /\ \A n \in 1 .. Len(es) : more[n] = es[n]
  BY <1>2
<1>4. PICK h \in [0 .. Len(more) -> Seq(Outcomes)] : TurnsBy(h, more) /\ Turns(more) = h[Len(more)] BY <1>3, TurnsIs
<1>5. Len(es) \in Nat OBVIOUS
<1>6. h[Len(es)] = g[Len(es)]
  <2> DEFINE T == {n \in 0 .. Len(es) : h[n] = g[n]}
  <2>1. 0 \in T BY <1>1, <1>4, <1>5 DEF TurnsBy
  <2>2. ASSUME NEW n \in 1 .. Len(es), n - 1 \in T PROVE n \in T
    <3>1. n \in 1 .. Len(more) /\ more[n] = es[n] BY <1>3, <1>5
    <3>2. h[n] = Concluded(h[n - 1], es[n]) /\ g[n] = Concluded(g[n - 1], es[n]) BY <1>1, <1>4, <3>1 DEF TurnsBy
    <3>3. QED BY <1>5, <2>2, <3>2
  <2>3. \A n \in 0 .. Len(es) : n \in T
    <3> HIDE DEF T
    <3> QED BY <1>5, <2>1, <2>2, UpTo
  <2>4. QED BY <1>5, <2>3
<1>7. Len(more) \in 1 .. Len(more) /\ Len(more) - 1 = Len(es) BY <1>3, <1>5
<1>8. h[Len(more)] = Concluded(h[Len(es)], e) BY <1>3, <1>4, <1>7 DEF TurnsBy
<1>9. Turns(<< >>) = << >>
  <2>1. << >> \in Seq(Events) /\ Len(<< >>) = 0 OBVIOUS
  <2>2. QED BY <2>1, TurnsIs DEF TurnsBy
<1>10. g[Len(es)] \in Seq(Outcomes) BY <1>1, <1>5
<1>11. QED BY <1>1, <1>2, <1>4, <1>6, <1>8, <1>9, <1>10

LEMMA ExchangedTyped ==
  ASSUME NEW r \in Seq(Spoken), NEW e \in Spoken
  PROVE  Exchanged(r, e) \in Seq(Spoken)
BY DEF Exchanged

ExchangesBy(g, es) == g[0] = << >> /\ \A n \in 1 .. Len(es) : g[n] = Exchanged(g[n - 1], es[n])

LEMMA ExchangesIs ==
  ASSUME NEW es \in Seq(Spoken)
  PROVE  \E g \in [0 .. Len(es) -> Seq(Spoken)] : ExchangesBy(g, es) /\ Exchanges(es) = g[Len(es)]
<1> DEFINE Rec(g) == [n \in 0 .. Len(es) |->
                        IF n = 0 THEN << >> ELSE Exchanged(g[n - 1], es[n])]
           exchanged == CHOOSE g : g = Rec(g)
           step == [n \in 1 .. Len(es) |-> [r \in Seq(Spoken) |-> Exchanged(r, es[n])]]
<1>1. Len(es) \in Nat /\ \A n \in 1 .. Len(es) : es[n] \in Spoken OBVIOUS
<1>2. << >> \in Seq(Spoken) OBVIOUS
<1>3. step \in [1 .. Len(es) -> [Seq(Spoken) -> Seq(Spoken)]] BY <1>1, ExchangedTyped
<1>4. PICK g \in [0 .. Len(es) -> Seq(Spoken)] : Iterates(g, Len(es), << >>, step)
  <2> HIDE DEF step
  <2> QED BY <1>1, <1>2, <1>3, IterationExists
<1>5. ASSUME NEW n \in 1 .. Len(es) PROVE g[n] = Exchanged(g[n - 1], es[n])
  <2>1. g[n - 1] \in Seq(Spoken) BY <1>1, <1>4
  <2>2. QED BY <1>4, <2>1 DEF Iterates
<1>6. ExchangesBy(g, es) BY <1>4, <1>5 DEF Iterates, ExchangesBy
<1>7. g = Rec(g)
  <2>1. ASSUME NEW n \in 0 .. Len(es) PROVE g[n] = Rec(g)[n]
    <3>1. CASE n = 0 BY <1>6, <3>1 DEF ExchangesBy
    <3>2. CASE n # 0
      <4>1. n \in 1 .. Len(es) BY <1>1, <3>2
      <4>2. QED BY <1>5, <3>2, <4>1
    <3>3. QED BY <3>1, <3>2
  <2>2. QED BY <1>4, <2>1
<1>8. exchanged = Rec(exchanged) BY <1>7
<1>9. Exchanges(es) = exchanged[Len(es)] BY DEF Exchanges
<1>10. exchanged[0] = << >>
  <2>1. 0 \in 0 .. Len(es) BY <1>1
  <2>2. Rec(exchanged)[0] = << >> BY <2>1
  <2>3. QED BY <1>8, <2>2
<1>11. ASSUME NEW n \in 1 .. Len(es) PROVE exchanged[n] = Exchanged(exchanged[n - 1], es[n])
  <2>1. n \in 0 .. Len(es) /\ n # 0 BY <1>1
  <2>2. QED BY <1>8, <2>1
<1>12. exchanged[Len(es)] = g[Len(es)]
  <2> HIDE DEF exchanged
  <2> DEFINE T == {n \in 0 .. Len(es) : exchanged[n] = g[n]}
  <2>1. 0 \in T BY <1>1, <1>6, <1>10 DEF ExchangesBy
  <2>2. ASSUME NEW n \in 1 .. Len(es), n - 1 \in T PROVE n \in T BY <1>1, <1>5, <1>11, <2>2
  <2>3. \A n \in 0 .. Len(es) : n \in T
    <3> HIDE DEF T
    <3> QED BY <1>1, <2>1, <2>2, UpTo
  <2>4. QED BY <1>1, <2>3
<1>13. QED BY <1>6, <1>9, <1>12

LEMMA ExchangesOfMore ==
  ASSUME NEW es \in Seq(Spoken), NEW e \in Spoken
  PROVE  /\ Exchanges(es) \in Seq(Spoken) /\ Exchanges(<< >>) = << >>
         /\ Exchanges(Append(es, e)) = Exchanged(Exchanges(es), e)
<1>1. PICK g \in [0 .. Len(es) -> Seq(Spoken)] : ExchangesBy(g, es) /\ Exchanges(es) = g[Len(es)] BY ExchangesIs
<1>2. PICK more : more = Append(es, e) OBVIOUS
<1>3. more \in Seq(Spoken) /\ Len(more) = Len(es) + 1 /\ more[Len(more)] = e
      /\ \A n \in 1 .. Len(es) : more[n] = es[n]
  BY <1>2
<1>4. PICK h \in [0 .. Len(more) -> Seq(Spoken)] : ExchangesBy(h, more) /\ Exchanges(more) = h[Len(more)] BY <1>3, ExchangesIs
<1>5. Len(es) \in Nat OBVIOUS
<1>6. h[Len(es)] = g[Len(es)]
  <2> DEFINE T == {n \in 0 .. Len(es) : h[n] = g[n]}
  <2>1. 0 \in T BY <1>1, <1>4, <1>5 DEF ExchangesBy
  <2>2. ASSUME NEW n \in 1 .. Len(es), n - 1 \in T PROVE n \in T
    <3>1. n \in 1 .. Len(more) /\ more[n] = es[n] BY <1>3, <1>5
    <3>2. h[n] = Exchanged(h[n - 1], es[n]) /\ g[n] = Exchanged(g[n - 1], es[n]) BY <1>1, <1>4, <3>1 DEF ExchangesBy
    <3>3. QED BY <1>5, <2>2, <3>2
  <2>3. \A n \in 0 .. Len(es) : n \in T
    <3> HIDE DEF T
    <3> QED BY <1>5, <2>1, <2>2, UpTo
  <2>4. QED BY <1>5, <2>3
<1>7. Len(more) \in 1 .. Len(more) /\ Len(more) - 1 = Len(es) BY <1>3, <1>5
<1>8. h[Len(more)] = Exchanged(h[Len(es)], e) BY <1>3, <1>4, <1>7 DEF ExchangesBy
<1>9. Exchanges(<< >>) = << >>
  <2>1. << >> \in Seq(Spoken) /\ Len(<< >>) = 0 OBVIOUS
  <2>2. QED BY <2>1, ExchangesIs DEF ExchangesBy
<1>10. g[Len(es)] \in Seq(Spoken) BY <1>1, <1>5
<1>11. QED BY <1>1, <1>2, <1>4, <1>6, <1>8, <1>9, <1>10

-----------------------------------------------------------------------------
(* The file.                                                               *)

Lines == [event : Events, state : LineStates]

LEMMA LegibleIs ==
  ASSUME NEW f \in Seq(Lines)
  PROVE  /\ Legible(f) \in 0 .. Len(f)
         /\ \A i \in 1 .. Legible(f) : Parses(f[i])
         /\ Unbroken(f) => Legible(f) = Len(f)
<1> DEFINE Reads(n) == /\ \A i \in 1 .. n : Parses(f[i])
                       /\ n < Len(f) => ~Parses(f[n + 1])
           Bad == {i \in 1 .. Len(f) : ~Parses(f[i])}
<1>1. Len(f) \in Nat OBVIOUS
<1>2. \E n \in 0 .. Len(f) : Reads(n)
  <2>1. CASE Bad = {} BY <1>1, <2>1
  <2>2. CASE Bad # {}
    <3>1. PICK i \in Bad : \A j \in Bad : i <= j
      <4>1. Bad \subseteq Nat OBVIOUS
      <4> HIDE DEF Bad
      <4>2. QED BY <2>2, <4>1, LeastOf
    <3>2. i \in 1 .. Len(f) /\ ~Parses(f[i]) BY <3>1
    <3>3. i - 1 \in 0 .. Len(f) /\ (i - 1) + 1 = i BY <1>1, <3>2
    <3>4. ASSUME NEW j \in 1 .. i - 1 PROVE Parses(f[j])
      <4>1. j \in 1 .. Len(f) /\ ~(i <= j) BY <1>1, <3>2
      <4>2. QED BY <3>1, <4>1
    <3>5. Reads(i - 1) BY <3>2, <3>3, <3>4
    <3>6. QED BY <3>3, <3>5
  <2>3. QED BY <2>1, <2>2
<1>3. Legible(f) = CHOOSE n \in 0 .. Len(f) : Reads(n) BY DEF Legible
<1>4. Legible(f) \in 0 .. Len(f) /\ Reads(Legible(f))
  <2> HIDE DEF Reads
  <2> QED BY <1>2, <1>3
<1>5. ASSUME Unbroken(f) PROVE Legible(f) = Len(f)
  <2>1. ASSUME Legible(f) < Len(f) PROVE FALSE
    <3>1. Legible(f) + 1 \in 1 .. Len(f) BY <1>1, <1>4, <2>1
    <3>2. QED BY <1>4, <1>5, <2>1, <3>1 DEF Unbroken
  <2>2. QED BY <1>1, <1>4, <2>1
<1>6. QED BY <1>4, <1>5

LEMMA ReadBackIs ==
  ASSUME NEW f \in Seq(Lines)
  PROVE  /\ ReadBack(f) \in Seq(Events) /\ Len(ReadBack(f)) = Legible(f)
         /\ \A i \in 1 .. Legible(f) : ReadBack(f)[i] = f[i].event
         /\ Unbroken(f) => Len(ReadBack(f)) = Len(f)
<1>1. Legible(f) \in Nat /\ Len(f) \in Nat /\ Legible(f) <= Len(f) BY LegibleIs
<1>2. ASSUME NEW i \in 1 .. Legible(f) PROVE f[i].event \in Events
  <2>1. i \in 1 .. Len(f) BY <1>1
  <2>2. f[i] \in Lines BY <2>1
  <2>3. QED BY <2>2 DEF Lines
<1>3. ReadBack(f) = [i \in 1 .. Legible(f) |-> f[i].event] BY DEF ReadBack
<1>4. ReadBack(f) \in [1 .. Legible(f) -> Events] BY <1>2, <1>3
<1>5. ReadBack(f) \in Seq(Events) /\ Len(ReadBack(f)) = Legible(f) BY <1>1, <1>4, LenProperties
<1>6. QED BY <1>3, <1>5, LegibleIs

LEMMA SetLastIs ==
  ASSUME NEW f \in Seq(Lines), f # << >>, NEW s \in LineStates
  PROVE  /\ SetLast(f, s) \in Seq(Lines) /\ Len(SetLast(f, s)) = Len(f)
         /\ \A i \in 1 .. Len(f) : SetLast(f, s)[i].event = f[i].event
         /\ \A i \in 1 .. Len(f) : SetLast(f, s)[i].state = IF i = Len(f) THEN s ELSE f[i].state
<1>1. Len(f) \in Nat /\ Len(f) \in 1 .. Len(f) /\ f[Len(f)] \in Lines BY EmptySeq
<1>2. [f[Len(f)] EXCEPT !.state = s] \in Lines BY <1>1 DEF Lines
<1>3. SetLast(f, s) = [f EXCEPT ![Len(f)] = [f[Len(f)] EXCEPT !.state = s]] BY <1>1 DEF SetLast
<1>4. [f EXCEPT ![Len(f)] = [f[Len(f)] EXCEPT !.state = s]] \in Seq(Lines) BY <1>1, <1>2
<1>5. Len(SetLast(f, s)) = Len(f) BY <1>1, <1>2, <1>3
<1>6. ASSUME NEW i \in 1 .. Len(f)
      PROVE  SetLast(f, s)[i].event = f[i].event /\ SetLast(f, s)[i].state = IF i = Len(f) THEN s ELSE f[i].state
  <2>1. SetLast(f, s)[i] = IF i = Len(f) THEN [f[Len(f)] EXCEPT !.state = s] ELSE f[i] BY <1>3
  <2>2. QED BY <1>1, <2>1 DEF Lines
<1>7. QED BY <1>3, <1>4, <1>5, <1>6

(* An append to a file that stays legible has made its event the last. *)
LEMMA AppendedIs ==
  ASSUME NEW f \in Seq(Lines), NEW e \in Events
  PROVE  /\ Appended(f, e) \in Seq(Lines) /\ Appended(f, e) # << >>
         /\ \A i \in 1 .. Len(Appended(f, e)) :
              Appended(f, e)[i].event \in {e} \cup {f[j].event : j \in 1 .. Len(f)}
         /\ Unbroken(Appended(f, e)) =>
              Unbroken(f) /\ ReadBack(Appended(f, e)) = Append(ReadBack(f), e)
<1>1. PICK g : g = Appended(f, e) OBVIOUS
<1>2. ASSUME LastState(f) \in {"unended", "torn"}
      PROVE  /\ g \in Seq(Lines) /\ g # << >> /\ ~Unbroken(g)
             /\ \A i \in 1 .. Len(g) : g[i].event \in {f[j].event : j \in 1 .. Len(f)}
  <2>1. f # << >> BY <1>2 DEF LastState
  <2>2. PICK s \in {"glued", "lost"} : g = SetLast(f, s) BY <1>1, <1>2 DEF Appended
  <2>3. s \in LineStates BY DEF LineStates
  <2>4. Len(f) \in 1 .. Len(f) BY <2>1, EmptySeq
  <2>5. g \in Seq(Lines) /\ Len(g) = Len(f) /\ g[Len(f)].state = s /\ \A i \in 1 .. Len(f) : g[i].event = f[i].event
    BY <2>1, <2>2, <2>3, <2>4, SetLastIs
  <2>6. ~Parses(g[Len(f)]) BY <2>5 DEF Parses
  <2>7. ~Unbroken(g) BY <2>4, <2>5, <2>6 DEF Unbroken
  <2>8. QED BY <2>4, <2>5, <2>7, EmptySeq
<1>3. ASSUME LastState(f) \notin {"unended", "torn"}
      PROVE  /\ g \in Seq(Lines) /\ g # << >> /\ Len(g) = Len(f) + 1
             /\ g[Len(f) + 1] = Line(e, "whole") /\ \A i \in 1 .. Len(f) : g[i] = f[i]
  <2>1. g = Append(f, Line(e, "whole")) BY <1>1, <1>3 DEF Appended
  <2>2. Line(e, "whole") \in Lines BY DEF Line, Lines, LineStates
  <2>3. QED BY <2>1, <2>2
<1>4. ASSUME Unbroken(g) PROVE Unbroken(f) /\ ReadBack(g) = Append(ReadBack(f), e)
  <2>1. LastState(f) \notin {"unended", "torn"} BY <1>2, <1>4
  <2>2. Len(f) \in Nat OBVIOUS
  <2>3. Unbroken(f)
    <3>1. ASSUME NEW i \in 1 .. Len(f) PROVE Parses(f[i])
      <4>1. i \in 1 .. Len(g) BY <1>3, <2>1, <2>2
      <4>2. QED BY <1>3, <1>4, <2>1, <4>1 DEF Unbroken
    <3>2. QED BY <3>1 DEF Unbroken
  <2>4. /\ Len(ReadBack(f)) = Len(f) /\ ReadBack(f) \in Seq(Events)
        /\ \A i \in 1 .. Len(f) : ReadBack(f)[i] = f[i].event
    BY <2>3, ReadBackIs
  <2>5. /\ Len(ReadBack(g)) = Len(f) + 1 /\ ReadBack(g) \in Seq(Events)
        /\ \A i \in 1 .. Len(f) + 1 : ReadBack(g)[i] = g[i].event
    BY <1>3, <1>4, <2>1, ReadBackIs
  <2>6. ASSUME NEW i \in 1 .. Len(f) + 1 PROVE ReadBack(g)[i] = Append(ReadBack(f), e)[i]
    <3>1. CASE i = Len(f) + 1
      <4>1. g[i].event = e BY <1>3, <2>1, <3>1 DEF Line
      <4>2. QED BY <2>2, <2>4, <2>5, <3>1, <4>1
    <3>2. CASE i # Len(f) + 1
      <4>1. i \in 1 .. Len(f) BY <2>2, <3>2
      <4>2. QED BY <1>3, <2>1, <2>4, <2>5, <4>1
    <3>3. QED BY <3>1, <3>2
  <2>7. Append(ReadBack(f), e) \in Seq(Events) /\ Len(Append(ReadBack(f), e)) = Len(f) + 1 BY <2>4
  <2>8. QED BY <2>3, <2>5, <2>6, <2>7, SeqEqual
<1>5. \A i \in 1 .. Len(g) : g[i].event \in {e} \cup {f[j].event : j \in 1 .. Len(f)}
  <2>1. CASE LastState(f) \in {"unended", "torn"} BY <1>2, <2>1
  <2>2. CASE LastState(f) \notin {"unended", "torn"}
    <3>1. ASSUME NEW i \in 1 .. Len(g) PROVE g[i].event \in {e} \cup {f[j].event : j \in 1 .. Len(f)}
      <4>1. CASE i = Len(f) + 1 BY <1>3, <2>2, <4>1 DEF Line
      <4>2. CASE i # Len(f) + 1
        <5>1. i \in 1 .. Len(f) BY <1>3, <2>2, <4>2
        <5>2. QED BY <1>3, <2>2, <5>1
      <4>3. QED BY <4>1, <4>2
    <3>2. QED BY <3>1
  <2>3. QED BY <2>1, <2>2
<1>6. g \in Seq(Lines) /\ g # << >> BY <1>2, <1>3
<1>7. QED BY <1>1, <1>4, <1>5, <1>6

(* A kill leaves no event that was not there. *)
LEMMA CutShortIs ==
  ASSUME NEW f \in Seq(Lines), f # << >>, NEW g \in CutShort(f)
  PROVE  /\ g \in Seq(Lines)
         /\ \A i \in 1 .. Len(g) : g[i].event \in {f[j].event : j \in 1 .. Len(f)}
<1>1. Len(f) \in Nat /\ Len(f) \in 1 .. Len(f) BY EmptySeq
<1>2. \/ g = f
      \/ \E s \in LineStates : g = SetLast(f, s)
      \/ g = SubSeq(f, 1, Len(f) - 1)
  BY DEF CutShort, LineStates
<1>3. CASE g = f BY <1>3
<1>4. CASE \E s \in LineStates : g = SetLast(f, s) BY <1>4, SetLastIs
<1>5. CASE g = SubSeq(f, 1, Len(f) - 1)
  <2>1. \A i \in 1 .. Len(f) - 1 : f[i] \in Lines BY <1>1
  <2>2. PICK n \in Nat : n = Len(f) - 1 BY <1>1
  <2>3. /\ SubSeq(f, 1, n) \in Seq(Lines) /\ Len(SubSeq(f, 1, n)) = IF 1 <= n THEN n - 1 + 1 ELSE 0
        /\ \A i \in 1 .. n - 1 + 1 : SubSeq(f, 1, n)[i] = f[1 + i - 1]
    <3>1. 1 \in Int /\ n \in Int /\ \A i \in 1 .. n : f[i] \in Lines BY <2>1, <2>2
    <3>2. QED BY <3>1, SubSeqProperties
  <2>4. Len(g) = n /\ \A i \in 1 .. n : g[i] = f[i] BY <1>5, <2>2, <2>3
  <2>5. QED BY <1>1, <1>5, <2>2, <2>3, <2>4
<1>6. QED BY <1>2, <1>3, <1>4, <1>5

-----------------------------------------------------------------------------
(* One event more.                                                         *)

CallEvents == {"tool.call"}
ResultEvents == {"tool.result", "tool.synthetic_result"}
EndEvents == {"turn.completed", "turn.failed", "turn.cancelled"}

LEMMA OfTypeOfMore ==
  ASSUME NEW es \in Seq(Events), NEW e \in Events, NEW types
  PROVE  /\ OfType(es, types) \subseteq Nat
         /\ OfType(Append(es, e), types) = OfType(es, types) \cup (IF e.type \in types THEN {e.datum} ELSE {})
<1>1. Len(es) \in Nat /\ Len(Append(es, e)) = Len(es) + 1 OBVIOUS
<1>2. \A i \in 1 .. Len(es) + 1 : Append(es, e)[i] = IF i = Len(es) + 1 THEN e ELSE es[i] BY <1>1
<1>3. \A d : d \in OfType(es, types) <=> \E i \in 1 .. Len(es) : es[i].type \in types /\ d = es[i].datum
  BY DEF OfType
<1>4. \A d : d \in OfType(Append(es, e), types) <=>
        \E i \in 1 .. Len(es) + 1 : Append(es, e)[i].type \in types /\ d = Append(es, e)[i].datum
  BY <1>1 DEF OfType
<1>5. ASSUME NEW d
      PROVE  d \in OfType(Append(es, e), types) <=> d \in OfType(es, types) \/ (e.type \in types /\ d = e.datum)
  <2>1. ASSUME d \in OfType(Append(es, e), types) PROVE d \in OfType(es, types) \/ (e.type \in types /\ d = e.datum)
    <3>1. PICK i \in 1 .. Len(es) + 1 : Append(es, e)[i].type \in types /\ d = Append(es, e)[i].datum BY <1>4, <2>1
    <3>2. CASE i = Len(es) + 1 BY <1>2, <3>1, <3>2
    <3>3. CASE i # Len(es) + 1
      <4>1. i \in 1 .. Len(es) BY <1>1, <3>3
      <4>2. QED BY <1>2, <1>3, <3>1, <3>3, <4>1
    <3>4. QED BY <3>2, <3>3
  <2>2. ASSUME d \in OfType(es, types) PROVE d \in OfType(Append(es, e), types)
    <3>1. PICK i \in 1 .. Len(es) : es[i].type \in types /\ d = es[i].datum BY <1>3, <2>2
    <3>2. i \in 1 .. Len(es) + 1 /\ i # Len(es) + 1 BY <1>1
    <3>3. QED BY <1>2, <1>4, <3>1, <3>2
  <2>3. ASSUME e.type \in types, d = e.datum PROVE d \in OfType(Append(es, e), types)
    <3>1. Len(es) + 1 \in 1 .. Len(es) + 1 BY <1>1
    <3>2. QED BY <1>2, <1>4, <2>3, <3>1
  <2>4. QED BY <2>1, <2>2, <2>3
<1>6. OfType(es, types) \subseteq Nat
  <2>1. ASSUME NEW i \in 1 .. Len(es) PROVE es[i].datum \in Nat
    <3>1. es[i] \in Events OBVIOUS
    <3>2. QED BY <3>1 DEF Events
  <2>2. QED BY <1>3, <2>1
<1>7. QED BY <1>5, <1>6

LEMMA OutcomesAre ==
  /\ Outcomes = {"completed", "failed", "cancelled"} /\ Ended["completed"] = "turn.completed"
  /\ Ended["failed"] = "turn.failed" /\ Ended["cancelled"] = "turn.cancelled"
BY DEF Outcomes, Ended

(* What an event says of calls, of results and of turns. *)
LEMMA OneMore ==
  ASSUME NEW es \in Seq(Events), NEW e \in Events
  PROVE  /\ Calls(es) \subseteq Nat /\ Results(es) \subseteq Nat
         /\ e.type = "tool.call" => Calls(Append(es, e)) = Calls(es) \cup {e.datum}
         /\ e.type # "tool.call" => Calls(Append(es, e)) = Calls(es)
         /\ e.type \in ResultEvents => Results(Append(es, e)) = Results(es) \cup {e.datum}
         /\ e.type \notin ResultEvents => Results(Append(es, e)) = Results(es)
         /\ e.type \notin EndEvents => Turns(Append(es, e)) = Turns(es)
         /\ \A s \in Outcomes : e.type = Ended[s] => Turns(Append(es, e)) = Append(Turns(es), s)
<1>1. /\ Calls(es) \subseteq Nat /\ Calls(Append(es, e)) = Calls(es) \cup (IF e.type \in {"tool.call"} THEN {e.datum} ELSE {})
  BY OfTypeOfMore DEF Calls
<1>2. /\ Results(es) \subseteq Nat
      /\ Results(Append(es, e)) = Results(es) \cup (IF e.type \in ResultEvents THEN {e.datum} ELSE {})
  BY OfTypeOfMore DEF Results, ResultEvents
<1>3. Turns(Append(es, e)) = Concluded(Turns(es), e) BY TurnsOfMore
<1>4. /\ Outcomes = {"completed", "failed", "cancelled"} /\ Ended["completed"] = "turn.completed"
      /\ Ended["failed"] = "turn.failed" /\ Ended["cancelled"] = "turn.cancelled"
  BY OutcomesAre
<1>5. e.type \notin EndEvents => Concluded(Turns(es), e) = Turns(es)
  BY <1>4 DEF Concluded, EndEvents, Outcomes
<1>6. ASSUME NEW s \in Outcomes, e.type = Ended[s] PROVE Concluded(Turns(es), e) = Append(Turns(es), s)
  <2>1. \A t \in Outcomes : Ended[t] = e.type <=> t = s BY <1>4, <1>6
  <2>2. (CHOOSE t \in DOMAIN Ended : Ended[t] = e.type) = s BY <1>6, <2>1 DEF Outcomes
  <2>3. QED BY <1>6, <2>2 DEF Concluded, Outcomes
<1>7. QED BY <1>1, <1>2, <1>3, <1>5, <1>6

-----------------------------------------------------------------------------
(* What the state is made of.                                              *)

Batching == {"issuing", "answering"}

Made ==
  /\ file \in Seq(Lines) /\ seq \in Nat /\ snapshot \in Nat /\ requests \in Nat
  /\ ending \in Outcomes \cup {"none"}
  /\ messages \in Seq(Spoken) /\ turns \in Seq(Outcomes)
  /\ lo \in Nat \ {0} /\ hi \in Nat /\ pos \in Nat /\ lo <= pos /\ pos <= hi + 1
  /\ issued \subseteq 1 .. hi /\ answered \subseteq 1 .. hi /\ owed \subseteq 1 .. hi

Placed ==
  /\ at \in Places
  /\ at = "responded" => pos = lo
  /\ at \in Batching => lo < pos
  /\ at \in {"closing", "settling", "ended", "persisting"} => ending # "none"
  /\ at \in Writing => file # << >>

Kept == Made /\ Placed

(* Ids are never given twice, and no log names one that was not given. *)
Numbered ==
  \A i \in 1 .. Len(file) :
    file[i].event.type \in CallEvents \cup ResultEvents => file[i].event.datum \in 1 .. hi

LEMMA EventIs ==
  ASSUME NEW type \in EventTypes, NEW datum \in Nat, NEW n \in Nat
  PROVE  /\ Event(type, datum, n) \in Events
         /\ Event(type, datum, n).type = type /\ Event(type, datum, n).datum = datum
BY DEF Event, Events

LEMMA WriteIs ==
  ASSUME file \in Seq(Lines), seq \in Nat, NEW type \in EventTypes, NEW datum \in Nat, Write(type, datum)
  PROVE  /\ file' \in Seq(Lines) /\ file' # << >> /\ seq' \in Nat
         /\ Event(type, datum, seq + 1) \in Events
         /\ \A i \in 1 .. Len(file') :
              \/ file'[i].event = Event(type, datum, seq + 1)
              \/ \E j \in 1 .. Len(file) : file'[i].event = file[j].event
         /\ Unbroken(file') =>
              Unbroken(file) /\ ReadBack(file') = Append(ReadBack(file), Event(type, datum, seq + 1))
<1>1. Event(type, datum, seq + 1) \in Events BY EventIs
<1>2. file' = Appended(file, Event(type, datum, seq + 1)) /\ seq' = seq + 1 BY DEF Write
<1>3. PICK e \in Events : e = Event(type, datum, seq + 1) BY <1>1
<1>4. /\ file' \in Seq(Lines) /\ file' # << >>
      /\ \A i \in 1 .. Len(file') : file'[i].event \in {e} \cup {file[j].event : j \in 1 .. Len(file)}
      /\ Unbroken(file') => Unbroken(file) /\ ReadBack(file') = Append(ReadBack(file), e)
  BY <1>2, <1>3, AppendedIs, Zenon
<1>5. seq' \in Nat BY <1>2
<1>6. QED BY <1>1, <1>3, <1>4, <1>5

LEMMA RebuiltTyped ==
  ASSUME NEW es \in Seq(Events)
  PROVE  Rebuilt(es) \in Seq(Spoken)
<1>1. Told(es) \in Tales /\ Calls(es) \subseteq Nat
  <2>1. "turn.started" \in EventTypes /\ 0 \in Nat BY DEF EventTypes
  <2>2. Event("turn.started", 0, 0) \in Events BY <2>1, EventIs
  <2>3. QED BY <2>2, ToldOfMore, OneMore
<1>2. Flush(Told(es)).ms \in Seq(Spoken) BY <1>1, FlushTyped DEF Tales
<1>3. Calls(es) \ Results(es) \in SUBSET Nat BY <1>1
<1>4. QED BY <1>2, <1>3, SpeakIs DEF Rebuilt, Roles

LEMMA Written ==
  ASSUME Kept, Numbered, NEW type \in EventTypes, NEW datum \in Nat, Write(type, datum),
         hi' \in Nat, hi <= hi', type \in CallEvents \cup ResultEvents => datum \in 1 .. hi'
  PROVE  file' \in Seq(Lines) /\ file' # << >> /\ seq' \in Nat /\ Numbered'
<1>1. file \in Seq(Lines) /\ seq \in Nat /\ hi \in Nat BY DEF Kept, Made
<1>2. /\ file' \in Seq(Lines) /\ file' # << >> /\ seq' \in Nat
      /\ \A i \in 1 .. Len(file') :
           \/ file'[i].event = Event(type, datum, seq + 1)
           \/ \E j \in 1 .. Len(file) : file'[i].event = file[j].event
  BY <1>1, WriteIs
<1>3. Event(type, datum, seq + 1).type = type /\ Event(type, datum, seq + 1).datum = datum BY DEF Event
<1>4. \A d \in 1 .. hi : d \in 1 .. hi' BY <1>1
<1>5. QED BY <1>2, <1>3, <1>4 DEF Numbered

LEMMA KeptWithoutWriting ==
  ASSUME Kept, Numbered,
         Booted \/ EnterLoop \/ HeedCancel \/ HearTooLate \/ Refuse \/ TransitionThrows \/
         HandleText \/ BatchThrows \/ EndStep \/ EndTurn \/ PersistMetadata \/ Cancel
  PROVE  Kept' /\ Numbered'
<1>1. UNCHANGED <<file, hi>> BY DEF Booted, EnterLoop, HeedCancel, HearTooLate, Refuse, TransitionThrows, HandleText, BatchThrows, EndStep, EndTurn, PersistMetadata, Cancel, disk, batch
<1>2. Numbered' BY <1>1 DEF Numbered
<1>3. Made'
  <2>1. CASE Booted BY <2>1 DEF Kept, Made, Booted, disk, live, batch
  <2>2. CASE EnterLoop BY <2>2 DEF Kept, Made, EnterLoop, disk, live, batch
  <2>3. CASE HeedCancel BY <2>3 DEF Kept, Made, HeedCancel, disk, live, batch
  <2>4. CASE HearTooLate BY <2>4 DEF Kept, Made, HearTooLate, disk, live, batch
  <2>5. CASE Refuse BY <2>5, OutcomesAre DEF Kept, Made, Refuse, disk, live, batch, Failing
  <2>6. CASE TransitionThrows BY <2>6 DEF Kept, Made, TransitionThrows, disk, live, batch
  <2>7. CASE HandleText BY <2>7, OutcomesAre DEF Kept, Made, HandleText, disk, live, batch
  <2>8. CASE BatchThrows BY <2>8, OutcomesAre DEF Kept, Made, BatchThrows, disk, live, batch, Failing
  <2>9. CASE EndStep BY <2>9, OutcomesAre DEF Kept, Made, EndStep, disk, live, batch, Failing
  <2>10. CASE EndTurn BY <2>10 DEF Kept, Made, Placed, EndTurn, disk, live, batch
  <2>11. CASE PersistMetadata BY <2>11 DEF Kept, Made, PersistMetadata, disk, live, batch
  <2>12. CASE Cancel BY <2>12, OutcomesAre DEF Kept, Made, Cancel, disk, live, batch
  <2>20. QED BY <2>1, <2>2, <2>3, <2>4, <2>5, <2>6, <2>7, <2>8, <2>9, <2>10, <2>11, <2>12
<1>4. Placed'
  <2>1. CASE Booted BY <2>1 DEF Kept, Made, Placed, Places, Writing, Batching, Booted, disk, live, batch
  <2>2. CASE EnterLoop BY <2>2 DEF Kept, Made, Placed, Places, Writing, Batching, EnterLoop, disk, live, batch
  <2>3. CASE HeedCancel BY <2>3 DEF Kept, Made, Placed, Places, Writing, Batching, HeedCancel, disk, live, batch
  <2>4. CASE HearTooLate BY <2>4 DEF Kept, Made, Placed, Places, Writing, Batching, HearTooLate, disk, live, batch
  <2>5. CASE Refuse BY <2>5, OutcomesAre DEF Kept, Made, Placed, Places, Writing, Batching, Refuse, disk, live, batch, Failing
  <2>6. CASE TransitionThrows BY <2>6 DEF Kept, Made, Placed, Places, Writing, Batching, TransitionThrows, disk, live, batch
  <2>7. CASE HandleText BY <2>7, OutcomesAre DEF Kept, Made, Placed, Places, Writing, Batching, HandleText, disk, live, batch
  <2>8. CASE BatchThrows BY <2>8, OutcomesAre DEF Kept, Made, Placed, Places, Writing, Batching, BatchThrows, disk, live, batch, Failing
  <2>9. CASE EndStep BY <2>9, OutcomesAre DEF Kept, Made, Placed, Places, Writing, Batching, EndStep, disk, live, batch, Failing
  <2>10. CASE EndTurn BY <2>10 DEF Kept, Made, Placed, Places, Writing, Batching, EndTurn, disk, live, batch
  <2>11. CASE PersistMetadata BY <2>11 DEF Kept, Made, Placed, Places, Writing, Batching, PersistMetadata, disk, live, batch
  <2>12. CASE Cancel BY <2>12, OutcomesAre DEF Kept, Made, Placed, Places, Writing, Batching, Cancel, disk, live, batch
  <2>20. QED BY <2>1, <2>2, <2>3, <2>4, <2>5, <2>6, <2>7, <2>8, <2>9, <2>10, <2>11, <2>12
<1>5. QED BY <1>2, <1>3, <1>4 DEF Kept

LEMMA MinIs ==
  ASSUME NEW T, T \subseteq Nat, T # {}
  PROVE  Min(T) \in T
<1>1. \E x \in T : \A y \in T : x <= y BY LeastOf
<1>2. QED BY <1>1 DEF Min

(* The events of a turn that are neither of a call nor of a batch. *)
LEMMA KeptRemarking ==
  ASSUME Kept, Numbered, RunTurn \/ OverBudget \/ SendRequest \/ HearFailure \/ LogOutcome \/ Nudge
  PROVE  Kept' /\ Numbered'
<1>1. UNCHANGED <<snapshot, issued, answered, turns, lo, hi, pos, owed>> /\ requests' \in Nat
  BY DEF Kept, Made, RunTurn, OverBudget, SendRequest, HearFailure, LogOutcome, Nudge, disk, live, batch
<1>2. messages' \in Seq(Spoken)
  <2>1. \A role \in Roles : Speak(messages, role, {}) \in Seq(Spoken) BY SpeakIs DEF Kept, Made
  <2>2. QED BY <2>1 DEF Kept, Made, Roles, RunTurn, OverBudget, SendRequest, HearFailure, LogOutcome, Nudge
<1>3. ending' \in Outcomes \cup {"none"}
  BY DEF Kept, Made, RunTurn, OverBudget, SendRequest, HearFailure, LogOutcome, Nudge
<1>4. file' \in Seq(Lines) /\ seq' \in Nat /\ Numbered' /\ (file' # << >> \/ Nudge)
  <2>1. ASSUME NEW type \in EventTypes \ (CallEvents \cup ResultEvents), Write(type, 0)
        PROVE  file' \in Seq(Lines) /\ seq' \in Nat /\ Numbered' /\ file' # << >>
    <3>1. hi' \in Nat /\ hi <= hi' /\ 0 \in Nat BY <1>1 DEF Kept, Made
    <3>2. QED BY <2>1, <3>1, Written
  <2>2. /\ {"turn.started", "budget.exceeded", "model.request.started", "model.request.failed",
             "turn.completed", "turn.failed", "turn.cancelled"} \subseteq EventTypes \ (CallEvents \cup ResultEvents)
    BY DEF EventTypes, CallEvents, ResultEvents
  <2>3. CASE RunTurn BY <2>1, <2>2, <2>3 DEF RunTurn
  <2>4. CASE OverBudget BY <2>1, <2>2, <2>4 DEF OverBudget
  <2>5. CASE SendRequest BY <2>1, <2>2, <2>5 DEF SendRequest
  <2>6. CASE HearFailure BY <2>1, <2>2, <2>6 DEF HearFailure
  <2>7. CASE LogOutcome
    <3>1. ending \in Outcomes BY <2>7 DEF LogOutcome, Kept, Made, Placed
    <3>2. Ended[ending] \in {"turn.completed", "turn.failed", "turn.cancelled"} BY <3>1, OutcomesAre
    <3>3. QED BY <2>1, <2>2, <2>7, <3>2 DEF LogOutcome
  <2>8. CASE Nudge BY <1>1, <2>8 DEF Nudge, disk, Numbered, Kept, Made
  <2>9. QED BY <2>3, <2>4, <2>5, <2>6, <2>7, <2>8
<1>5. Made' BY <1>1, <1>2, <1>3, <1>4 DEF Kept, Made
<1>6. Placed'
  <2>1. CASE RunTurn BY <1>4, <2>1 DEF RunTurn, Nudge, Placed, Places, Writing, Batching
  <2>2. CASE OverBudget BY <1>4, <2>2 DEF OverBudget, Nudge, Placed, Places, Writing, Batching
  <2>3. CASE SendRequest BY <1>4, <2>3 DEF SendRequest, Nudge, Placed, Places, Writing, Batching
  <2>4. CASE HearFailure BY <1>4, <2>4 DEF HearFailure, Nudge, Placed, Places, Writing, Batching
  <2>5. CASE LogOutcome BY <1>4, <2>5 DEF LogOutcome, Nudge, Kept, Placed, Places, Writing, Batching
  <2>6. CASE Nudge BY <2>6 DEF Nudge, Placed, Places, Writing, Batching
  <2>7. QED BY <2>1, <2>2, <2>3, <2>4, <2>5, <2>6
<1>7. QED BY <1>4, <1>5, <1>6 DEF Kept

LEMMA KeptHearing ==
  ASSUME Kept, Numbered, HearAnswer
  PROVE  Kept' /\ Numbered'
<1>1. PICK n \in 0 .. MaxBatch, text \in 0 .. 1, blank \in BOOLEAN : Hear(n, text, blank) BY DEF HearAnswer
<1>2. n \in Nat /\ text \in Nat BY BoundsAssumption
<1>3. lo' = hi + 1 /\ hi' = hi + n /\ pos' = hi + 1 /\ requests' = requests + 1
      /\ UNCHANGED <<snapshot, issued, answered, turns, ending, owed>> /\ Write("model.request.completed", text)
      /\ at' \in {"blank", "responded"}
  BY <1>1 DEF Hear
<1>4. lo' .. hi' \in SUBSET Nat BY <1>2, <1>3 DEF Kept, Made
<1>5. messages' \in Seq(Spoken)
  <2>1. Speak(messages, "assistant", lo' .. hi') \in Seq(Spoken) BY <1>4, SpeakIs DEF Kept, Made, Roles
  <2>2. QED BY <1>1, <2>1 DEF Hear, Kept, Made
<1>6. file' \in Seq(Lines) /\ file' # << >> /\ seq' \in Nat /\ Numbered'
  <2>1. "model.request.completed" \in EventTypes \ (CallEvents \cup ResultEvents) BY DEF EventTypes, CallEvents, ResultEvents
  <2>2. hi' \in Nat /\ hi <= hi' BY <1>2, <1>3 DEF Kept, Made
  <2>3. QED BY <1>2, <1>3, <2>1, <2>2, Written
<1>7. Made'
  <2>1. 1 .. hi \subseteq 1 .. hi' BY <1>2, <1>3 DEF Kept, Made
  <2>2. QED BY <1>2, <1>3, <1>5, <1>6, <2>1 DEF Kept, Made
<1>8. Placed' BY <1>3, <1>6 DEF Placed, Places, Writing, Batching
<1>9. QED BY <1>6, <1>7, <1>8 DEF Kept

LEMMA KeptBatching ==
  ASSUME Kept, Numbered, HandleCalls \/ BatchEnds \/ LogResult
  PROVE  Kept' /\ Numbered'
<1>1. UNCHANGED <<snapshot, turns, requests, ending, lo, hi, owed>>
  BY DEF HandleCalls, BatchEnds, LogResult
<1>2. lo \in 1 .. hi /\ lo .. hi \in SUBSET Nat
  BY DEF Kept, Made, Placed, Batching, HandleCalls, BatchEnds, LogResult
<1>3. messages' \in Seq(Spoken)
  <2>1. AnswerAll(messages, lo .. hi) \in Seq(Spoken) BY <1>2, SpeakIs DEF Kept, Made, Roles
  <2>2. QED BY <2>1 DEF Kept, Made, HandleCalls, BatchEnds, LogResult
<1>4. /\ \E type \in EventTypes, d \in 1 .. hi : Write(type, d)
      /\ issued' \subseteq 1 .. hi /\ answered' \subseteq 1 .. hi
      /\ pos' \in Nat /\ lo < pos' /\ pos' <= hi + 1 /\ at' \in Batching
  <2>1. {"tool.call", "tool.result"} \subseteq EventTypes BY DEF EventTypes
  <2>2. CASE HandleCalls
    <3>1. pos \in 1 .. hi /\ pos' = pos + 1 /\ Write("tool.call", pos) /\ issued' = issued \cup {pos}
          /\ answered' = answered /\ at' = "issuing"
      BY <2>2 DEF HandleCalls, Kept, Made, Placed
    <3>2. QED BY <2>1, <3>1 DEF Kept, Made, Batching
  <2>3. CASE BatchEnds
    <3>1. pos' = lo + 1 /\ Write("tool.result", lo) /\ answered' = answered \cup {lo}
          /\ issued' = issued /\ at' = "answering"
      BY <2>3 DEF BatchEnds
    <3>2. QED BY <1>2, <2>1, <3>1 DEF Kept, Made, Batching
  <2>4. CASE LogResult
    <3>1. pos \in 1 .. hi /\ pos' = pos + 1 /\ Write("tool.result", pos) /\ answered' = answered \cup {pos}
          /\ issued' = issued /\ at' = "answering"
      BY <2>4 DEF LogResult, Kept, Made, Placed
    <3>2. QED BY <2>1, <3>1 DEF Kept, Made, Batching
  <2>5. QED BY <2>2, <2>3, <2>4
<1>5. file' \in Seq(Lines) /\ file' # << >> /\ seq' \in Nat /\ Numbered'
  <2>1. PICK type \in EventTypes, d \in 1 .. hi : Write(type, d) BY <1>4
  <2>2. d \in Nat /\ hi' \in Nat /\ hi <= hi' /\ d \in 1 .. hi' BY <1>1 DEF Kept, Made
  <2>3. QED BY <2>1, <2>2, Written
<1>6. Made' BY <1>1, <1>3, <1>4, <1>5 DEF Kept, Made
<1>7. Placed' BY <1>1, <1>4, <1>5 DEF Placed, Places, Writing, Batching
<1>8. QED BY <1>5, <1>6, <1>7 DEF Kept

LEMMA KeptClosing ==
  ASSUME Kept, Numbered, OpenCalls(messages) \subseteq 1 .. hi, CloseOpenToolCalls \/ LogSynthetic
  PROVE  Kept' /\ Numbered'
<1>1. UNCHANGED <<snapshot, issued, turns, requests, ending, lo, hi, pos>> /\ at' = "settling" /\ ending # "none"
  BY DEF CloseOpenToolCalls, LogSynthetic, batch, Kept, Placed
<1>2. PICK d \in 1 .. hi : /\ Write("tool.synthetic_result", d) /\ answered' = answered \cup {d}
                           /\ owed' \subseteq 1 .. hi
  <2>1. CASE CloseOpenToolCalls
    <3>1. PICK open : open = OpenCalls(messages) OBVIOUS
    <3>2. open \subseteq Nat /\ open # {} BY <2>1, <3>1 DEF CloseOpenToolCalls
    <3>3. Min(open) \in open BY <3>2, MinIs
    <3>4. QED BY <2>1, <3>1, <3>3 DEF CloseOpenToolCalls
  <2>2. CASE LogSynthetic
    <3>1. owed \subseteq 1 .. hi /\ owed \subseteq Nat /\ owed # {} BY <2>2 DEF LogSynthetic, Kept, Made
    <3>2. Min(owed) \in owed BY <3>1, MinIs
    <3>3. QED BY <2>2, <3>1, <3>2 DEF LogSynthetic
  <2>3. QED BY <2>1, <2>2
<1>3. messages' \in Seq(Spoken)
  <2>1. AnswerAll(messages, OpenCalls(messages)) \in Seq(Spoken)
    <3>1. OpenCalls(messages) \in SUBSET Nat OBVIOUS
    <3>2. QED BY <3>1, SpeakIs DEF Kept, Made, Roles
  <2>2. QED BY <2>1 DEF CloseOpenToolCalls, LogSynthetic, Kept, Made
<1>4. file' \in Seq(Lines) /\ file' # << >> /\ seq' \in Nat /\ Numbered'
  <2>1. "tool.synthetic_result" \in EventTypes BY DEF EventTypes
  <2>2. d \in Nat /\ hi' \in Nat /\ hi <= hi' /\ d \in 1 .. hi' BY <1>1 DEF Kept, Made
  <2>3. QED BY <1>2, <2>1, <2>2, Written
<1>5. Made' BY <1>1, <1>2, <1>3, <1>4 DEF Kept, Made
<1>6. Placed' BY <1>1, <1>4 DEF Placed, Places, Writing, Batching
<1>7. QED BY <1>4, <1>5, <1>6 DEF Kept

(* A process that ends leaves its file, whole or cut short. *)
LEMMA KeptEnding ==
  ASSUME Kept, Numbered, Shutdown \/ Crash
  PROVE  Kept' /\ Numbered'
<1>1. /\ at' = "down" /\ seq' = 0 /\ messages' = << >> /\ issued' = {} /\ answered' = {} /\ turns' = << >>
      /\ requests' = 0 /\ ending' = "none" /\ lo' = hi + 1 /\ pos' = hi + 1 /\ owed' = {} /\ hi' = hi
      /\ snapshot' \in Nat
  BY DEF Shutdown, Crash, Forget, Kept, Made
<1>2. file' \in Seq(Lines) /\ Numbered'
  <2>1. CASE file' = file BY <1>1, <2>1 DEF Kept, Made, Numbered
  <2>2. CASE file' # file
    <3>1. at \in Writing /\ file' \in CutShort(file) BY <2>2 DEF Shutdown, Crash
    <3>2. file \in Seq(Lines) /\ file # << >> BY <3>1 DEF Kept, Made, Placed
    <3>3. /\ file' \in Seq(Lines)
          /\ \A i \in 1 .. Len(file') : file'[i].event \in {file[j].event : j \in 1 .. Len(file)}
      BY <3>1, <3>2, CutShortIs
    <3>4. QED BY <1>1, <3>3 DEF Numbered
  <2>3. QED BY <2>1, <2>2
<1>3. Made' BY <1>1, <1>2 DEF Kept, Made
<1>4. Placed' BY <1>1 DEF Placed, Places, Writing, Batching
<1>5. QED BY <1>2, <1>3, <1>4 DEF Kept

LEMMA OfTypeNumbered ==
  ASSUME Kept, Numbered
  PROVE  /\ ReadBack(file) \in Seq(Events)
         /\ Calls(ReadBack(file)) \subseteq 1 .. hi /\ Results(ReadBack(file)) \subseteq 1 .. hi
<1>1. file \in Seq(Lines) BY DEF Kept, Made
<1>2. /\ ReadBack(file) \in Seq(Events) /\ Len(ReadBack(file)) \in 0 .. Len(file)
      /\ \A i \in 1 .. Len(ReadBack(file)) : ReadBack(file)[i] = file[i].event
  BY <1>1, ReadBackIs, LegibleIs
<1>3. ASSUME NEW i \in 1 .. Len(ReadBack(file)), ReadBack(file)[i].type \in CallEvents \cup ResultEvents
      PROVE  ReadBack(file)[i].datum \in 1 .. hi
  <2>1. i \in 1 .. Len(file) BY <1>1, <1>2
  <2>2. QED BY <1>2, <1>3, <2>1 DEF Numbered
<1>4. QED BY <1>2, <1>3 DEF Calls, Results, OfType, CallEvents, ResultEvents

LEMMA KeptResuming ==
  ASSUME Kept, Numbered, Resume
  PROVE  Kept' /\ Numbered'
<1>1. PICK es : es = ReadBack(file) OBVIOUS
<1>2. es \in Seq(Events) /\ Calls(es) \subseteq 1 .. hi /\ Results(es) \subseteq 1 .. hi BY <1>1, OfTypeNumbered
<1>3. /\ at' = "idle" /\ seq' = (IF es = << >> THEN 0 ELSE Last(es).seq) /\ messages' = Rebuilt(es)
      /\ issued' = Calls(es) /\ answered' = Results(es) /\ turns' = Turns(es) /\ requests' = snapshot
      /\ UNCHANGED <<file, snapshot, ending, lo, hi, pos, owed>>
  BY <1>1 DEF Resume, disk, batch
<1>4. seq' \in Nat
  <2>1. CASE es = << >> BY <1>3, <2>1
  <2>2. CASE es # << >>
    <3>1. Len(es) \in 1 .. Len(es) /\ es[Len(es)] \in Events BY <1>2, <2>2, EmptySeq
    <3>2. QED BY <1>3, <2>2, <3>1 DEF Last, Events
  <2>3. QED BY <2>1, <2>2
<1>5. Turns(es) \in Seq(Outcomes) /\ Rebuilt(es) \in Seq(Spoken)
  <2>1. "turn.started" \in EventTypes /\ 0 \in Nat BY DEF EventTypes
  <2>2. Event("turn.started", 0, 0) \in Events BY <2>1, EventIs
  <2>3. QED BY <1>2, <2>2, TurnsOfMore, RebuiltTyped
<1>6. Made' BY <1>2, <1>3, <1>4, <1>5 DEF Kept, Made
<1>7. Placed' BY <1>3 DEF Placed, Places, Writing, Batching
<1>8. Numbered' BY <1>3 DEF Numbered
<1>9. QED BY <1>6, <1>7, <1>8 DEF Kept

-----------------------------------------------------------------------------
(* What the session reports of itself and what its log says.               *)

(* At every await, and not only between two turns: the log is ahead of the session by
   the turn whose end was just written, and by nothing else. *)
Gated ==
  at # "down" /\ Unbroken(file) =>
    /\ issued = Calls(ReadBack(file)) /\ answered = Results(ReadBack(file))
    /\ Turns(ReadBack(file)) = IF at = "ended" THEN Append(turns, ending) ELSE turns

LEMMA GatedWithoutWriting ==
  ASSUME Kept, Gated,
         Booted \/ EnterLoop \/ HeedCancel \/ HearTooLate \/ Refuse \/ TransitionThrows \/
         HandleText \/ BatchThrows \/ EndStep \/ EndTurn \/ PersistMetadata \/ Cancel \/ Nudge
  PROVE  Gated'
<1>1. UNCHANGED <<file, issued, answered>> /\ at # "down"
  BY DEF Booted, EnterLoop, HeedCancel, HearTooLate, Refuse, TransitionThrows, HandleText, BatchThrows, EndStep, EndTurn, PersistMetadata, Cancel, Nudge, disk, live
<1>2. CASE EndTurn
  <2>1. at = "ended" /\ turns' = Append(turns, ending) /\ at' # "ended" BY <1>2 DEF EndTurn
  <2>2. QED BY <1>1, <2>1 DEF Gated
<1>3. CASE ~EndTurn /\ at # "ended"
  <2>1. turns' = turns /\ at' # "ended" BY <1>3 DEF Booted, EnterLoop, HeedCancel, HearTooLate, Refuse, TransitionThrows, HandleText, BatchThrows, EndStep, EndTurn, PersistMetadata, Cancel, Nudge, live
  <2>2. QED BY <1>1, <1>3, <2>1 DEF Gated
<1>4. CASE Cancel /\ at = "ended"
  <2>1. ending = "none" BY <1>4 DEF Cancel
  <2>2. QED BY <1>4, <2>1 DEF Kept, Placed
<1>5. CASE ~EndTurn /\ ~Cancel /\ at = "ended" BY <1>5 DEF Booted, EnterLoop, HeedCancel, HearTooLate, Refuse, TransitionThrows, HandleText, BatchThrows, EndStep, EndTurn, PersistMetadata, Cancel, Nudge
<1>6. QED BY <1>2, <1>3, <1>4, <1>5

(* A write and what the session notes along with it. *)
LEMMA GatedWriting ==
  ASSUME Kept, Gated, at \notin {"down", "ended"}, NEW type \in EventTypes, NEW d \in Nat, Write(type, d),
         issued' = issued \cup (IF type = "tool.call" THEN {d} ELSE {}),
         answered' = answered \cup (IF type \in ResultEvents THEN {d} ELSE {}),
         turns' = turns,
         at' # "ended" => type \notin EndEvents,
         at' = "ended" => ending' \in Outcomes /\ type = Ended[ending']
  PROVE  Gated'
<1> SUFFICES ASSUME Unbroken(file)'
             PROVE  /\ issued' = Calls(ReadBack(file)') /\ answered' = Results(ReadBack(file)')
                    /\ Turns(ReadBack(file)') = IF at' = "ended" THEN Append(turns', ending') ELSE turns'
  BY DEF Gated
<1>1. file \in Seq(Lines) /\ seq \in Nat BY DEF Kept, Made
<1>2. PICK e : e = Event(type, d, seq + 1) OBVIOUS
<1>3. Unbroken(file) /\ ReadBack(file)' = Append(ReadBack(file), e) /\ e \in Events BY <1>1, <1>2, WriteIs
<1>4. e.type = type /\ e.datum = d BY <1>1, <1>2, EventIs
<1>5. PICK es : es = ReadBack(file) OBVIOUS
<1>6. es \in Seq(Events) BY <1>1, <1>5, ReadBackIs
<1>7. issued = Calls(es) /\ answered = Results(es) /\ Turns(es) = turns BY <1>3, <1>5 DEF Gated
<1>8. issued' = Calls(Append(es, e)) /\ answered' = Results(Append(es, e))
  BY <1>3, <1>4, <1>6, <1>7, OneMore
<1>9. Turns(Append(es, e)) = IF at' = "ended" THEN Append(turns', ending') ELSE turns'
  BY <1>3, <1>4, <1>6, <1>7, OneMore
<1>10. QED BY <1>3, <1>5, <1>8, <1>9

LEMMA GatedRemarking ==
  ASSUME Kept, Gated, RunTurn \/ OverBudget \/ SendRequest \/ HearFailure \/ HearAnswer \/ LogOutcome
  PROVE  Gated'
<1>1. UNCHANGED <<issued, answered, turns>> /\ at \notin {"down", "ended"}
  BY DEF RunTurn, OverBudget, SendRequest, HearFailure, HearAnswer, Hear, LogOutcome, live
<1>2. ASSUME NEW type \in EventTypes \ (CallEvents \cup ResultEvents \cup EndEvents), NEW d \in Nat, Write(type, d),
             at' # "ended"
      PROVE  Gated'
  <2>1. type # "tool.call" /\ type \notin ResultEvents /\ type \notin EndEvents BY <1>2 DEF CallEvents
  <2>2. QED BY <1>1, <1>2, <2>1, GatedWriting
<1>3. {"turn.started", "budget.exceeded", "model.request.started", "model.request.failed", "model.request.completed"}
        \subseteq EventTypes \ (CallEvents \cup ResultEvents \cup EndEvents)
  BY DEF EventTypes, CallEvents, ResultEvents, EndEvents
<1>4. CASE RunTurn BY <1>2, <1>3, <1>4 DEF RunTurn
<1>5. CASE OverBudget BY <1>2, <1>3, <1>5 DEF OverBudget
<1>6. CASE SendRequest BY <1>2, <1>3, <1>6 DEF SendRequest
<1>7. CASE HearFailure BY <1>2, <1>3, <1>7 DEF HearFailure
<1>8. CASE HearAnswer
  <2>1. PICK text \in Nat : Write("model.request.completed", text) /\ at' # "ended" BY <1>8 DEF HearAnswer, Hear
  <2>2. QED BY <1>2, <1>3, <2>1
<1>9. CASE LogOutcome
  <2>1. ending \in Outcomes /\ ending' = ending /\ at' = "ended" /\ Write(Ended[ending], 0)
    BY <1>9 DEF LogOutcome, Kept, Made, Placed
  <2>2. Ended[ending] \in EventTypes /\ Ended[ending] # "tool.call" /\ Ended[ending] \notin ResultEvents
    BY <2>1, OutcomesAre DEF EventTypes, ResultEvents
  <2>3. PICK type : type = Ended[ending] OBVIOUS
  <2>4. QED BY <1>1, <2>1, <2>2, <2>3, GatedWriting
<1>10. QED BY <1>4, <1>5, <1>6, <1>7, <1>8, <1>9

LEMMA GatedBatching ==
  ASSUME Kept, Gated, OpenCalls(messages) \subseteq 1 .. hi,
         HandleCalls \/ BatchEnds \/ LogResult \/ CloseOpenToolCalls \/ LogSynthetic
  PROVE  Gated'
<1>1. at \notin {"down", "ended"} /\ at' # "ended" /\ turns' = turns
  BY DEF HandleCalls, BatchEnds, LogResult, CloseOpenToolCalls, LogSynthetic
<1>2. /\ {"tool.call", "tool.result", "tool.synthetic_result"} \subseteq EventTypes
      /\ {"tool.result", "tool.synthetic_result"} = ResultEvents
      /\ "tool.call" \notin ResultEvents \cup EndEvents
      /\ \A type \in ResultEvents : type # "tool.call" /\ type \notin EndEvents
  BY DEF EventTypes, ResultEvents, EndEvents
<1>3. ASSUME NEW type \in ResultEvents, NEW d \in Nat, Write(type, d), issued' = issued, answered' = answered \cup {d}
      PROVE  Gated'
  BY <1>1, <1>2, <1>3, GatedWriting
<1>4. CASE HandleCalls
  <2>1. pos \in Nat /\ Write("tool.call", pos) /\ issued' = issued \cup {pos} /\ answered' = answered
    BY <1>4 DEF HandleCalls, Kept, Made
  <2>2. QED BY <1>1, <1>2, <2>1, GatedWriting
<1>5. CASE BatchEnds
  <2>1. lo \in Nat /\ Write("tool.result", lo) /\ issued' = issued /\ answered' = answered \cup {lo}
    BY <1>5 DEF BatchEnds, Kept, Made
  <2>2. QED BY <1>2, <1>3, <2>1
<1>6. CASE LogResult
  <2>1. pos \in Nat /\ Write("tool.result", pos) /\ issued' = issued /\ answered' = answered \cup {pos}
    BY <1>6 DEF LogResult, Kept, Made
  <2>2. QED BY <1>2, <1>3, <2>1
<1>7. CASE CloseOpenToolCalls
  <2>1. PICK open : open = OpenCalls(messages) OBVIOUS
  <2>2. open \subseteq Nat /\ open # {} BY <1>7, <2>1 DEF CloseOpenToolCalls
  <2>3. Min(open) \in Nat BY <2>2, MinIs
  <2>4. Write("tool.synthetic_result", Min(open)) /\ issued' = issued /\ answered' = answered \cup {Min(open)}
    BY <1>7, <2>1 DEF CloseOpenToolCalls
  <2>5. QED BY <1>2, <1>3, <2>3, <2>4
<1>8. CASE LogSynthetic
  <2>1. owed \subseteq Nat /\ owed # {} BY <1>8 DEF LogSynthetic, Kept, Made
  <2>2. Min(owed) \in Nat BY <2>1, MinIs
  <2>3. Write("tool.synthetic_result", Min(owed)) /\ issued' = issued /\ answered' = answered \cup {Min(owed)}
    BY <1>8 DEF LogSynthetic
  <2>4. QED BY <1>2, <1>3, <2>2, <2>3
<1>9. QED BY <1>4, <1>5, <1>6, <1>7, <1>8

LEMMA GatedEndsAndBegins ==
  ASSUME Kept, Gated, Shutdown \/ Crash \/ Resume
  PROVE  Gated'
<1>1. CASE Shutdown \/ Crash
  <2>1. at' = "down" BY <1>1 DEF Shutdown, Crash, Forget
  <2>2. QED BY <2>1 DEF Gated
<1>2. CASE Resume
  <2>1. /\ at' = "idle" /\ file' = file /\ issued' = Calls(ReadBack(file)) /\ answered' = Results(ReadBack(file))
        /\ turns' = Turns(ReadBack(file))
    BY <1>2 DEF Resume, disk
  <2>2. QED BY <2>1 DEF Gated
<1>3. QED BY <1>1, <1>2

-----------------------------------------------------------------------------
(* Calls and their answers.                                                *)

LEMMA CallsOfIs ==
  ASSUME NEW ms, NEW role
  PROVE  \A d : d \in CallsOf(ms, role) <=> \E i \in 1 .. Len(ms) : ms[i].role = role /\ d \in ms[i].calls
BY DEF CallsOf

LEMMA CallsOfMore ==
  ASSUME NEW ms \in Seq(Spoken), NEW m \in Spoken, NEW role
  PROVE  /\ CallsOf(<< >>, role) = {}
         /\ CallsOf(Append(ms, m), role) = CallsOf(ms, role) \cup (IF m.role = role THEN m.calls ELSE {})
<1>1. Len(ms) \in Nat /\ Len(Append(ms, m)) = Len(ms) + 1 OBVIOUS
<1>2. \A i \in 1 .. Len(ms) + 1 : Append(ms, m)[i] = IF i = Len(ms) + 1 THEN m ELSE ms[i] BY <1>1
<1>3. CallsOf(<< >>, role) = {} BY CallsOfIs
<1>4. ASSUME NEW d
      PROVE  d \in CallsOf(Append(ms, m), role) <=> d \in CallsOf(ms, role) \/ (m.role = role /\ d \in m.calls)
  <2>1. ASSUME d \in CallsOf(Append(ms, m), role) PROVE d \in CallsOf(ms, role) \/ (m.role = role /\ d \in m.calls)
    <3>1. PICK i \in 1 .. Len(ms) + 1 : Append(ms, m)[i].role = role /\ d \in Append(ms, m)[i].calls
      BY <1>1, <2>1, CallsOfIs, ZenonT(60)
    <3>2. CASE i = Len(ms) + 1 BY <1>2, <3>1, <3>2
    <3>3. CASE i # Len(ms) + 1
      <4>1. i \in 1 .. Len(ms) BY <1>1, <3>3
      <4>2. ms[i].role = role /\ d \in ms[i].calls BY <1>2, <3>1, <3>3
      <4>3. QED BY <4>1, <4>2, CallsOfIs
    <3>4. QED BY <3>2, <3>3
  <2>2. ASSUME d \in CallsOf(ms, role) PROVE d \in CallsOf(Append(ms, m), role)
    <3>1. PICK i \in 1 .. Len(ms) : ms[i].role = role /\ d \in ms[i].calls BY <2>2, CallsOfIs
    <3>2. i \in 1 .. Len(ms) + 1 /\ i # Len(ms) + 1 BY <1>1
    <3>3. Append(ms, m)[i].role = role /\ d \in Append(ms, m)[i].calls BY <1>2, <3>1, <3>2
    <3>4. QED BY <1>1, <3>2, <3>3, CallsOfIs
  <2>3. ASSUME m.role = role, d \in m.calls PROVE d \in CallsOf(Append(ms, m), role)
    <3>1. Len(ms) + 1 \in 1 .. Len(ms) + 1 BY <1>1
    <3>2. Append(ms, m)[Len(ms) + 1] = m BY <1>2, <3>1
    <3>3. QED BY <1>1, <2>3, <3>1, <3>2, CallsOfIs
  <2>4. QED BY <2>1, <2>2, <2>3
<1>5. QED BY <1>3, <1>4

LEMMA CallsOfSaid ==
  ASSUME NEW ms \in Seq(Spoken), NEW role \in Roles, NEW cs \in SUBSET Nat
  PROVE  /\ CallsOf(Speak(ms, role, cs), "assistant") = CallsOf(ms, "assistant") \cup (IF role = "assistant" THEN cs ELSE {})
         /\ CallsOf(Speak(ms, role, cs), "tool") = CallsOf(ms, "tool") \cup (IF role = "tool" THEN cs ELSE {})
<1>1. PICK m \in Spoken : m = Message(role, cs) BY SpeakIs
<1>2. m.role = role /\ m.calls = cs BY <1>1 DEF Message
<1>3. Speak(ms, role, cs) = Append(ms, m) BY <1>1 DEF Speak
<1>4. CallsOf(Append(ms, m), "assistant") = CallsOf(ms, "assistant") \cup (IF m.role = "assistant" THEN m.calls ELSE {})
  BY CallsOfMore
<1>5. CallsOf(Append(ms, m), "tool") = CallsOf(ms, "tool") \cup (IF m.role = "tool" THEN m.calls ELSE {})
  BY CallsOfMore
<1>6. QED BY <1>2, <1>3, <1>4, <1>5

LEMMA CallsOfAnswered ==
  ASSUME NEW ms \in Seq(Spoken), NEW cs \in SUBSET Nat
  PROVE  /\ AnswerAll(ms, cs) \in Seq(Spoken)
         /\ CallsOf(AnswerAll(ms, cs), "assistant") = CallsOf(ms, "assistant")
         /\ CallsOf(AnswerAll(ms, cs), "tool") = CallsOf(ms, "tool") \cup cs
<1>1. "tool" \in Roles BY DEF Roles
<1>2. AnswerAll(ms, cs) \in Seq(Spoken) BY <1>1, SpeakIs
<1>3. /\ CallsOf(Speak(ms, "tool", cs), "assistant") = CallsOf(ms, "assistant")
      /\ CallsOf(Speak(ms, "tool", cs), "tool") = CallsOf(ms, "tool") \cup cs
  <2>1. /\ CallsOf(Speak(ms, "tool", cs), "assistant") = CallsOf(ms, "assistant") \cup (IF "tool" = "assistant" THEN cs ELSE {})
        /\ CallsOf(Speak(ms, "tool", cs), "tool") = CallsOf(ms, "tool") \cup (IF "tool" = "tool" THEN cs ELSE {})
    BY <1>1, CallsOfSaid
  <2>2. QED BY <2>1
<1>4. CASE cs = {} BY <1>2, <1>4 DEF AnswerAll
<1>5. CASE cs # {} BY <1>2, <1>3, <1>5 DEF AnswerAll
<1>6. QED BY <1>4, <1>5

LEMMA CallsOfCalled ==
  ASSUME NEW ms \in Seq(Spoken), NEW c \in Nat
  PROVE  /\ CallsOf(AddCall(ms, c), "assistant") = CallsOf(ms, "assistant") \cup {c}
         /\ CallsOf(AddCall(ms, c), "tool") = CallsOf(ms, "tool")
<1>1. CASE ms # << >> /\ Last(ms).role = "assistant"
  <2>1. Len(ms) \in Nat /\ Len(ms) \in 1 .. Len(ms) /\ ms[Len(ms)] \in Spoken BY <1>1, EmptySeq
  <2>2. ms[Len(ms)].role = "assistant" BY <1>1, <2>1 DEF Last
  <2>3. PICK qs : qs = AddCall(ms, c) OBVIOUS
  <2>4. qs = [ms EXCEPT ![Len(ms)].calls = @ \cup {c}] BY <1>1, <2>3 DEF AddCall
  <2>5. Len(qs) = Len(ms) BY <2>1, <2>4
  <2>6. ASSUME NEW i \in 1 .. Len(ms)
        PROVE  qs[i].role = ms[i].role /\ qs[i].calls = IF i = Len(ms) THEN ms[i].calls \cup {c} ELSE ms[i].calls
    <3>1. qs[i] = IF i = Len(ms) THEN [ms[Len(ms)] EXCEPT !.calls = @ \cup {c}] ELSE ms[i] BY <2>4
    <3>2. QED BY <2>1, <3>1 DEF Spoken
  <2>7. ASSUME NEW d, NEW of \in {"assistant", "tool"}
        PROVE  d \in CallsOf(qs, of) <=> d \in CallsOf(ms, of) \/ (of = "assistant" /\ d = c)
    <3>1. ASSUME d \in CallsOf(qs, of) PROVE d \in CallsOf(ms, of) \/ (of = "assistant" /\ d = c)
      <4>1. PICK i \in 1 .. Len(ms) : qs[i].role = of /\ d \in qs[i].calls BY <2>5, <3>1, CallsOfIs
      <4>2. ms[i].role = of /\ (d \in ms[i].calls \/ (i = Len(ms) /\ d = c)) BY <2>6, <4>1
      <4>3. QED BY <2>2, <4>2, CallsOfIs
    <3>2. ASSUME d \in CallsOf(ms, of) PROVE d \in CallsOf(qs, of)
      <4>1. PICK i \in 1 .. Len(ms) : ms[i].role = of /\ d \in ms[i].calls BY <3>2, CallsOfIs
      <4>2. qs[i].role = of /\ d \in qs[i].calls BY <2>6, <4>1
      <4>3. QED BY <2>5, <4>2, CallsOfIs
    <3>3. ASSUME of = "assistant", d = c PROVE d \in CallsOf(qs, of)
      <4>1. qs[Len(ms)].role = of /\ d \in qs[Len(ms)].calls BY <2>1, <2>2, <2>6, <3>3
      <4>2. QED BY <2>1, <2>5, <4>1, CallsOfIs
    <3>4. QED BY <3>1, <3>2, <3>3
  <2>8. QED BY <2>3, <2>7
<1>2. CASE ~(ms # << >> /\ Last(ms).role = "assistant")
  <2>1. AddCall(ms, c) = Speak(ms, "assistant", {c}) BY <1>2 DEF AddCall
  <2>2. "assistant" \in Roles /\ {c} \in SUBSET Nat BY DEF Roles
  <2>3. /\ CallsOf(Speak(ms, "assistant", {c}), "assistant")
             = CallsOf(ms, "assistant") \cup (IF "assistant" = "assistant" THEN {c} ELSE {})
        /\ CallsOf(Speak(ms, "assistant", {c}), "tool") = CallsOf(ms, "tool") \cup (IF "assistant" = "tool" THEN {c} ELSE {})
    BY <2>2, CallsOfSaid
  <2>4. QED BY <2>1, <2>3
<1>3. QED BY <1>1, <1>2

LEMMA TaleIs ==
  /\ Told(<< >>).ms = << >> /\ Told(<< >>).pending = {}
  /\ \A es \in Seq(Events) : Told(es) \in Tales /\ Calls(es) \in SUBSET Nat /\ Results(es) \in SUBSET Nat
<1>1. "turn.started" \in EventTypes /\ 0 \in Nat BY DEF EventTypes
<1>2. PICK e \in Events : TRUE BY <1>1, EventIs
<1>3. Told(<< >>) = Nothing
  <2>1. << >> \in Seq(Events) OBVIOUS
  <2>2. QED BY <1>2, <2>1, ToldOfMore
<1>4. \A es \in Seq(Events) : Told(es) \in Tales BY <1>2, ToldOfMore
<1>5. \A es \in Seq(Events) : Calls(es) \in SUBSET Nat /\ Results(es) \in SUBSET Nat BY <1>2, OneMore
<1>6. QED BY <1>3, <1>4, <1>5 DEF Nothing

(* The tale of a log has the calls and the results of the log, in messages or pending. *)
Faithful(es) ==
  /\ CallsOf(Told(es).ms, "assistant") = Calls(es)
  /\ CallsOf(Told(es).ms, "tool") \cup Told(es).pending = Results(es)

LEMMA FaithfulToOneMore ==
  ASSUME NEW es \in Seq(Events), NEW e \in Events, Faithful(es)
  PROVE  Faithful(Append(es, e))
<1>1. PICK r \in Tales : r = Told(es) BY TaleIs
<1>2. PICK w : w = Retold(r, e) OBVIOUS
<1>3. Told(Append(es, e)) = w BY <1>1, <1>2, ToldOfMore
<1>4. CallsOf(r.ms, "assistant") = Calls(es) /\ CallsOf(r.ms, "tool") \cup r.pending = Results(es) BY <1>1 DEF Faithful
<1>5. r.ms \in Seq(Spoken) /\ r.pending \in SUBSET Nat /\ e.datum \in Nat BY DEF Tales, Events
<1>6. PICK flushed : flushed = AnswerAll(r.ms, r.pending) OBVIOUS
<1>7. flushed \in Seq(Spoken) /\ CallsOf(flushed, "assistant") = Calls(es) /\ CallsOf(flushed, "tool") = Results(es)
  <2>1. /\ flushed \in Seq(Spoken) /\ CallsOf(flushed, "assistant") = CallsOf(r.ms, "assistant")
        /\ CallsOf(flushed, "tool") = CallsOf(r.ms, "tool") \cup r.pending
    BY <1>5, <1>6, CallsOfAnswered
  <2>2. QED BY <1>4, <2>1
<1>8. ASSUME NEW role \in {"user", "assistant"}
      PROVE  /\ CallsOf(Speak(flushed, role, {}), "assistant") = Calls(es)
             /\ CallsOf(Speak(flushed, role, {}), "tool") = Results(es)
  <2>1. {} \in SUBSET Nat /\ role \in Roles BY DEF Roles
  <2>2. /\ CallsOf(Speak(flushed, role, {}), "assistant")
             = CallsOf(flushed, "assistant") \cup (IF role = "assistant" THEN {} ELSE {})
        /\ CallsOf(Speak(flushed, role, {}), "tool") = CallsOf(flushed, "tool") \cup (IF role = "tool" THEN {} ELSE {})
    BY <1>7, <2>1, CallsOfSaid
  <2>3. QED BY <1>7, <2>2
<1>9. /\ CallsOf(AddCall(r.ms, e.datum), "assistant") = Calls(es) \cup {e.datum}
      /\ CallsOf(AddCall(r.ms, e.datum), "tool") = CallsOf(r.ms, "tool")
  BY <1>4, <1>5, CallsOfCalled
<1>10. PICK cs, rs : cs = Calls(Append(es, e)) /\ rs = Results(Append(es, e)) OBVIOUS
<1> SUFFICES CallsOf(w.ms, "assistant") = cs /\ CallsOf(w.ms, "tool") \cup w.pending = rs BY <1>3, <1>10 DEF Faithful
<1>11. CASE e.type = "turn.started"
  <2>1. w.ms = Speak(flushed, "user", {}) /\ w.pending = {} BY <1>2, <1>6, <1>11, RetoldIs
  <2>2. cs = Calls(es) /\ rs = Results(es) BY <1>10, <1>11, OneMore DEF ResultEvents
  <2>3. QED BY <1>8, <2>1, <2>2
<1>12. CASE e.type = "model.request.completed"
  <2>1. w.ms \in {Speak(flushed, "assistant", {}), flushed} /\ w.pending = {} BY <1>2, <1>6, <1>12, RetoldIs
  <2>2. cs = Calls(es) /\ rs = Results(es) BY <1>10, <1>12, OneMore DEF ResultEvents
  <2>3. QED BY <1>7, <1>8, <2>1, <2>2
<1>13. CASE e.type = "tool.call"
  <2>1. w.ms = AddCall(r.ms, e.datum) /\ w.pending = r.pending BY <1>2, <1>13, RetoldIs
  <2>2. cs = Calls(es) \cup {e.datum} /\ rs = Results(es) BY <1>10, <1>13, OneMore DEF ResultEvents
  <2>3. QED BY <1>4, <1>9, <2>1, <2>2
<1>14. CASE e.type \in ResultEvents
  <2>1. w.ms = r.ms /\ w.pending = r.pending \cup {e.datum} BY <1>2, <1>14, RetoldIs DEF ResultEvents
  <2>2. cs = Calls(es) /\ rs = Results(es) \cup {e.datum} BY <1>10, <1>14, OneMore DEF ResultEvents
  <2>3. QED BY <1>4, <2>1, <2>2
<1>15. CASE e.type \notin {"turn.started", "model.request.completed", "tool.call"} \cup ResultEvents
  <2>1. w = r BY <1>2, <1>15, RetoldIs DEF ResultEvents
  <2>2. cs = Calls(es) /\ rs = Results(es) BY <1>10, <1>15, OneMore DEF ResultEvents
  <2>3. QED BY <1>4, <2>1, <2>2
<1>16. QED BY <1>11, <1>12, <1>13, <1>14, <1>15

LEMMA ToldFaithfully == \A es \in Seq(Events) : Faithful(es)
<1> DEFINE T == {es \in Seq(Events) : Faithful(es)}
<1>1. << >> \in T
  <2>1. Calls(<< >>) = {} /\ Results(<< >>) = {} BY DEF Calls, Results, OfType
  <2>2. CallsOf(<< >>, "assistant") = {} /\ CallsOf(<< >>, "tool") = {} BY CallsOfIs
  <2>3. Told(<< >>).ms = << >> /\ Told(<< >>).pending = {} BY TaleIs
  <2>4. Faithful(<< >>) BY <2>1, <2>2, <2>3 DEF Faithful
  <2>5. << >> \in Seq(Events) OBVIOUS
  <2>6. QED BY <2>4, <2>5
<1>2. ASSUME NEW es \in Seq(Events), NEW e \in Events, es \in T PROVE Append(es, e) \in T
  <2>1. Append(es, e) \in Seq(Events) /\ Faithful(es) BY <1>2
  <2>2. Faithful(Append(es, e)) BY <2>1, FaithfulToOneMore
  <2>3. QED BY <2>1, <2>2
<1>3. \A es \in Seq(Events) : es \in T
  <2> HIDE DEF T
  <2> QED BY <1>1, <1>2, AnySequence
<1>4. QED BY <1>3

(* A resume answers every call. *)
LEMMA RebuiltCalls ==
  ASSUME NEW es \in Seq(Events)
  PROVE  /\ CallsOf(Rebuilt(es), "assistant") = Calls(es)
         /\ CallsOf(Rebuilt(es), "tool") = Calls(es) \cup Results(es)
<1>1. PICK r \in Tales : r = Told(es) BY TaleIs
<1>2. /\ r.ms \in Seq(Spoken) /\ r.pending \in SUBSET Nat
      /\ CallsOf(r.ms, "assistant") = Calls(es) /\ CallsOf(r.ms, "tool") \cup r.pending = Results(es)
  BY <1>1, ToldFaithfully DEF Tales, Faithful
<1>3. PICK flushed : flushed = AnswerAll(r.ms, r.pending) OBVIOUS
<1>4. flushed \in Seq(Spoken) /\ CallsOf(flushed, "assistant") = Calls(es) /\ CallsOf(flushed, "tool") = Results(es)
  <2>1. /\ flushed \in Seq(Spoken) /\ CallsOf(flushed, "assistant") = CallsOf(r.ms, "assistant")
        /\ CallsOf(flushed, "tool") = CallsOf(r.ms, "tool") \cup r.pending
    BY <1>2, <1>3, CallsOfAnswered
  <2>2. QED BY <1>2, <2>1
<1>5. PICK missing \in SUBSET Nat : missing = Calls(es) \ Results(es)
  <2>1. Calls(es) \in SUBSET Nat BY TaleIs
  <2>2. QED BY <2>1
<1>6. Rebuilt(es) = AnswerAll(flushed, missing) BY <1>1, <1>3, <1>5, FlushTyped DEF Rebuilt
<1>7. /\ CallsOf(Rebuilt(es), "assistant") = CallsOf(flushed, "assistant")
      /\ CallsOf(Rebuilt(es), "tool") = CallsOf(flushed, "tool") \cup missing
  BY <1>4, <1>6, CallsOfAnswered
<1>8. QED BY <1>4, <1>5, <1>7

-----------------------------------------------------------------------------
(* No call is left without an answer.                                      *)

Asked == CallsOf(messages, "assistant")
Replied == CallsOf(messages, "tool")

(* The calls of the last response are open from the moment it is heard until its batch
   ends or the turn is closed; no other call ever is. *)
Closed ==
  /\ Asked \subseteq 1 .. hi /\ Replied \subseteq 1 .. hi
  /\ at \in {"responded", "issuing"} => Asked \ Replied = lo .. hi
  /\ at = "closing" => Asked \ Replied \in {{}, lo .. hi}
  /\ at \notin {"responded", "issuing", "closing"} => Asked \ Replied = {}

LEMMA ClosedSilently ==
  ASSUME Kept, Closed,
         Booted \/ EnterLoop \/ HeedCancel \/ OverBudget \/ SendRequest \/ HearTooLate \/ HearFailure \/
         Refuse \/ TransitionThrows \/ HandleText \/ HandleCalls \/ BatchThrows \/ LogResult \/ EndStep \/
         LogSynthetic \/ LogOutcome \/ EndTurn \/ PersistMetadata \/ Cancel
  PROVE  Closed'
<1>1. UNCHANGED <<messages, lo, hi>>
  BY DEF Booted, EnterLoop, HeedCancel, OverBudget, SendRequest, HearTooLate, HearFailure, Refuse, TransitionThrows,
         HandleText, HandleCalls, BatchThrows, LogResult, EndStep, LogSynthetic, LogOutcome, EndTurn, PersistMetadata,
         Cancel, batch
<1>2. Asked' = Asked /\ Replied' = Replied BY <1>1 DEF Asked, Replied
<1>3. lo \in Nat /\ hi \in Nat BY DEF Kept, Made
<1>4. \/ at' = at
      \/ at \notin {"responded", "issuing", "closing"} /\ at' \notin {"responded", "issuing"}
      \/ at \in {"responded", "issuing"} /\ at' \in {"issuing", "closing"}
      \/ at = "closing" /\ Asked \ Replied = {} /\ at' \notin {"responded", "issuing"}
  BY DEF Booted, EnterLoop, HeedCancel, OverBudget, SendRequest, HearTooLate, HearFailure, Refuse, TransitionThrows,
         HandleText, HandleCalls, BatchThrows, LogResult, EndStep, LogSynthetic, LogOutcome, EndTurn, PersistMetadata,
         Cancel, OpenCalls, Asked, Replied
<1>5. QED BY <1>1, <1>2, <1>4 DEF Closed

LEMMA ClosedRemarking ==
  ASSUME Kept, Closed, RunTurn \/ Nudge
  PROVE  Closed'
<1>1. PICK role \in {"user", "control"} : messages' = Speak(messages, role, {}) BY DEF RunTurn, Nudge
<1>2. UNCHANGED <<lo, hi>> /\ at \in {"idle", "blank"} /\ at' \in {"started", "top"} BY DEF RunTurn, Nudge, batch
<1>3. role \in Roles /\ {} \in SUBSET Nat /\ role # "assistant" /\ role # "tool" BY DEF Roles
<1>4. messages \in Seq(Spoken) BY DEF Kept, Made
<1>5. Asked' = Asked /\ Replied' = Replied
  <2>1. /\ CallsOf(Speak(messages, role, {}), "assistant")
             = CallsOf(messages, "assistant") \cup (IF role = "assistant" THEN {} ELSE {})
        /\ CallsOf(Speak(messages, role, {}), "tool") = CallsOf(messages, "tool") \cup (IF role = "tool" THEN {} ELSE {})
    BY <1>3, <1>4, CallsOfSaid, ZenonT(60)
  <2>2. QED BY <1>1, <2>1 DEF Asked, Replied
<1>6. QED BY <1>2, <1>5 DEF Closed

LEMMA ClosedHearing ==
  ASSUME Kept, Closed, HearAnswer
  PROVE  Closed'
<1>1. PICK n \in 0 .. MaxBatch, text \in 0 .. 1, blank \in BOOLEAN : Hear(n, text, blank) BY DEF HearAnswer
<1>2. n \in Nat /\ text \in Nat /\ hi \in Nat BY BoundsAssumption DEF Kept, Made
<1>3. /\ at = "requesting" /\ lo' = hi + 1 /\ hi' = hi + n /\ at' \in {"blank", "responded"}
      /\ at' = "blank" => n = 0
      /\ messages' = IF n + text = 0 THEN messages ELSE Speak(messages, "assistant", lo' .. hi')
  BY <1>1 DEF Hear
<1>4. PICK cs \in SUBSET Nat : cs = lo' .. hi' BY <1>2, <1>3
<1>5. 1 .. hi \subseteq 1 .. hi' /\ cs \subseteq 1 .. hi' /\ cs \cap 1 .. hi = {} /\ (n = 0 => cs = {})
  BY <1>2, <1>3, <1>4
<1>6. Asked' = Asked \cup cs /\ Replied' = Replied
  <2>1. messages \in Seq(Spoken) /\ "assistant" \in Roles BY DEF Kept, Made, Roles
  <2>2. /\ CallsOf(Speak(messages, "assistant", cs), "assistant")
             = CallsOf(messages, "assistant") \cup (IF "assistant" = "assistant" THEN cs ELSE {})
        /\ CallsOf(Speak(messages, "assistant", cs), "tool")
             = CallsOf(messages, "tool") \cup (IF "assistant" = "tool" THEN cs ELSE {})
    BY <2>1, CallsOfSaid
  <2>3. CASE n + text = 0
    <3>1. cs = {} /\ messages' = messages BY <1>2, <1>3, <1>5, <2>3
    <3>2. QED BY <3>1 DEF Asked, Replied
  <2>4. CASE n + text # 0
    <3>1. messages' = Speak(messages, "assistant", cs) BY <1>3, <1>4, <2>4
    <3>2. QED BY <2>2, <3>1 DEF Asked, Replied
  <2>5. QED BY <2>3, <2>4
<1>7. Asked \subseteq 1 .. hi /\ Replied \subseteq 1 .. hi /\ Asked \ Replied = {} BY <1>3 DEF Closed
<1>8. Asked' \subseteq 1 .. hi' /\ Replied' \subseteq 1 .. hi' /\ Asked' \ Replied' = cs BY <1>5, <1>6, <1>7
<1>9. QED BY <1>3, <1>4, <1>5, <1>8 DEF Closed

LEMMA ClosedAnswering ==
  ASSUME Kept, Closed, BatchEnds \/ CloseOpenToolCalls
  PROVE  Closed'
<1>1. PICK cs : cs = IF BatchEnds THEN lo .. hi ELSE Asked \ Replied OBVIOUS
<1>2. cs = Asked \ Replied
  <2>1. CASE BatchEnds BY <1>1, <2>1 DEF BatchEnds, Closed
  <2>2. CASE ~BatchEnds BY <1>1, <2>2
  <2>3. QED BY <2>1, <2>2
<1>3. messages' = AnswerAll(messages, cs) /\ hi' = hi /\ at' \in {"answering", "settling"}
  <2>1. CASE BatchEnds BY <1>1, <2>1 DEF BatchEnds
  <2>2. CASE ~BatchEnds BY <1>1, <2>2 DEF CloseOpenToolCalls, OpenCalls, Asked, Replied, batch
  <2>3. QED BY <2>1, <2>2
<1>4. Asked \subseteq 1 .. hi /\ Replied \subseteq 1 .. hi /\ messages \in Seq(Spoken) BY DEF Closed, Kept, Made
<1>5. cs \in SUBSET Nat BY <1>2, <1>4
<1>6. Asked' = Asked /\ Replied' = Replied \cup cs BY <1>3, <1>4, <1>5, CallsOfAnswered DEF Asked, Replied
<1>7. Asked' \ Replied' = {} /\ Replied' \subseteq 1 .. hi BY <1>2, <1>4, <1>6
<1>8. QED BY <1>3, <1>4, <1>6, <1>7 DEF Closed

LEMMA ClosedEndsAndBegins ==
  ASSUME Kept, Numbered, Shutdown \/ Crash \/ Resume
  PROVE  Closed'
<1>1. CASE Shutdown \/ Crash
  <2>1. at' = "down" /\ messages' = << >> BY <1>1 DEF Shutdown, Crash, Forget
  <2>2. Asked' = {} /\ Replied' = {} BY <2>1, CallsOfIs DEF Asked, Replied
  <2>3. QED BY <2>1, <2>2 DEF Closed
<1>2. CASE Resume
  <2>1. PICK es : es = ReadBack(file) OBVIOUS
  <2>2. at' = "idle" /\ messages' = Rebuilt(es) /\ hi' = hi BY <1>2, <2>1 DEF Resume, batch
  <2>3. es \in Seq(Events) /\ Calls(es) \subseteq 1 .. hi /\ Results(es) \subseteq 1 .. hi BY <2>1, OfTypeNumbered
  <2>4. Asked' = Calls(es) /\ Replied' = Calls(es) \cup Results(es) BY <2>2, <2>3, RebuiltCalls DEF Asked, Replied
  <2>5. QED BY <2>2, <2>3, <2>4 DEF Closed
<1>3. QED BY <1>1, <1>2

-----------------------------------------------------------------------------
(* The invariant of the session.                                           *)

Sound == Kept /\ Numbered /\ Gated /\ Closed

LEMMA SoundFirst == Init => Sound
<1> SUFFICES ASSUME Init PROVE Sound OBVIOUS
<1>1. PICK e : e = Event("session.started", 0, 1) OBVIOUS
<1>2. e \in Events /\ e.type = "session.started"
  <2>1. "session.started" \in EventTypes BY DEF EventTypes
  <2>2. QED BY <1>1, <2>1, EventIs
<1>3. /\ file = Appended(<< >>, e) /\ seq = 1 /\ snapshot = 0 /\ at = "booting" /\ messages = << >>
      /\ issued = {} /\ answered = {} /\ turns = << >> /\ requests = 0 /\ ending = "none"
      /\ lo = 1 /\ hi = 0 /\ pos = 1 /\ owed = {}
  BY <1>1 DEF Init
<1>4. /\ file \in Seq(Lines) /\ file # << >> /\ \A i \in 1 .. Len(file) : file[i].event = e
      /\ ReadBack(file) = Append(<< >>, e) \/ ~Unbroken(file)
  <2>1. << >> \in Seq(Lines) /\ Len(<< >>) = 0 OBVIOUS
  <2>2. /\ file \in Seq(Lines) /\ file # << >>
        /\ \A i \in 1 .. Len(file) : file[i].event \in {e} \cup {<< >>[j].event : j \in 1 .. Len(<< >>)}
        /\ Unbroken(file) => ReadBack(file) = Append(ReadBack(<< >>), e)
    BY <1>2, <1>3, <2>1, AppendedIs, Zenon
  <2>3. ReadBack(<< >>) = << >>
    <3>1. ReadBack(<< >>) \in Seq(Events) /\ Len(ReadBack(<< >>)) = 0
      <4>1. /\ ReadBack(<< >>) \in Seq(Events) /\ Len(ReadBack(<< >>)) \in 0 .. Len(<< >>)
        BY <2>1, ReadBackIs, LegibleIs
      <4>2. QED BY <2>1, <4>1
    <3>2. QED BY <3>1, EmptySeq
  <2>4. ASSUME NEW i \in 1 .. Len(file) PROVE file[i].event = e
    <3>1. {<< >>[j].event : j \in 1 .. Len(<< >>)} = {} BY <2>1
    <3>2. file[i].event \in {e} \cup {<< >>[j].event : j \in 1 .. Len(<< >>)} BY <2>2
    <3>3. QED BY <3>1, <3>2
  <2>5. QED BY <2>2, <2>3, <2>4
<1>5. Made BY <1>3, <1>4 DEF Made
<1>6. Placed BY <1>3, <1>4 DEF Placed, Places, Writing, Batching
<1>7. Numbered BY <1>2, <1>4 DEF Numbered, CallEvents, ResultEvents
<1>8. Gated
  <2>1. << >> \in Seq(Events) OBVIOUS
  <2>2. /\ Calls(Append(<< >>, e)) = Calls(<< >>) /\ Results(Append(<< >>, e)) = Results(<< >>)
        /\ Turns(Append(<< >>, e)) = Turns(<< >>)
    BY <1>2, <2>1, OneMore DEF ResultEvents, EndEvents
  <2>3. Calls(<< >>) = {} /\ Results(<< >>) = {} BY DEF Calls, Results, OfType
  <2>4. Turns(<< >>) = << >> BY <1>2, <2>1, TurnsOfMore
  <2>5. QED BY <1>3, <1>4, <2>2, <2>3, <2>4 DEF Gated
<1>9. Closed
  <2>1. Asked = {} /\ Replied = {} BY <1>3, CallsOfIs DEF Asked, Replied
  <2>2. QED BY <1>3, <2>1 DEF Closed
<1>10. QED BY <1>5, <1>6, <1>7, <1>8, <1>9 DEF Sound, Kept

LEMMA SoundNext == Sound /\ [Next]_vars => Sound'
<1> SUFFICES ASSUME Sound, [Next]_vars PROVE Sound' OBVIOUS
<1>1. Kept /\ Numbered /\ Gated /\ Closed BY DEF Sound
<1>2. OpenCalls(messages) \subseteq 1 .. hi BY <1>1 DEF Closed, Asked, Replied, OpenCalls
<1>3. CASE Booted \/ EnterLoop \/ HeedCancel \/ HearTooLate \/ Refuse \/ TransitionThrows \/
           HandleText \/ BatchThrows \/ EndStep \/ EndTurn \/ PersistMetadata \/ Cancel
  BY <1>1, <1>3, KeptWithoutWriting, GatedWithoutWriting, ClosedSilently DEF Sound
<1>4. CASE RunTurn BY <1>1, <1>4, KeptRemarking, GatedRemarking, ClosedRemarking DEF Sound
<1>5. CASE Nudge BY <1>1, <1>5, KeptRemarking, GatedWithoutWriting, ClosedRemarking DEF Sound
<1>6. CASE OverBudget \/ SendRequest \/ HearFailure \/ LogOutcome
  BY <1>1, <1>6, KeptRemarking, GatedRemarking, ClosedSilently DEF Sound
<1>7. CASE HearAnswer BY <1>1, <1>7, KeptHearing, GatedRemarking, ClosedHearing DEF Sound
<1>8. CASE HandleCalls \/ LogResult BY <1>1, <1>2, <1>8, KeptBatching, GatedBatching, ClosedSilently DEF Sound
<1>9. CASE BatchEnds BY <1>1, <1>2, <1>9, KeptBatching, GatedBatching, ClosedAnswering DEF Sound
<1>10. CASE CloseOpenToolCalls BY <1>1, <1>2, <1>10, KeptClosing, GatedBatching, ClosedAnswering DEF Sound
<1>11. CASE LogSynthetic BY <1>1, <1>2, <1>11, KeptClosing, GatedBatching, ClosedSilently DEF Sound
<1>12. CASE Shutdown \/ Crash BY <1>1, <1>12, KeptEnding, GatedEndsAndBegins, ClosedEndsAndBegins DEF Sound
<1>13. CASE Resume BY <1>1, <1>13, KeptResuming, GatedEndsAndBegins, ClosedEndsAndBegins DEF Sound
<1>14. CASE UNCHANGED vars
  <2>1. UNCHANGED <<file, snapshot, at, seq, messages, issued, answered, turns, requests, ending, lo, hi, pos, owed>>
    BY <1>14 DEF vars
  <2>2. Kept' BY <1>1, <2>1 DEF Kept, Made, Placed
  <2>3. Numbered' BY <1>1, <2>1 DEF Numbered
  <2>4. Gated' BY <1>1, <2>1 DEF Gated
  <2>5. Closed' BY <1>1, <2>1 DEF Closed, Asked, Replied
  <2>6. QED BY <2>2, <2>3, <2>4, <2>5 DEF Sound
<1>15. QED BY <1>3, <1>4, <1>5, <1>6, <1>7, <1>8, <1>9, <1>10, <1>11, <1>12, <1>13, <1>14 DEF Next

LEMMA AlwaysSound == Spec => []Sound
<1>1. QED BY SoundFirst, SoundNext, PTL DEF Spec

(* The replay gate over restarts: over any number of processes, crashes, turns and
   calls, as long as no line of the log is damaged, what a session between two turns
   reports of itself is what its log replays to (session/terminal-state.ts). *)
THEOREM GateOverRestarts == Spec => []ResumedGate
<1>1. Sound => ResumedGate BY DEF Sound, Gated, ResumedGate, LogTells
<1>2. QED BY <1>1, AlwaysSound, PTL

(* No call is without an answer when the model is asked or a turn is awaited, after any
   number of crashes and whatever is left of the log (session.ts, closeOpenToolCalls;
   session/resume.ts). *)
THEOREM NoCallUnanswered == Spec => []AllAnswered
<1>1. Sound => AllAnswered BY DEF Sound, Closed, Asked, Replied, AllAnswered, OpenCalls
<1>2. QED BY <1>1, AlwaysSound, PTL

-----------------------------------------------------------------------------
(* What is said, and what of it is an exchange.                            *)

LEMMA ExchangesSpoken ==
  ASSUME NEW ms \in Seq(Spoken), NEW role \in Roles, NEW cs \in SUBSET Nat
  PROVE  Exchanges(Speak(ms, role, cs))
           = IF role = "user" \/ cs # {} THEN Append(Exchanges(ms), Message(role, cs)) ELSE Exchanges(ms)
<1>1. PICK m \in Spoken : m = Message(role, cs) BY SpeakIs
<1>2. m.role = role /\ m.calls = cs BY <1>1 DEF Message
<1>3. Speak(ms, role, cs) = Append(ms, m) BY <1>1 DEF Speak
<1>4. Exchanges(Append(ms, m)) = Exchanged(Exchanges(ms), m) BY ExchangesOfMore
<1>5. QED BY <1>1, <1>2, <1>3, <1>4 DEF Exchanged

(* The same said after the same exchanges makes the same exchanges. *)
LEMMA SaidAlike ==
  ASSUME NEW a \in Seq(Spoken), NEW b \in Seq(Spoken), Exchanges(a) = Exchanges(b),
         NEW role \in Roles, NEW cs \in SUBSET Nat
  PROVE  /\ Exchanges(Speak(a, role, cs)) = Exchanges(Speak(b, role, cs))
         /\ Exchanges(AnswerAll(a, cs)) = Exchanges(AnswerAll(b, cs))
<1>1. ASSUME NEW r \in Roles PROVE Exchanges(Speak(a, r, cs)) = Exchanges(Speak(b, r, cs))
  <2>1. Exchanges(Speak(a, r, cs))
          = IF r = "user" \/ cs # {} THEN Append(Exchanges(a), Message(r, cs)) ELSE Exchanges(a)
    BY ExchangesSpoken
  <2>2. Exchanges(Speak(b, r, cs))
          = IF r = "user" \/ cs # {} THEN Append(Exchanges(b), Message(r, cs)) ELSE Exchanges(b)
    BY ExchangesSpoken
  <2>3. QED BY <2>1, <2>2
<1>2. "tool" \in Roles BY DEF Roles
<1>3. CASE cs = {} BY <1>1, <1>3 DEF AnswerAll
<1>4. CASE cs # {} BY <1>1, <1>2, <1>4 DEF AnswerAll
<1>5. QED BY <1>1, <1>3, <1>4

NoCallsLast(ms) == ms = << >> \/ Last(ms).role # "assistant" \/ Last(ms).calls = {}

LEMMA LastSpoken ==
  ASSUME NEW ms \in Seq(Spoken), NEW role \in Roles, NEW cs \in SUBSET Nat
  PROVE  /\ Speak(ms, role, cs) # << >> /\ Len(Speak(ms, role, cs)) = Len(ms) + 1
         /\ Last(Speak(ms, role, cs)) = Message(role, cs)
         /\ role # "assistant" \/ cs = {} => NoCallsLast(Speak(ms, role, cs))
<1>1. PICK m \in Spoken : m = Message(role, cs) BY SpeakIs
<1>2. Speak(ms, role, cs) = Append(ms, m) BY <1>1 DEF Speak
<1>3. Len(ms) \in Nat /\ Len(Append(ms, m)) = Len(ms) + 1 /\ Append(ms, m)[Len(ms) + 1] = m OBVIOUS
<1>4. Append(ms, m) # << >> BY <1>3
<1>5. Last(Append(ms, m)) = m BY <1>3 DEF Last
<1>6. m.role = role /\ m.calls = cs BY <1>1 DEF Message
<1>7. QED BY <1>1, <1>2, <1>3, <1>4, <1>5, <1>6 DEF NoCallsLast

LEMMA CallJoins ==
  ASSUME NEW ms \in Seq(Spoken), NEW cs \in SUBSET Nat, NEW c \in Nat
  PROVE  AddCall(Speak(ms, "assistant", cs), c) = Speak(ms, "assistant", cs \cup {c})
<1>1. PICK m \in Spoken : m = Message("assistant", cs)
  <2>1. "assistant" \in Roles BY DEF Roles
  <2>2. QED BY <2>1, SpeakIs
<1>2. PICK w \in Spoken : w = Message("assistant", cs \cup {c})
  <2>1. "assistant" \in Roles /\ cs \cup {c} \in SUBSET Nat BY DEF Roles
  <2>2. QED BY <2>1, SpeakIs
<1>3. m.role = "assistant" /\ m.calls = cs /\ w = [m EXCEPT !.calls = @ \cup {c}]
  <2>1. m.role = "assistant" /\ m.calls = cs BY <1>1 DEF Message
  <2>2. w.role = "assistant" /\ w.calls = cs \cup {c} BY <1>2 DEF Message
  <2>3. PICK v \in Spoken : v = [m EXCEPT !.calls = @ \cup {c}] BY <2>1 DEF Spoken
  <2>4. v.role = "assistant" /\ v.calls = cs \cup {c} BY <2>1, <2>3 DEF Spoken
  <2>5. v = w
    <3>1. v = [role |-> v.role, calls |-> v.calls] BY <2>3 DEF Spoken
    <3>2. QED BY <1>2, <2>4, <3>1 DEF Message
  <2>6. QED BY <2>1, <2>3, <2>5
<1>4. PICK qs : qs = Append(ms, m) OBVIOUS
<1>5. /\ qs \in Seq(Spoken) /\ Len(qs) = Len(ms) + 1 /\ qs[Len(qs)] = m /\ qs # << >> /\ Len(ms) \in Nat
      /\ \A i \in 1 .. Len(ms) : qs[i] = ms[i]
  BY <1>4
<1>6. Last(qs).role = "assistant" BY <1>3, <1>5 DEF Last
<1>7. AddCall(qs, c) = [qs EXCEPT ![Len(qs)].calls = @ \cup {c}] BY <1>5, <1>6 DEF AddCall
<1>8. Len(qs) \in 1 .. Len(qs) BY <1>5
<1>9. [qs EXCEPT ![Len(qs)].calls = @ \cup {c}] = [qs EXCEPT ![Len(qs)] = w] BY <1>3, <1>5, <1>8
<1>10. PICK ps : ps = [qs EXCEPT ![Len(qs)] = w] OBVIOUS
<1>11. ps \in Seq(Spoken) /\ Len(ps) = Len(ms) + 1 /\ \A i \in 1 .. Len(ms) + 1 : ps[i] = IF i = Len(ms) + 1 THEN w ELSE ms[i]
  BY <1>2, <1>5, <1>8, <1>10
<1>12. /\ Append(ms, w) \in Seq(Spoken) /\ Len(Append(ms, w)) = Len(ms) + 1
       /\ \A i \in 1 .. Len(ms) + 1 : Append(ms, w)[i] = IF i = Len(ms) + 1 THEN w ELSE ms[i]
  BY <1>2, <1>5
<1>13. ps = Append(ms, w) BY <1>11, <1>12, SeqEqual
<1>14. QED BY <1>1, <1>2, <1>4, <1>7, <1>9, <1>10, <1>13 DEF Speak

(* The first call of a response begins a message, or joins its text. *)
LEMMA CallBegins ==
  ASSUME NEW ms \in Seq(Spoken), NoCallsLast(ms), NEW c \in Nat
  PROVE  \E rest \in Seq(Spoken) : AddCall(ms, c) = Speak(rest, "assistant", {c}) /\ Exchanges(rest) = Exchanges(ms)
<1>1. CASE ~(ms # << >> /\ Last(ms).role = "assistant") BY <1>1 DEF AddCall
<1>2. CASE ms # << >> /\ Last(ms).role = "assistant"
  <2>1. Len(ms) \in Nat \ {0} /\ Last(ms) = ms[Len(ms)] BY <1>2, EmptySeq DEF Last
  <2>2. ms[Len(ms)].calls = {} /\ ms[Len(ms)].role = "assistant" BY <1>2, <2>1 DEF NoCallsLast
  <2>3. ms[Len(ms)] \in Spoken BY <2>1
  <2>4. ms[Len(ms)] = Message("assistant", {}) BY <2>2, <2>3 DEF Spoken, Message
  <2>5. PICK n \in Nat : n = Len(ms) - 1 BY <2>1
  <2>6. PICK rest : rest = SubSeq(ms, 1, n) OBVIOUS
  <2>7. rest \in Seq(Spoken) /\ Len(rest) = n /\ \A i \in 1 .. n : rest[i] = ms[i]
    <3>1. 1 \in Int /\ n \in Int /\ \A i \in 1 .. n : ms[i] \in Spoken BY <2>1, <2>5
    <3>2. /\ SubSeq(ms, 1, n) \in Seq(Spoken) /\ Len(SubSeq(ms, 1, n)) = IF 1 <= n THEN n - 1 + 1 ELSE 0
          /\ \A i \in 1 .. n - 1 + 1 : SubSeq(ms, 1, n)[i] = ms[1 + i - 1]
      BY <3>1, SubSeqProperties
    <3>3. QED BY <2>5, <2>6, <3>2
  <2>8. PICK m \in Spoken : m = ms[Len(ms)] BY <2>3
  <2>9. /\ Append(rest, m) \in Seq(Spoken) /\ Len(Append(rest, m)) = Len(ms)
        /\ \A i \in 1 .. Len(ms) : Append(rest, m)[i] = ms[i]
    <3>1. /\ Append(rest, m) \in Seq(Spoken) /\ Len(Append(rest, m)) = n + 1
          /\ \A i \in 1 .. n + 1 : Append(rest, m)[i] = IF i = n + 1 THEN m ELSE rest[i]
      BY <2>7, <2>8
    <3>2. n + 1 = Len(ms) /\ \A i \in 1 .. n + 1 : i # n + 1 => i \in 1 .. n BY <2>1, <2>5
    <3>3. QED BY <2>7, <2>8, <3>1, <3>2
  <2>10. ms = Append(rest, m) BY <2>9, SeqEqual
  <2>11. ms = Speak(rest, "assistant", {}) BY <2>4, <2>8, <2>10 DEF Speak
  <2>12. {} \in SUBSET Nat /\ "assistant" \in Roles BY DEF Roles
  <2>13. AddCall(ms, c) = Speak(rest, "assistant", {c})
    <3>1. AddCall(Speak(rest, "assistant", {}), c) = Speak(rest, "assistant", {} \cup {c}) BY <2>7, <2>12, CallJoins
    <3>2. QED BY <2>11, <3>1
  <2>14. Exchanges(ms) = Exchanges(rest) BY <2>7, <2>11, <2>12, ExchangesSpoken
  <2>15. QED BY <2>7, <2>13, <2>14
<1>3. QED BY <1>1, <1>2

-----------------------------------------------------------------------------
(* How far the log is with the calls of the last response.                 *)

Batch == lo .. hi

Tallied ==
  /\ at = "responded" => issued \cap Batch = {} /\ answered \cap Batch = {}
  /\ at = "issuing" => issued \cap Batch = lo .. pos - 1 /\ answered \cap Batch = {}
  /\ at = "answering" => Batch \subseteq issued /\ answered \cap Batch = lo .. pos - 1
  /\ at = "closing" /\ Asked \ Replied # {} => answered \cap Batch = {}
  /\ at = "settling" => owed \subseteq Batch /\ answered \cap Batch = Batch \ owed

LEMMA TalliedSilently ==
  ASSUME Kept, Closed, Tallied,
         Booted \/ EnterLoop \/ HeedCancel \/ HearTooLate \/ Refuse \/ TransitionThrows \/
         HandleText \/ BatchThrows \/ EndStep \/ EndTurn \/ PersistMetadata \/ Cancel \/ Nudge \/
         RunTurn \/ OverBudget \/ SendRequest \/ HearFailure \/ LogOutcome
  PROVE  Tallied'
<1>1. UNCHANGED <<issued, answered, lo, hi, pos, owed>>
  BY DEF Booted, EnterLoop, HeedCancel, HearTooLate, Refuse, TransitionThrows, HandleText, BatchThrows, EndStep,
         EndTurn, PersistMetadata, Cancel, Nudge, RunTurn, OverBudget, SendRequest, HearFailure, LogOutcome, live, batch
<1>2. Batch' = Batch BY <1>1 DEF Batch
<1>3. CASE Cancel
  <2>1. at' = at /\ messages' = messages BY <1>3 DEF Cancel
  <2>2. Asked' = Asked /\ Replied' = Replied BY <2>1 DEF Asked, Replied
  <2>3. QED BY <1>1, <1>2, <2>1, <2>2 DEF Tallied
<1>4. CASE ~Cancel
  <2>1. /\ at' \notin {"responded", "issuing", "answering", "settling"}
        /\ at' = "closing" => /\ messages' = messages
                              /\ \/ at \in {"responded", "issuing"}
                                 \/ at \notin {"responded", "issuing", "closing"}
    BY <1>4 DEF Booted, EnterLoop, HeedCancel, HearTooLate, Refuse, TransitionThrows, HandleText, BatchThrows, EndStep,
         EndTurn, PersistMetadata, Nudge, RunTurn, OverBudget, SendRequest, HearFailure, LogOutcome
  <2>2. CASE at' # "closing" BY <2>1, <2>2 DEF Tallied
  <2>3. CASE at' = "closing"
    <3>1. Asked' = Asked /\ Replied' = Replied BY <2>1, <2>3 DEF Asked, Replied
    <3>2. Asked \ Replied # {} => answered \cap Batch = {} BY <2>1, <2>3 DEF Closed, Tallied
    <3>3. QED BY <1>1, <1>2, <2>3, <3>1, <3>2 DEF Tallied
  <2>4. QED BY <2>2, <2>3
<1>5. QED BY <1>3, <1>4

LEMMA TalliedHearing ==
  ASSUME Kept, HearAnswer
  PROVE  Tallied'
<1>1. PICK n \in 0 .. MaxBatch, text \in 0 .. 1, blank \in BOOLEAN : Hear(n, text, blank) BY DEF HearAnswer
<1>2. /\ lo' = hi + 1 /\ hi' = hi + n /\ at' \in {"blank", "responded"} /\ issued' = issued /\ answered' = answered
  BY <1>1 DEF Hear
<1>3. issued \subseteq 1 .. hi /\ answered \subseteq 1 .. hi /\ hi \in Nat BY DEF Kept, Made
<1>4. Batch' \cap 1 .. hi = {} BY <1>2, <1>3 DEF Batch
<1>5. QED BY <1>2, <1>3, <1>4 DEF Tallied

LEMMA TalliedBatching ==
  ASSUME Kept, Tallied, HandleCalls \/ BatchEnds \/ LogResult
  PROVE  Tallied'
<1>1. lo \in Nat /\ hi \in Nat /\ pos \in Nat /\ lo <= pos /\ pos <= hi + 1 BY DEF Kept, Made
<1>2. Batch' = Batch /\ lo' = lo BY DEF Batch, HandleCalls, BatchEnds, LogResult
<1>3. CASE HandleCalls
  <2>1. /\ at \in {"responded", "issuing"} /\ at' = "issuing" /\ pos \in Batch /\ pos' = pos + 1
        /\ issued' = issued \cup {pos} /\ answered' = answered
    BY <1>1, <1>3 DEF HandleCalls, Batch, Kept, Placed
  <2>2. issued \cap Batch = lo .. pos - 1 /\ answered \cap Batch = {}
    BY <1>1, <2>1 DEF Tallied, Kept, Placed
  <2>3. (lo .. pos - 1) \cup {pos} = lo .. (pos + 1) - 1 BY <1>1
  <2>4. issued' \cap Batch = lo .. pos' - 1 BY <2>1, <2>2, <2>3
  <2>5. QED BY <1>2, <2>1, <2>2, <2>4 DEF Tallied
<1>4. CASE BatchEnds
  <2>1. /\ at = "issuing" /\ at' = "answering" /\ pos = hi + 1 /\ pos' = lo + 1
        /\ issued' = issued /\ answered' = answered \cup {lo}
    BY <1>1, <1>4 DEF BatchEnds
  <2>2. issued \cap Batch = Batch /\ answered \cap Batch = {}
    <3>1. lo .. pos - 1 = Batch BY <1>1, <2>1 DEF Batch
    <3>2. QED BY <2>1, <3>1 DEF Tallied
  <2>3. lo \in Batch /\ lo .. (lo + 1) - 1 = {lo} BY <1>1, <2>1 DEF Batch, Kept, Placed, Batching
  <2>4. answered' \cap Batch = lo .. pos' - 1 BY <2>1, <2>2, <2>3
  <2>5. QED BY <1>2, <2>1, <2>2, <2>4 DEF Tallied
<1>5. CASE LogResult
  <2>1. /\ at = "answering" /\ at' = "answering" /\ pos \in Batch /\ pos' = pos + 1
        /\ issued' = issued /\ answered' = answered \cup {pos}
    BY <1>1, <1>5 DEF LogResult, Batch
  <2>2. Batch \subseteq issued /\ answered \cap Batch = lo .. pos - 1 BY <2>1 DEF Tallied
  <2>3. (lo .. pos - 1) \cup {pos} = lo .. (pos + 1) - 1 BY <1>1
  <2>4. answered' \cap Batch = lo .. pos' - 1 BY <2>1, <2>2, <2>3
  <2>5. QED BY <1>2, <2>1, <2>2, <2>4 DEF Tallied
<1>6. QED BY <1>3, <1>4, <1>5

LEMMA TalliedClosing ==
  ASSUME Kept, Closed, Tallied, CloseOpenToolCalls \/ LogSynthetic
  PROVE  Tallied'
<1>1. Batch' = Batch BY DEF Batch, batch, CloseOpenToolCalls, LogSynthetic
<1>2. CASE CloseOpenToolCalls
  <2>1. Asked \ Replied # {} /\ at = "closing" BY <1>2 DEF CloseOpenToolCalls, OpenCalls, Asked, Replied
  <2>2. OpenCalls(messages) = Batch /\ Batch # {} /\ answered \cap Batch = {}
    BY <2>1 DEF Closed, Tallied, OpenCalls, Asked, Replied, Batch
  <2>3. /\ at' = "settling" /\ answered' = answered \cup {Min(Batch)} /\ owed' = Batch \ {Min(Batch)}
    BY <1>2, <2>2 DEF CloseOpenToolCalls
  <2>4. Batch \subseteq Nat BY DEF Kept, Made, Batch
  <2>5. Min(Batch) \in Batch BY <2>2, <2>4, MinIs
  <2>6. QED BY <1>1, <2>2, <2>3, <2>5 DEF Tallied
<1>3. CASE LogSynthetic
  <2>1. owed \subseteq Batch /\ answered \cap Batch = Batch \ owed BY <1>3 DEF LogSynthetic, Tallied
  <2>2. /\ at' = "settling" /\ answered' = answered \cup {Min(owed)} /\ owed' = owed \ {Min(owed)} /\ owed # {}
    BY <1>3 DEF LogSynthetic
  <2>3. owed \subseteq Nat BY DEF Kept, Made
  <2>4. Min(owed) \in owed BY <2>2, <2>3, MinIs
  <2>5. QED BY <1>1, <2>1, <2>2, <2>4 DEF Tallied
<1>4. QED BY <1>2, <1>3

LEMMA TalliedEndsAndBegins ==
  ASSUME Shutdown \/ Crash \/ Resume
  PROVE  Tallied'
BY DEF Shutdown, Crash, Forget, Resume, Tallied

-----------------------------------------------------------------------------
(* The conversation and the tale of the log.                               *)

TheTale == Told(ReadBack(file))

(* Up to the last response the log and the session agree on what was answered. *)
Even == issued \cap (1 .. lo - 1) = answered \cap (1 .. lo - 1)

Quiet ==
  \/ at \in {"booting", "idle", "started", "top", "requesting", "blank", "refused", "ended", "persisting"}
  \/ at = "closing" /\ Asked \ Replied = {}

(* The tale, with its pending answers, has the exchanges of the conversation. *)
Retells(r, ms) == Exchanges(AnswerAll(r.ms, r.pending)) = Exchanges(ms)

(* A call would not join a message whose calls were answered. *)
Ready(r) == r.pending # {} \/ NoCallsLast(r.ms)

(* The response is in the conversation, and only its text in the tale. *)
AsHeard(r, ms, cs) ==
  /\ r.pending = {} /\ NoCallsLast(r.ms)
  /\ \E before \in Seq(Spoken) : ms = Speak(before, "assistant", cs) /\ Exchanges(r.ms) = Exchanges(before)

(* Some of its calls are in the tale, in one message. *)
AsIssued(r, ms, cs, told) ==
  /\ r.pending = {}
  /\ \E before \in Seq(Spoken), rest \in Seq(Spoken) :
       /\ ms = Speak(before, "assistant", cs) /\ r.ms = Speak(rest, "assistant", told)
       /\ Exchanges(rest) = Exchanges(before)

(* Its results are in the conversation, and some of them pending in the tale. *)
AsAnswered(r, ms, cs, told) ==
  /\ r.pending = told
  /\ \E before \in Seq(Spoken) : ms = Speak(before, "tool", cs) /\ Exchanges(r.ms) = Exchanges(before)

Telling ==
  at # "down" /\ Unbroken(file) =>
    /\ Quiet /\ issued = answered => Retells(TheTale, messages)
    /\ at \in {"started", "top", "requesting", "blank"} /\ issued = answered => Ready(TheTale)
    /\ at = "responded" /\ Even => AsHeard(TheTale, messages, Batch)
    /\ at = "issuing" /\ Even => AsIssued(TheTale, messages, Batch, lo .. pos - 1)
    /\ at = "answering" /\ Even => AsAnswered(TheTale, messages, Batch, lo .. pos - 1)
    /\ at = "closing" /\ Asked \ Replied # {} /\ Even /\ Batch \subseteq issued =>
         TheTale.pending = {} /\ Exchanges(TheTale.ms) = Exchanges(messages)
    /\ at = "settling" /\ Even /\ Batch \subseteq issued => AsAnswered(TheTale, messages, Batch, Batch \ owed)

LEMMA TaleOfMore ==
  ASSUME Kept, NEW type \in EventTypes, NEW d \in Nat, Write(type, d), Unbroken(file)'
  PROVE  /\ Unbroken(file) /\ TheTale \in Tales /\ TheTale' \in Tales
         /\ type = "turn.started" =>
              TheTale' = [ms |-> Speak(AnswerAll(TheTale.ms, TheTale.pending), "user", {}), pending |-> {}]
         /\ type = "model.request.completed" =>
              TheTale' = [ms |-> IF d > 0 THEN Speak(AnswerAll(TheTale.ms, TheTale.pending), "assistant", {})
                                 ELSE AnswerAll(TheTale.ms, TheTale.pending),
                          pending |-> {}]
         /\ type = "tool.call" => TheTale' = [ms |-> AddCall(TheTale.ms, d), pending |-> TheTale.pending]
         /\ type \in ResultEvents => TheTale' = [ms |-> TheTale.ms, pending |-> TheTale.pending \cup {d}]
         /\ type \notin {"turn.started", "model.request.completed", "tool.call"} \cup ResultEvents => TheTale' = TheTale
<1>1. file \in Seq(Lines) /\ seq \in Nat BY DEF Kept, Made
<1>2. PICK e : e = Event(type, d, seq + 1) OBVIOUS
<1>3. Unbroken(file) /\ ReadBack(file)' = Append(ReadBack(file), e) /\ e \in Events BY <1>1, <1>2, WriteIs
<1>4. e.type = type /\ e.datum = d BY <1>1, <1>2, EventIs
<1>5. PICK es \in Seq(Events) : es = ReadBack(file) BY <1>1, ReadBackIs
<1>6. PICK r \in Tales : r = Told(es) BY TaleIs
<1>7. TheTale = r /\ TheTale' = Retold(r, e) BY <1>3, <1>5, <1>6, ToldOfMore DEF TheTale
<1>8. Retold(r, e) \in Tales BY <1>3, RetoldTyped
<1>9. /\ e.type = "turn.started" =>
           Retold(r, e) = [ms |-> Speak(AnswerAll(r.ms, r.pending), "user", {}), pending |-> {}]
      /\ e.type = "model.request.completed" =>
           Retold(r, e) = [ms |-> IF e.datum > 0 THEN Speak(AnswerAll(r.ms, r.pending), "assistant", {})
                                  ELSE AnswerAll(r.ms, r.pending),
                           pending |-> {}]
      /\ e.type = "tool.call" => Retold(r, e) = [ms |-> AddCall(r.ms, e.datum), pending |-> r.pending]
      /\ e.type \in ResultEvents => Retold(r, e) = [ms |-> r.ms, pending |-> r.pending \cup {e.datum}]
      /\ e.type \notin {"turn.started", "model.request.completed", "tool.call"} \cup ResultEvents => Retold(r, e) = r
  BY <1>3, RetoldIs DEF ResultEvents
<1>10. QED BY <1>3, <1>4, <1>7, <1>8, <1>9

LEMMA TheTaleIs ==
  ASSUME Kept
  PROVE  TheTale.ms \in Seq(Spoken) /\ TheTale.pending \in SUBSET Nat /\ messages \in Seq(Spoken)
<1>1. file \in Seq(Lines) /\ messages \in Seq(Spoken) BY DEF Kept, Made
<1>2. ReadBack(file) \in Seq(Events) BY <1>1, ReadBackIs
<1>3. Told(ReadBack(file)) \in Tales BY <1>2, TaleIs
<1>4. QED BY <1>1, <1>3 DEF TheTale, Tales

(* Answers that are in the tale, all of them. *)
LEMMA AllTold ==
  ASSUME NEW r \in Tales, NEW ms \in Seq(Spoken), NEW cs \in SUBSET Nat, cs # {}, AsAnswered(r, ms, cs, cs)
  PROVE  Retells(r, ms) /\ Ready(r)
<1>1. PICK before \in Seq(Spoken) : ms = Speak(before, "tool", cs) /\ Exchanges(r.ms) = Exchanges(before)
  BY DEF AsAnswered
<1>2. r.pending = cs /\ r.ms \in Seq(Spoken) /\ "tool" \in Roles BY DEF AsAnswered, Tales, Roles
<1>3. Exchanges(Speak(r.ms, "tool", cs)) = Exchanges(Speak(before, "tool", cs)) BY <1>1, <1>2, SaidAlike
<1>4. AnswerAll(r.ms, r.pending) = Speak(r.ms, "tool", cs) BY <1>2 DEF AnswerAll
<1>5. QED BY <1>1, <1>2, <1>3, <1>4 DEF Retells, Ready

(* Text and no calls: the tale has what there is. *)
LEMMA TextTold ==
  ASSUME NEW r \in Tales, NEW ms \in Seq(Spoken), AsHeard(r, ms, {})
  PROVE  Retells(r, ms)
<1>1. PICK before \in Seq(Spoken) : ms = Speak(before, "assistant", {}) /\ Exchanges(r.ms) = Exchanges(before)
  BY DEF AsHeard
<1>2. "assistant" \in Roles /\ {} \in SUBSET Nat BY DEF Roles
<1>3. Exchanges(ms) = Exchanges(before) BY <1>1, <1>2, ExchangesSpoken
<1>4. AnswerAll(r.ms, r.pending) = r.ms BY DEF AsHeard, AnswerAll
<1>5. QED BY <1>1, <1>3, <1>4 DEF Retells

LEMMA TellingUnmoved ==
  ASSUME Kept, Closed, Tallied, Telling,
         Booted \/ EnterLoop \/ HeedCancel \/ HearTooLate \/ Refuse \/ TransitionThrows \/
         HandleText \/ BatchThrows \/ EndStep \/ EndTurn \/ PersistMetadata \/ Cancel
  PROVE  Telling'
<1>1. UNCHANGED <<file, messages, issued, answered, lo, hi, pos, owed>>
  BY DEF Booted, EnterLoop, HeedCancel, HearTooLate, Refuse, TransitionThrows, HandleText, BatchThrows, EndStep,
         EndTurn, PersistMetadata, Cancel, disk, live, batch
<1>2. /\ TheTale' = TheTale /\ Batch' = Batch /\ Even' = Even /\ Asked' = Asked /\ Replied' = Replied
      /\ Unbroken(file)' = Unbroken(file)
  BY <1>1 DEF TheTale, Batch, Even, Asked, Replied
<1>3. lo \in Nat /\ hi \in Nat /\ pos \in Nat /\ lo <= pos /\ pos <= hi + 1 BY DEF Kept, Made
<1>4. PICK r \in Tales : r = TheTale
  <2>1. ReadBack(file) \in Seq(Events) BY ReadBackIs DEF Kept, Made
  <2>2. QED BY <2>1, TaleIs DEF TheTale
<1>5. messages \in Seq(Spoken) /\ Batch \in SUBSET Nat BY <1>3 DEF Kept, Made, Batch
<1>6. CASE Cancel
  <2>1. at' = at BY <1>6 DEF Cancel
  <2>2. Quiet' = Quiet BY <1>2, <2>1 DEF Quiet
  <2>3. QED BY <1>1, <1>2, <2>1, <2>2 DEF Telling
<1> SUFFICES ASSUME ~Cancel, Unbroken(file) PROVE Telling' BY <1>2, <1>6 DEF Telling
<1>7. at # "down" /\ at' # "down"
  BY DEF Booted, EnterLoop, HeedCancel, HearTooLate, Refuse, TransitionThrows, HandleText, BatchThrows, EndStep,
         EndTurn, PersistMetadata
<1>8. CASE Booted \/ EnterLoop \/ HeedCancel \/ HearTooLate \/ Refuse \/ EndTurn \/ PersistMetadata
  <2>1. at \in {"booting", "idle", "started", "top", "requesting", "blank", "refused", "ended", "persisting"}
    BY <1>8 DEF Booted, EnterLoop, HeedCancel, HearTooLate, Refuse, EndTurn, PersistMetadata
  <2>2. Quiet /\ Asked \ Replied = {} BY <2>1 DEF Quiet, Closed
  <2>3. at' \in {"idle", "persisting", "closing"} \/ (at' = "top" /\ at = "started")
    BY <1>8 DEF Booted, EnterLoop, HeedCancel, HearTooLate, Refuse, EndTurn, PersistMetadata
  <2>4. QED BY <1>1, <1>2, <1>7, <2>2, <2>3 DEF Telling
<1>9. CASE TransitionThrows \/ HandleText
  <2>1. at = "responded" /\ at' = "closing" /\ Asked \ Replied = Batch /\ issued \cap Batch = {}
    BY <1>9 DEF TransitionThrows, HandleText, Closed, Tallied, Batch
  <2>2. CASE Batch # {}
    <3>1. ~(Batch \subseteq issued) BY <2>1, <2>2
    <3>2. QED BY <1>1, <1>2, <2>1, <2>2, <3>1 DEF Telling, Quiet
  <2>3. CASE Batch = {}
    <3>1. issued = answered => Retells(TheTale, messages)
      <4>1. SUFFICES ASSUME issued = answered PROVE Retells(TheTale, messages) OBVIOUS
      <4>2. Even BY <4>1 DEF Even
      <4>3. AsHeard(r, messages, {}) BY <1>4, <1>7, <2>1, <2>3, <4>2 DEF Telling
      <4>4. QED BY <1>4, <1>5, <4>3, TextTold
    <3>2. QED BY <1>1, <1>2, <2>1, <2>3, <3>1 DEF Telling
  <2>4. QED BY <2>2, <2>3
<1>10. CASE BatchThrows
  <2>1. at = "issuing" /\ at' = "closing" /\ pos = hi + 1 /\ Asked \ Replied = Batch
    BY <1>3, <1>10 DEF BatchThrows, Closed, Batch
  <2>2. lo .. pos - 1 = Batch /\ Batch # {}
    <3>1. lo < pos BY <2>1 DEF Kept, Placed, Batching
    <3>2. lo \in Batch BY <1>3, <2>1, <3>1 DEF Batch
    <3>3. pos - 1 = hi BY <1>3, <2>1
    <3>4. QED BY <3>2, <3>3 DEF Batch
  <2>3. Even => r.pending = {} /\ Exchanges(r.ms) = Exchanges(messages)
    <3>1. SUFFICES ASSUME Even PROVE r.pending = {} /\ Exchanges(r.ms) = Exchanges(messages) OBVIOUS
    <3>2. AsIssued(r, messages, Batch, Batch) BY <1>4, <1>7, <2>1, <2>2, <3>1 DEF Telling
    <3>3. PICK before \in Seq(Spoken), rest \in Seq(Spoken) :
            /\ messages = Speak(before, "assistant", Batch) /\ r.ms = Speak(rest, "assistant", Batch)
            /\ Exchanges(rest) = Exchanges(before)
      BY <3>2 DEF AsIssued
    <3>4. "assistant" \in Roles BY DEF Roles
    <3>5. Exchanges(Speak(rest, "assistant", Batch)) = Exchanges(Speak(before, "assistant", Batch))
      BY <1>5, <3>3, <3>4, SaidAlike
    <3>6. QED BY <3>2, <3>3, <3>5 DEF AsIssued
  <2>4. QED BY <1>1, <1>2, <1>4, <2>1, <2>2, <2>3 DEF Telling, Quiet
<1>11. CASE EndStep
  <2>1. at = "answering" /\ at' \in {"top", "closing"} /\ pos = hi + 1 /\ Asked \ Replied = {}
    BY <1>3, <1>11 DEF EndStep, Closed
  <2>2. lo .. pos - 1 = Batch /\ Batch # {}
    <3>1. lo < pos BY <2>1 DEF Kept, Placed, Batching
    <3>2. lo \in Batch BY <1>3, <2>1, <3>1 DEF Batch
    <3>3. pos - 1 = hi BY <1>3, <2>1
    <3>4. QED BY <3>2, <3>3 DEF Batch
  <2>3. issued = answered => Retells(r, messages) /\ Ready(r)
    <3>1. SUFFICES ASSUME issued = answered PROVE Retells(r, messages) /\ Ready(r) OBVIOUS
    <3>2. Even BY <3>1 DEF Even
    <3>3. AsAnswered(r, messages, Batch, Batch) BY <1>4, <1>7, <2>1, <2>2, <3>2 DEF Telling
    <3>4. QED BY <1>4, <1>5, <2>2, <3>3, AllTold
  <2>4. QED BY <1>1, <1>2, <1>4, <2>1, <2>3 DEF Telling
<1>12. QED BY <1>8, <1>9, <1>10, <1>11

LEMMA TellingNudge ==
  ASSUME Kept, Telling, Nudge
  PROVE  Telling'
<1>1. /\ at = "blank" /\ at' = "top" /\ messages' = Speak(messages, "control", {})
      /\ UNCHANGED <<file, issued, answered>>
  BY DEF Nudge, disk, live
<1>2. TheTale' = TheTale /\ Unbroken(file)' = Unbroken(file) BY <1>1 DEF TheTale
<1>3. messages \in Seq(Spoken) /\ "control" \in Roles /\ {} \in SUBSET Nat BY DEF Kept, Made, Roles
<1>4. Exchanges(Speak(messages, "control", {})) = Exchanges(messages) BY <1>3, ExchangesSpoken
<1>5. Unbroken(file) /\ issued = answered => Retells(TheTale, messages) /\ Ready(TheTale)
  BY <1>1 DEF Telling, Quiet
<1>6. Unbroken(file) /\ issued = answered => Retells(TheTale, messages')
  BY <1>1, <1>4, <1>5 DEF Retells
<1>7. QED BY <1>1, <1>2, <1>5, <1>6 DEF Telling

LEMMA TellingStart ==
  ASSUME Kept, Telling, RunTurn
  PROVE  Telling'
<1> SUFFICES ASSUME Unbroken(file)' PROVE Telling' BY DEF Telling
<1>1. /\ at = "idle" /\ at' = "started" /\ messages' = Speak(messages, "user", {}) /\ Write("turn.started", 0)
      /\ UNCHANGED <<issued, answered>>
  BY DEF RunTurn, live
<1>2. "turn.started" \in EventTypes /\ 0 \in Nat BY DEF EventTypes
<1>3. PICK r : r = TheTale OBVIOUS
<1>4. /\ Unbroken(file) /\ r \in Tales /\ TheTale' \in Tales
      /\ TheTale' = [ms |-> Speak(AnswerAll(r.ms, r.pending), "user", {}), pending |-> {}]
  BY <1>1, <1>2, <1>3, TaleOfMore
<1>5. PICK flushed : flushed = AnswerAll(r.ms, r.pending) OBVIOUS
<1>6. flushed \in Seq(Spoken) BY <1>4, <1>5, CallsOfAnswered DEF Tales
<1>7. messages \in Seq(Spoken) /\ "user" \in Roles /\ {} \in SUBSET Nat BY DEF Kept, Made, Roles
<1>8. TheTale'.ms = Speak(flushed, "user", {}) /\ TheTale'.pending = {} BY <1>4, <1>5
<1>9. Ready(TheTale')
  <2>1. NoCallsLast(Speak(flushed, "user", {})) BY <1>6, <1>7, LastSpoken
  <2>2. QED BY <1>8, <2>1 DEF Ready
<1>10. issued = answered => Retells(TheTale', messages')
  <2>1. SUFFICES ASSUME issued = answered PROVE Retells(TheTale', messages') OBVIOUS
  <2>2. Exchanges(flushed) = Exchanges(messages) BY <1>1, <1>3, <1>4, <1>5, <2>1 DEF Telling, Quiet, Retells
  <2>3. Exchanges(Speak(flushed, "user", {})) = Exchanges(Speak(messages, "user", {}))
    BY <1>6, <1>7, <2>2, SaidAlike
  <2>4. AnswerAll(TheTale'.ms, TheTale'.pending) = Speak(flushed, "user", {}) BY <1>8 DEF AnswerAll
  <2>5. QED BY <1>1, <2>3, <2>4 DEF Retells
<1>11. QED BY <1>1, <1>9, <1>10 DEF Telling

(* Events that say nothing of the conversation. *)
LEMMA TellingRemarking ==
  ASSUME Kept, Closed, Tallied, Telling, OverBudget \/ SendRequest \/ HearFailure \/ LogOutcome
  PROVE  Telling'
<1> SUFFICES ASSUME Unbroken(file)' PROVE Telling' BY DEF Telling
<1>1. /\ at \in {"top", "requesting", "closing", "settling"} /\ at' \in {"refused", "requesting", "ended"}
      /\ at' = "requesting" => at = "top"
      /\ at = "closing" => Asked \ Replied = {}
      /\ at = "settling" => owed = {}
      /\ UNCHANGED <<messages, issued, answered>>
  BY DEF OverBudget, SendRequest, HearFailure, LogOutcome, live, OpenCalls, Asked, Replied
<1>2. PICK type \in EventTypes : /\ Write(type, 0)
                                 /\ type \notin {"turn.started", "model.request.completed", "tool.call"} \cup ResultEvents
  <2>1. CASE OverBudget BY <2>1 DEF OverBudget, EventTypes, ResultEvents
  <2>2. CASE SendRequest BY <2>2 DEF SendRequest, EventTypes, ResultEvents
  <2>3. CASE HearFailure BY <2>3 DEF HearFailure, EventTypes, ResultEvents
  <2>4. CASE LogOutcome
    <3>1. ending \in Outcomes BY <2>4 DEF LogOutcome, Kept, Made, Placed
    <3>2. Ended[ending] \in {"turn.completed", "turn.failed", "turn.cancelled"} BY <3>1, OutcomesAre
    <3>3. QED BY <2>4, <3>2 DEF LogOutcome, EventTypes, ResultEvents
  <2>5. QED BY <2>1, <2>2, <2>3, <2>4
<1>3. Unbroken(file) /\ TheTale' = TheTale /\ TheTale \in Tales
  <2>1. 0 \in Nat OBVIOUS
  <2>2. QED BY <1>2, <2>1, TaleOfMore
<1>4. PICK r \in Tales : r = TheTale BY <1>3
<1>5. issued = answered => Retells(r, messages)
  <2>1. CASE at # "settling" BY <1>1, <1>3, <1>4, <2>1 DEF Telling, Quiet
  <2>2. CASE at = "settling"
    <3>1. SUFFICES ASSUME issued = answered PROVE Retells(r, messages) OBVIOUS
    <3>2. answered \cap Batch = Batch /\ Batch \ owed = Batch BY <1>1, <2>2 DEF Tallied
    <3>3. Batch \subseteq issued /\ Even BY <3>1, <3>2 DEF Even
    <3>4. AsAnswered(r, messages, Batch, Batch) BY <1>3, <1>4, <2>2, <3>2, <3>3 DEF Telling
    <3>5. CASE Batch # {}
      <4>1. Batch \in SUBSET Nat /\ messages \in Seq(Spoken) BY DEF Kept, Made, Batch
      <4>2. QED BY <1>4, <3>4, <3>5, <4>1, AllTold
    <3>6. CASE Batch = {}
      <4>1. PICK before \in Seq(Spoken) : messages = Speak(before, "tool", {}) /\ Exchanges(r.ms) = Exchanges(before)
        BY <3>4, <3>6 DEF AsAnswered
      <4>2. "tool" \in Roles /\ {} \in SUBSET Nat BY DEF Roles
      <4>3. Exchanges(messages) = Exchanges(before) BY <4>1, <4>2, ExchangesSpoken
      <4>4. r.pending = {} BY <3>4, <3>6 DEF AsAnswered
      <4>5. QED BY <4>1, <4>3, <4>4 DEF Retells, AnswerAll
    <3>7. QED BY <3>5, <3>6
  <2>3. QED BY <2>1, <2>2
<1>6. at' = "requesting" /\ issued = answered => Ready(r) BY <1>1, <1>3, <1>4 DEF Telling
<1>7. QED BY <1>1, <1>3, <1>4, <1>5, <1>6 DEF Telling

LEMMA TellingHearing ==
  ASSUME Kept, Telling, HearAnswer
  PROVE  Telling'
<1> SUFFICES ASSUME Unbroken(file)' PROVE Telling' BY DEF Telling
<1>1. PICK n \in 0 .. MaxBatch, text \in 0 .. 1, blank \in BOOLEAN : Hear(n, text, blank) BY DEF HearAnswer
<1>2. n \in Nat /\ text \in Nat /\ hi \in Nat BY BoundsAssumption DEF Kept, Made
<1>3. /\ at = "requesting" /\ lo' = hi + 1 /\ hi' = hi + n /\ at' \in {"blank", "responded"}
      /\ at' = "blank" => n = 0
      /\ at' = "responded" => n + text # 0
      /\ messages' = IF n + text = 0 THEN messages ELSE Speak(messages, "assistant", Batch')
      /\ Write("model.request.completed", text) /\ UNCHANGED <<issued, answered>>
  BY <1>1, <1>2 DEF Hear, Batch
<1>4. Batch' \in SUBSET Nat /\ (n = 0 => Batch' = {}) BY <1>2, <1>3 DEF Batch
<1>5. PICK r : r = TheTale OBVIOUS
<1>6. /\ Unbroken(file) /\ r \in Tales /\ TheTale' \in Tales
      /\ TheTale' = [ms |-> IF text > 0 THEN Speak(AnswerAll(r.ms, r.pending), "assistant", {})
                            ELSE AnswerAll(r.ms, r.pending),
                     pending |-> {}]
  <2>1. "model.request.completed" \in EventTypes BY DEF EventTypes
  <2>2. QED BY <1>2, <1>3, <1>5, <2>1, TaleOfMore
<1>7. PICK flushed : flushed = AnswerAll(r.ms, r.pending) OBVIOUS
<1>8. flushed \in Seq(Spoken) BY <1>6, <1>7, CallsOfAnswered DEF Tales
<1>9. messages \in Seq(Spoken) /\ "assistant" \in Roles /\ "tool" \in Roles /\ {} \in SUBSET Nat
  BY DEF Kept, Made, Roles
<1>10. PICK w : w = TheTale'.ms OBVIOUS
<1>11. w \in {Speak(flushed, "assistant", {}), flushed} /\ TheTale'.pending = {} BY <1>6, <1>7, <1>10
<1>12. Exchanges(w) = Exchanges(flushed)
  <2>1. Exchanges(Speak(flushed, "assistant", {})) = Exchanges(flushed) BY <1>8, <1>9, ExchangesSpoken
  <2>2. QED BY <1>11, <2>1
<1>13. (issued = answered => Ready(r)) /\ (issued = answered => Exchanges(flushed) = Exchanges(messages))
  BY <1>3, <1>5, <1>6, <1>7 DEF Telling, Quiet, Retells
<1>14. Ready(r) => NoCallsLast(w)
  <2>1. SUFFICES ASSUME Ready(r) PROVE NoCallsLast(w) OBVIOUS
  <2>2. NoCallsLast(Speak(flushed, "assistant", {})) BY <1>8, <1>9, LastSpoken
  <2>3. NoCallsLast(flushed)
    <3>1. CASE r.pending = {} BY <1>7, <2>1, <3>1 DEF AnswerAll, Ready
    <3>2. CASE r.pending # {}
      <4>1. r.ms \in Seq(Spoken) /\ r.pending \in SUBSET Nat BY <1>6 DEF Tales
      <4>2. NoCallsLast(Speak(r.ms, "tool", r.pending)) BY <1>9, <4>1, LastSpoken
      <4>3. QED BY <1>7, <3>2, <4>2 DEF AnswerAll
    <3>3. QED BY <3>1, <3>2
  <2>4. QED BY <1>11, <2>2, <2>3
<1>15. Even' => issued = answered
  <2>1. issued \subseteq 1 .. hi /\ answered \subseteq 1 .. hi BY DEF Kept, Made
  <2>2. 1 .. lo' - 1 = 1 .. hi BY <1>2, <1>3
  <2>3. QED BY <1>3, <2>1, <2>2 DEF Even
<1>16. CASE at' = "blank"
  <2>1. Exchanges(messages') = Exchanges(messages)
    <3>1. Exchanges(Speak(messages, "assistant", {})) = Exchanges(messages) BY <1>9, ExchangesSpoken
    <3>2. messages' \in {messages, Speak(messages, "assistant", {})} BY <1>3, <1>4, <1>16
    <3>3. QED BY <3>1, <3>2
  <2>2. issued = answered => Retells(TheTale', messages') /\ Ready(TheTale')
    BY <1>10, <1>11, <1>12, <1>13, <1>14, <2>1 DEF Retells, Ready, AnswerAll
  <2>3. QED BY <1>3, <1>16, <2>2 DEF Telling
<1>17. CASE at' = "responded"
  <2>1. messages' = Speak(messages, "assistant", Batch') BY <1>3, <1>17
  <2>2. Even' => AsHeard(TheTale', messages', Batch')
    BY <1>9, <1>10, <1>11, <1>12, <1>13, <1>14, <1>15, <2>1 DEF AsHeard
  <2>3. QED BY <1>17, <2>2 DEF Telling, Quiet
<1>18. QED BY <1>3, <1>16, <1>17

LEMMA TellingCalls ==
  ASSUME Kept, Tallied, Telling, HandleCalls
  PROVE  Telling'
<1> SUFFICES ASSUME Unbroken(file)' PROVE Telling' BY DEF Telling
<1>1. lo \in Nat /\ hi \in Nat /\ pos \in Nat /\ lo <= pos BY DEF Kept, Made
<1>2. /\ at \in {"responded", "issuing"} /\ at' = "issuing" /\ pos' = pos + 1 /\ Write("tool.call", pos)
      /\ issued' = issued \cup {pos} /\ UNCHANGED <<messages, answered, lo, hi>>
  BY DEF HandleCalls
<1>3. Even' = Even /\ Batch' = Batch
  <2>1. pos \notin 1 .. lo - 1 BY <1>1
  <2>2. issued' \cap (1 .. lo - 1) = issued \cap (1 .. lo - 1) BY <1>2, <2>1
  <2>3. QED BY <1>2, <2>2 DEF Even, Batch
<1>4. PICK r : r = TheTale OBVIOUS
<1>5. Unbroken(file) /\ r \in Tales /\ TheTale' = [ms |-> AddCall(r.ms, pos), pending |-> r.pending]
  <2>1. "tool.call" \in EventTypes BY DEF EventTypes
  <2>2. QED BY <1>1, <1>2, <1>4, <2>1, TaleOfMore
<1>6. r.ms \in Seq(Spoken) /\ messages \in Seq(Spoken) /\ Batch \in SUBSET Nat BY <1>1, <1>5 DEF Tales, Kept, Made, Batch
<1>7. TheTale'.ms = AddCall(r.ms, pos) /\ TheTale'.pending = r.pending BY <1>5
<1>8. (lo .. pos - 1) \cup {pos} = lo .. pos' - 1 BY <1>1, <1>2
<1>9. CASE at = "responded"
  <2>1. pos = lo BY <1>9 DEF Kept, Placed
  <2>2. lo .. pos' - 1 = {pos} BY <1>1, <1>2, <2>1
  <2>3. ASSUME Even PROVE AsIssued(TheTale', messages, Batch, lo .. pos' - 1)
    <3>1. AsHeard(r, messages, Batch) BY <1>4, <1>5, <1>9, <2>3 DEF Telling
    <3>2. PICK before \in Seq(Spoken) : messages = Speak(before, "assistant", Batch) /\ Exchanges(r.ms) = Exchanges(before)
      BY <3>1 DEF AsHeard
    <3>3. PICK rest \in Seq(Spoken) :
            AddCall(r.ms, pos) = Speak(rest, "assistant", {pos}) /\ Exchanges(rest) = Exchanges(r.ms)
      BY <1>1, <1>6, <3>1, CallBegins DEF AsHeard
    <3>4. QED BY <1>7, <2>2, <3>1, <3>2, <3>3 DEF AsHeard, AsIssued
  <2>4. QED BY <1>2, <1>3, <2>3 DEF Telling, Quiet
<1>10. CASE at = "issuing"
  <2>1. ASSUME Even PROVE AsIssued(TheTale', messages, Batch, lo .. pos' - 1)
    <3>1. AsIssued(r, messages, Batch, lo .. pos - 1) BY <1>4, <1>5, <1>10, <2>1 DEF Telling
    <3>2. PICK before \in Seq(Spoken), rest \in Seq(Spoken) :
            /\ messages = Speak(before, "assistant", Batch) /\ r.ms = Speak(rest, "assistant", lo .. pos - 1)
            /\ Exchanges(rest) = Exchanges(before)
      BY <3>1 DEF AsIssued
    <3>3. lo .. pos - 1 \in SUBSET Nat BY <1>1
    <3>4. AddCall(r.ms, pos) = Speak(rest, "assistant", (lo .. pos - 1) \cup {pos}) BY <1>1, <3>2, <3>3, CallJoins
    <3>5. AddCall(r.ms, pos) = Speak(rest, "assistant", lo .. pos' - 1) BY <1>8, <3>4
    <3>6. QED BY <1>7, <3>1, <3>2, <3>5 DEF AsIssued
  <2>2. QED BY <1>2, <1>3, <2>1 DEF Telling, Quiet
<1>11. QED BY <1>2, <1>9, <1>10

LEMMA TellingResults ==
  ASSUME Kept, Tallied, Telling, BatchEnds \/ LogResult
  PROVE  Telling'
<1> SUFFICES ASSUME Unbroken(file)' PROVE Telling' BY DEF Telling
<1>1. lo \in Nat \ {0} /\ hi \in Nat /\ pos \in Nat /\ lo <= pos /\ pos <= hi + 1 BY DEF Kept, Made
<1>2. PICK c \in Nat : /\ c = IF at = "issuing" THEN lo ELSE pos
                       /\ Write("tool.result", c) /\ answered' = answered \cup {c} /\ pos' = c + 1
  BY <1>1 DEF BatchEnds, LogResult
<1>3. at \in {"issuing", "answering"} /\ at' = "answering" /\ UNCHANGED <<issued, lo, hi>> /\ lo <= c
  BY <1>1, <1>2 DEF BatchEnds, LogResult
<1>4. Even' = Even /\ Batch' = Batch
  <2>1. c \notin 1 .. lo - 1 BY <1>1, <1>3
  <2>2. answered' \cap (1 .. lo - 1) = answered \cap (1 .. lo - 1) BY <1>2, <2>1
  <2>3. QED BY <1>3, <2>2 DEF Even, Batch
<1>5. PICK r : r = TheTale OBVIOUS
<1>6. Unbroken(file) /\ r \in Tales /\ TheTale' = [ms |-> r.ms, pending |-> r.pending \cup {c}]
  <2>1. "tool.result" \in EventTypes /\ "tool.result" \in ResultEvents BY DEF EventTypes, ResultEvents
  <2>2. QED BY <1>2, <1>5, <2>1, TaleOfMore
<1>7. TheTale'.ms = r.ms /\ TheTale'.pending = r.pending \cup {c} BY <1>6
<1>8. messages \in Seq(Spoken) /\ Batch \in SUBSET Nat BY <1>1 DEF Kept, Made, Batch
<1>9. CASE at = "issuing"
  <2>1. pos = hi + 1 /\ messages' = AnswerAll(messages, Batch) BY <1>1, <1>9 DEF BatchEnds, LogResult, Batch
  <2>2. lo < pos BY <1>9 DEF Kept, Placed, Batching
  <2>3. lo .. pos - 1 = Batch BY <1>1, <2>1 DEF Batch
  <2>4. lo \in Batch BY <1>1, <2>1, <2>2 DEF Batch
  <2>5. lo .. pos' - 1 = {c} BY <1>1, <1>2, <1>9
  <2>6. messages' = Speak(messages, "tool", Batch) BY <2>1, <2>4 DEF AnswerAll
  <2>7. ASSUME Even PROVE AsAnswered(TheTale', messages', Batch, lo .. pos' - 1)
    <3>1. AsIssued(r, messages, Batch, Batch) BY <1>5, <1>6, <1>9, <2>3, <2>7 DEF Telling
    <3>2. PICK before \in Seq(Spoken), rest \in Seq(Spoken) :
            /\ messages = Speak(before, "assistant", Batch) /\ r.ms = Speak(rest, "assistant", Batch)
            /\ Exchanges(rest) = Exchanges(before)
      BY <3>1 DEF AsIssued
    <3>3. "assistant" \in Roles BY DEF Roles
    <3>4. Exchanges(Speak(rest, "assistant", Batch)) = Exchanges(Speak(before, "assistant", Batch))
      BY <1>8, <3>2, <3>3, SaidAlike
    <3>5. Exchanges(r.ms) = Exchanges(messages) BY <3>2, <3>4
    <3>6. TheTale'.pending = lo .. pos' - 1 BY <1>7, <2>5, <3>1 DEF AsIssued
    <3>7. QED BY <1>7, <1>8, <2>6, <3>5, <3>6 DEF AsAnswered
  <2>8. QED BY <1>3, <1>4, <2>7 DEF Telling, Quiet
<1>10. CASE at = "answering"
  <2>1. messages' = messages /\ c = pos BY <1>2, <1>10 DEF BatchEnds, LogResult
  <2>2. (lo .. pos - 1) \cup {c} = lo .. pos' - 1 BY <1>1, <1>2, <2>1
  <2>3. ASSUME Even PROVE AsAnswered(TheTale', messages', Batch, lo .. pos' - 1)
    <3>1. AsAnswered(r, messages, Batch, lo .. pos - 1) BY <1>5, <1>6, <1>10, <2>3 DEF Telling
    <3>2. TheTale'.pending = lo .. pos' - 1 BY <1>7, <2>2, <3>1 DEF AsAnswered
    <3>3. QED BY <1>7, <2>1, <3>1, <3>2 DEF AsAnswered
  <2>4. QED BY <1>3, <1>4, <2>3 DEF Telling, Quiet
<1>11. QED BY <1>3, <1>9, <1>10

LEMMA TellingClosing ==
  ASSUME Kept, Closed, Tallied, Telling, CloseOpenToolCalls \/ LogSynthetic
  PROVE  Telling'
<1> SUFFICES ASSUME Unbroken(file)' PROVE Telling' BY DEF Telling
<1>1. lo \in Nat \ {0} /\ hi \in Nat /\ messages \in Seq(Spoken) BY DEF Kept, Made
<1>2. Batch' = Batch /\ issued' = issued /\ lo' = lo /\ at \in {"closing", "settling"} /\ at' = "settling"
  BY DEF Batch, batch, CloseOpenToolCalls, LogSynthetic
<1>3. PICK left : left = IF at = "closing" THEN Batch ELSE owed OBVIOUS
<1>4. left \subseteq Batch /\ left # {} /\ (at = "closing" => OpenCalls(messages) = Batch /\ Asked \ Replied # {})
  <2>1. CASE at = "closing"
    <3>1. OpenCalls(messages) # {} BY <2>1 DEF CloseOpenToolCalls, LogSynthetic
    <3>2. QED BY <1>3, <2>1, <3>1 DEF Closed, OpenCalls, Asked, Replied, Batch
  <2>2. CASE at = "settling" BY <1>3, <2>2 DEF CloseOpenToolCalls, LogSynthetic, Tallied
  <2>3. QED BY <1>2, <2>1, <2>2
<1>5. PICK c \in Batch : c \in left /\ c = Min(left)
  <2>1. left \subseteq Nat BY <1>1, <1>4 DEF Batch
  <2>2. Min(left) \in left BY <1>4, <2>1, MinIs
  <2>3. QED BY <1>4, <2>2
<1>6. /\ Write("tool.synthetic_result", c) /\ answered' = answered \cup {c} /\ owed' = left \ {c}
  <2>1. CASE at = "closing" BY <1>3, <1>4, <1>5, <2>1 DEF CloseOpenToolCalls, LogSynthetic
  <2>2. CASE at = "settling" BY <1>3, <1>5, <2>2 DEF CloseOpenToolCalls, LogSynthetic
  <2>3. QED BY <1>2, <2>1, <2>2
<1>7. c \in Nat /\ Batch \in SUBSET Nat BY <1>1, <1>5 DEF Batch
<1>8. Even' = Even
  <2>1. c \notin 1 .. lo - 1 BY <1>1, <1>5 DEF Batch
  <2>2. answered' \cap (1 .. lo - 1) = answered \cap (1 .. lo - 1) BY <1>6, <2>1
  <2>3. QED BY <1>2, <2>2 DEF Even
<1>9. PICK r : r = TheTale OBVIOUS
<1>10. Unbroken(file) /\ r \in Tales /\ TheTale' = [ms |-> r.ms, pending |-> r.pending \cup {c}]
  <2>1. "tool.synthetic_result" \in EventTypes /\ "tool.synthetic_result" \in ResultEvents BY DEF EventTypes, ResultEvents
  <2>2. QED BY <1>6, <1>7, <1>9, <2>1, TaleOfMore
<1>11. TheTale'.ms = r.ms /\ TheTale'.pending = r.pending \cup {c} BY <1>10
<1>12. (Batch \ left) \cup {c} = Batch \ owed' BY <1>5, <1>6
<1>13. ASSUME Even, Batch \subseteq issued PROVE AsAnswered(TheTale', messages', Batch, Batch \ owed')
  <2>1. CASE at = "closing"
    <3>1. r.pending = {} /\ Exchanges(r.ms) = Exchanges(messages)
      BY <1>4, <1>9, <1>10, <1>13, <2>1 DEF Telling
    <3>2. messages' = Speak(messages, "tool", Batch)
      BY <1>4, <1>5, <2>1 DEF CloseOpenToolCalls, LogSynthetic, AnswerAll
    <3>3. Batch \ left = {} BY <1>3, <2>1
    <3>4. TheTale'.pending = Batch \ owed' BY <1>11, <1>12, <3>1, <3>3
    <3>5. QED BY <1>1, <1>11, <3>1, <3>2, <3>4 DEF AsAnswered
  <2>2. CASE at = "settling"
    <3>1. messages' = messages /\ left = owed BY <1>3, <2>2 DEF CloseOpenToolCalls, LogSynthetic
    <3>2. AsAnswered(r, messages, Batch, Batch \ left) BY <1>9, <1>10, <1>13, <2>2, <3>1 DEF Telling
    <3>3. TheTale'.pending = Batch \ owed' BY <1>11, <1>12, <3>2 DEF AsAnswered
    <3>4. QED BY <1>11, <3>1, <3>2, <3>3 DEF AsAnswered
  <2>3. QED BY <1>2, <2>1, <2>2
<1>14. QED BY <1>2, <1>8, <1>13 DEF Telling, Quiet

LEMMA TellingEndsAndBegins ==
  ASSUME Kept, Shutdown \/ Crash \/ Resume
  PROVE  Telling'
<1>1. CASE Shutdown \/ Crash BY <1>1 DEF Shutdown, Crash, Forget, Telling
<1>2. CASE Resume
  <2>1. PICK es \in Seq(Events) : es = ReadBack(file) BY ReadBackIs DEF Kept, Made
  <2>2. /\ at' = "idle" /\ file' = file /\ messages' = Rebuilt(es) /\ issued' = Calls(es) /\ answered' = Results(es)
    BY <1>2, <2>1 DEF Resume, disk
  <2>3. PICK r \in Tales : r = Told(es) BY TaleIs
  <2>4. TheTale' = r BY <2>1, <2>2, <2>3 DEF TheTale
  <2>5. issued' = answered' => messages' = AnswerAll(r.ms, r.pending)
    <3>1. Flush(Told(es)).ms = AnswerAll(r.ms, r.pending) BY <2>3, FlushTyped
    <3>2. Calls(es) = Results(es) => Calls(es) \ Results(es) = {} OBVIOUS
    <3>3. QED BY <2>2, <3>1, <3>2 DEF Rebuilt, AnswerAll
  <2>6. issued' = answered' => Retells(TheTale', messages')
    <3>1. SUFFICES ASSUME issued' = answered' PROVE Retells(TheTale', messages') OBVIOUS
    <3>2. messages' = AnswerAll(TheTale'.ms, TheTale'.pending) BY <2>4, <2>5, <3>1
    <3>3. QED BY <3>2 DEF Retells
  <2>7. QED BY <2>2, <2>6 DEF Telling
<1>3. QED BY <1>1, <1>2

LEMMA TellingFirst == Init => Telling
<1> SUFFICES ASSUME Init, Unbroken(file) PROVE Telling BY DEF Telling
<1>1. PICK e : e = Event("session.started", 0, 1) OBVIOUS
<1>2. e \in Events /\ e.type = "session.started"
  <2>1. "session.started" \in EventTypes BY DEF EventTypes
  <2>2. QED BY <1>1, <2>1, EventIs
<1>3. file = Appended(<< >>, e) /\ at = "booting" /\ messages = << >> BY <1>1 DEF Init
<1>4. << >> \in Seq(Lines) /\ << >> \in Seq(Events) /\ << >> \in Seq(Spoken) OBVIOUS
<1>5. ReadBack(file) = Append(ReadBack(<< >>), e) BY <1>2, <1>3, <1>4, AppendedIs, Zenon
<1>6. ReadBack(<< >>) = << >>
  <2>1. ReadBack(<< >>) \in Seq(Events) /\ Len(ReadBack(<< >>)) \in 0 .. Len(<< >>) BY <1>4, ReadBackIs, LegibleIs
  <2>2. Len(<< >>) = 0 OBVIOUS
  <2>3. Len(ReadBack(<< >>)) = 0 BY <2>1, <2>2
  <2>4. QED BY <2>1, <2>3, EmptySeq
<1>7. Told(<< >>) \in Tales /\ Told(<< >>).ms = << >> /\ Told(<< >>).pending = {} BY <1>4, TaleIs
<1>8. Told(Append(<< >>, e)) = Retold(Told(<< >>), e) BY <1>2, <1>4, ToldOfMore
<1>9. PICK r \in Tales : r = Told(<< >>) BY <1>7
<1>10. Retold(r, e) = r BY <1>2, RetoldIs
<1>11. TheTale.ms = << >> /\ TheTale.pending = {} BY <1>5, <1>6, <1>7, <1>8, <1>9, <1>10 DEF TheTale
<1>12. Retells(TheTale, messages) BY <1>3, <1>11 DEF Retells, AnswerAll
<1>13. QED BY <1>3, <1>12 DEF Telling

(* The invariant that the conversation needs beyond that of the session. *)
Tells == Sound /\ Tallied /\ Telling

LEMMA TellsFirst == Init => Tells
BY SoundFirst, TellingFirst DEF Init, Tallied, Tells

LEMMA TellsNext == Tells /\ [Next]_vars => Tells'
<1> SUFFICES ASSUME Tells, [Next]_vars PROVE Tells' OBVIOUS
<1>1. Kept /\ Closed /\ Tallied /\ Telling /\ Sound BY DEF Tells, Sound
<1>2. Sound' BY <1>1, SoundNext
<1>3. CASE Booted \/ EnterLoop \/ HeedCancel \/ HearTooLate \/ Refuse \/ TransitionThrows \/
           HandleText \/ BatchThrows \/ EndStep \/ EndTurn \/ PersistMetadata \/ Cancel
  BY <1>1, <1>2, <1>3, TalliedSilently, TellingUnmoved DEF Tells
<1>4. CASE RunTurn BY <1>1, <1>2, <1>4, TalliedSilently, TellingStart DEF Tells
<1>5. CASE Nudge BY <1>1, <1>2, <1>5, TalliedSilently, TellingNudge DEF Tells
<1>6. CASE OverBudget \/ SendRequest \/ HearFailure \/ LogOutcome
  BY <1>1, <1>2, <1>6, TalliedSilently, TellingRemarking DEF Tells
<1>7. CASE HearAnswer BY <1>1, <1>2, <1>7, TalliedHearing, TellingHearing DEF Tells
<1>8. CASE HandleCalls BY <1>1, <1>2, <1>8, TalliedBatching, TellingCalls DEF Tells
<1>9. CASE BatchEnds \/ LogResult BY <1>1, <1>2, <1>9, TalliedBatching, TellingResults DEF Tells
<1>10. CASE CloseOpenToolCalls \/ LogSynthetic BY <1>1, <1>2, <1>10, TalliedClosing, TellingClosing DEF Tells
<1>11. CASE Shutdown \/ Crash \/ Resume BY <1>1, <1>2, <1>11, TalliedEndsAndBegins, TellingEndsAndBegins DEF Tells
<1>12. CASE UNCHANGED vars
  <2>1. UNCHANGED <<file, at, seq, messages, issued, answered, ending, lo, hi, pos, owed>> BY <1>12 DEF vars
  <2>2. Tallied' BY <1>1, <2>1 DEF Tallied, Batch, Asked, Replied
  <2>3. Telling' BY <1>1, <2>1 DEF Telling, Quiet, TheTale, Batch, Even, Asked, Replied
  <2>4. QED BY <1>2, <2>2, <2>3 DEF Tells
<1>13. QED BY <1>3, <1>4, <1>5, <1>6, <1>7, <1>8, <1>9, <1>10, <1>11, <1>12 DEF Next

(* Resume gives back the conversation: over any number of processes, crashes, turns and
   calls, when every call of the log is answered in the log, a restart would lose no
   exchange and reorder none (session/resume.ts, replaySession). *)
THEOREM ConversationRestored == Spec => []SameConversation
<1>1. Tells => SameConversation
  <2> SUFFICES ASSUME Tells, at = "idle", Unbroken(file), Calls(ReadBack(file)) = Results(ReadBack(file))
               PROVE  Exchanges(Rebuilt(ReadBack(file))) = Exchanges(messages)
    BY DEF SameConversation
  <2>1. PICK es \in Seq(Events) : es = ReadBack(file) BY ReadBackIs DEF Tells, Sound, Kept, Made
  <2>2. issued = answered BY DEF Tells, Sound, Gated
  <2>3. PICK r \in Tales : r = Told(es) BY TaleIs
  <2>4. Retells(r, messages) BY <2>1, <2>2, <2>3 DEF Tells, Telling, Quiet, TheTale
  <2>5. Flush(Told(es)).ms = AnswerAll(r.ms, r.pending) BY <2>3, FlushTyped
  <2>6. Calls(es) \ Results(es) = {} BY <2>1
  <2>7. Rebuilt(es) = AnswerAll(r.ms, r.pending) BY <2>5, <2>6 DEF Rebuilt, AnswerAll
  <2>8. QED BY <2>1, <2>4, <2>7 DEF Retells
<1>2. QED BY <1>1, TellsFirst, TellsNext, PTL DEF Spec

-----------------------------------------------------------------------------
(* The numbers of the events.                                              *)

(* A line that may ever be read back has the number of its place. *)
InOrder(f) ==
  \A i \in 1 .. Len(f) : (\A j \in 1 .. i - 1 : Parses(f[j])) => f[i].event.seq = i

Ordered == InOrder(file) /\ (at # "down" /\ Unbroken(file) => seq = Len(file))

LEMMA InOrderAppended ==
  ASSUME NEW f \in Seq(Lines), InOrder(f), NEW e \in Events, Unbroken(f) => e.seq = Len(f) + 1
  PROVE  /\ InOrder(Appended(f, e))
         /\ Unbroken(Appended(f, e)) => Unbroken(f) /\ Len(Appended(f, e)) = Len(f) + 1
<1>1. PICK g : g = Appended(f, e) OBVIOUS
<1>2. CASE LastState(f) \in {"unended", "torn"}
  <2>1. f # << >> BY <1>2 DEF LastState
  <2>2. PICK s \in {"glued", "lost"} : g = SetLast(f, s) BY <1>1, <1>2 DEF Appended
  <2>3. s \in LineStates /\ Len(f) \in Nat /\ Len(f) \in 1 .. Len(f) BY <2>1, EmptySeq DEF LineStates
  <2>4. /\ Len(g) = Len(f) /\ g[Len(f)].state = s
        /\ \A i \in 1 .. Len(f) : g[i].event = f[i].event /\ (i # Len(f) => g[i].state = f[i].state)
    BY <2>1, <2>2, <2>3, SetLastIs
  <2>5. ~Parses(g[Len(f)]) BY <2>4 DEF Parses
  <2>6. ASSUME NEW i \in 1 .. Len(g), \A j \in 1 .. i - 1 : Parses(g[j]) PROVE g[i].event.seq = i
    <3>1. ASSUME NEW j \in 1 .. i - 1 PROVE Parses(f[j])
      <4>1. j \in 1 .. Len(f) /\ j # Len(f) BY <2>3, <2>4
      <4>2. QED BY <2>4, <2>6, <4>1 DEF Parses
    <3>2. QED BY <2>4, <3>1 DEF InOrder
  <2>7. QED BY <1>1, <2>3, <2>4, <2>5, <2>6 DEF InOrder, Unbroken
<1>3. CASE LastState(f) \notin {"unended", "torn"}
  <2>1. g = Append(f, Line(e, "whole")) BY <1>1, <1>3 DEF Appended
  <2>2. Line(e, "whole") \in Lines /\ Line(e, "whole").event = e BY DEF Line, Lines, LineStates
  <2>3. /\ Len(f) \in Nat /\ Len(g) = Len(f) + 1 /\ g[Len(f) + 1] = Line(e, "whole")
        /\ \A i \in 1 .. Len(f) : g[i] = f[i]
    BY <2>1, <2>2
  <2>4. ASSUME \A j \in 1 .. Len(f) : Parses(g[j]) PROVE Unbroken(f) BY <2>3, <2>4 DEF Unbroken
  <2>5. ASSUME NEW i \in 1 .. Len(g), \A j \in 1 .. i - 1 : Parses(g[j]) PROVE g[i].event.seq = i
    <3>1. CASE i = Len(f) + 1
      <4>1. i - 1 = Len(f) BY <2>3, <3>1
      <4>2. Unbroken(f) BY <2>4, <2>5, <4>1
      <4>3. QED BY <2>2, <2>3, <3>1, <4>2
    <3>2. CASE i # Len(f) + 1
      <4>1. i \in 1 .. Len(f) /\ \A j \in 1 .. i - 1 : j \in 1 .. Len(f) BY <2>3, <3>2
      <4>2. QED BY <2>3, <2>5, <4>1 DEF InOrder
    <3>3. QED BY <3>1, <3>2
  <2>6. Unbroken(g) => Unbroken(f) BY <2>3 DEF Unbroken
  <2>7. QED BY <1>1, <2>3, <2>5, <2>6 DEF InOrder
<1>4. QED BY <1>2, <1>3

LEMMA InOrderCut ==
  ASSUME NEW f \in Seq(Lines), f # << >>, InOrder(f), NEW g \in CutShort(f)
  PROVE  InOrder(g)
<1>1. Len(f) \in Nat /\ Len(f) \in 1 .. Len(f) BY EmptySeq
<1>2. \/ g = f
      \/ \E s \in LineStates : g = SetLast(f, s)
      \/ g = SubSeq(f, 1, Len(f) - 1)
  BY DEF CutShort, LineStates
<1>3. CASE \E s \in LineStates : g = SetLast(f, s)
  <2>1. /\ Len(g) = Len(f)
        /\ \A i \in 1 .. Len(f) : g[i].event = f[i].event /\ (i # Len(f) => g[i].state = f[i].state)
    BY <1>3, SetLastIs
  <2>2. ASSUME NEW i \in 1 .. Len(g), \A j \in 1 .. i - 1 : Parses(g[j]) PROVE g[i].event.seq = i
    <3>1. ASSUME NEW j \in 1 .. i - 1 PROVE Parses(f[j])
      <4>1. j \in 1 .. Len(f) /\ j # Len(f) BY <1>1, <2>1
      <4>2. QED BY <2>1, <2>2, <4>1 DEF Parses
    <3>2. QED BY <2>1, <3>1 DEF InOrder
  <2>3. QED BY <2>2 DEF InOrder
<1>4. CASE g = SubSeq(f, 1, Len(f) - 1)
  <2>1. PICK n \in Nat : n = Len(f) - 1 BY <1>1
  <2>2. Len(g) = n /\ \A i \in 1 .. n : g[i] = f[i]
    <3>1. 1 \in Int /\ n \in Int /\ \A i \in 1 .. n : f[i] \in Lines BY <1>1, <2>1
    <3>2. /\ Len(SubSeq(f, 1, n)) = IF 1 <= n THEN n - 1 + 1 ELSE 0
          /\ \A i \in 1 .. n - 1 + 1 : SubSeq(f, 1, n)[i] = f[1 + i - 1]
      BY <3>1, SubSeqProperties
    <3>3. QED BY <1>4, <2>1, <3>2
  <2>3. ASSUME NEW i \in 1 .. Len(g), \A j \in 1 .. i - 1 : Parses(g[j]) PROVE g[i].event.seq = i
    <3>1. i \in 1 .. Len(f) /\ \A j \in 1 .. i - 1 : j \in 1 .. n BY <1>1, <2>1, <2>2
    <3>2. QED BY <2>2, <2>3, <3>1 DEF InOrder
  <2>4. QED BY <2>3 DEF InOrder
<1>5. CASE g = f BY <1>5
<1>6. QED BY <1>2, <1>3, <1>4, <1>5

LEMMA WhatIsWritten ==
  ASSUME Kept, Closed,
         RunTurn \/ OverBudget \/ SendRequest \/ HearFailure \/ HearAnswer \/ HandleCalls \/ BatchEnds \/
         LogResult \/ CloseOpenToolCalls \/ LogSynthetic \/ LogOutcome
  PROVE  at # "down" /\ \E type \in EventTypes, d \in Nat : Write(type, d)
<1>1. EventTypes = {"session.started", "turn.started", "budget.exceeded", "model.request.started",
                    "model.request.completed", "model.request.failed", "tool.call", "tool.result",
                    "tool.synthetic_result", "turn.completed", "turn.failed", "turn.cancelled"}
  BY DEF EventTypes
<1>2. lo \in Nat /\ pos \in Nat /\ owed \subseteq Nat /\ OpenCalls(messages) \subseteq Nat
  BY DEF Kept, Made, Closed, Asked, Replied, OpenCalls
<1>3. CASE RunTurn \/ OverBudget \/ SendRequest \/ HearFailure
  BY <1>1, <1>3 DEF RunTurn, OverBudget, SendRequest, HearFailure
<1>4. CASE HearAnswer
  <2>1. PICK text \in Nat : Write("model.request.completed", text) /\ at # "down" BY <1>4 DEF HearAnswer, Hear
  <2>2. QED BY <1>1, <2>1
<1>5. CASE HandleCalls \/ BatchEnds \/ LogResult BY <1>1, <1>2, <1>5 DEF HandleCalls, BatchEnds, LogResult
<1>6. CASE CloseOpenToolCalls
  <2>1. Min(OpenCalls(messages)) \in Nat BY <1>2, <1>6, MinIs DEF CloseOpenToolCalls
  <2>2. at # "down" /\ Write("tool.synthetic_result", Min(OpenCalls(messages))) BY <1>6 DEF CloseOpenToolCalls
  <2>3. QED BY <1>1, <2>1, <2>2
<1>7. CASE LogSynthetic
  <2>1. Min(owed) \in Nat BY <1>2, <1>7, MinIs DEF LogSynthetic
  <2>2. QED BY <1>1, <1>7, <2>1 DEF LogSynthetic
<1>8. CASE LogOutcome
  <2>1. ending \in Outcomes BY <1>8 DEF LogOutcome, Kept, Made, Placed
  <2>2. Ended[ending] \in EventTypes BY <1>1, <2>1, OutcomesAre
  <2>3. at # "down" /\ Write(Ended[ending], 0) BY <1>8 DEF LogOutcome
  <2>4. QED BY <2>2, <2>3
<1>9. QED BY <1>3, <1>4, <1>5, <1>6, <1>7, <1>8

LEMMA OrderedNext ==
  ASSUME Sound, Ordered, [Next]_vars
  PROVE  Ordered'
<1>1. Kept /\ Closed /\ file \in Seq(Lines) /\ seq \in Nat BY DEF Sound, Kept, Made
<1>2. CASE Booted \/ EnterLoop \/ HeedCancel \/ HearTooLate \/ Refuse \/ TransitionThrows \/ HandleText \/
           BatchThrows \/ EndStep \/ EndTurn \/ PersistMetadata \/ Cancel \/ Nudge
  <2>1. file' = file /\ seq' = seq /\ at # "down"
    BY <1>2 DEF Booted, EnterLoop, HeedCancel, HearTooLate, Refuse, TransitionThrows, HandleText, BatchThrows, EndStep,
         EndTurn, PersistMetadata, Cancel, Nudge, disk
  <2>2. QED BY <2>1 DEF Ordered
<1>3. CASE RunTurn \/ OverBudget \/ SendRequest \/ HearFailure \/ HearAnswer \/ HandleCalls \/ BatchEnds \/
           LogResult \/ CloseOpenToolCalls \/ LogSynthetic \/ LogOutcome
  <2>1. PICK type \in EventTypes, d \in Nat : Write(type, d) BY <1>1, <1>3, WhatIsWritten
  <2>2. at # "down" BY <1>1, <1>3, WhatIsWritten
  <2>3. seq + 1 \in Nat BY <1>1
  <2>4. PICK e \in Events : e = Event(type, d, seq + 1) BY <2>3, EventIs
  <2>5. e.seq = seq + 1 BY <2>4 DEF Event
  <2>6. file' = Appended(file, e) /\ seq' = seq + 1 BY <2>1, <2>4 DEF Write
  <2>7. InOrder(file) /\ (Unbroken(file) => seq = Len(file)) BY <2>2 DEF Ordered
  <2>8. /\ InOrder(file')
        /\ Unbroken(file') => Unbroken(file) /\ Len(file') = Len(file) + 1
    BY <1>1, <2>5, <2>6, <2>7, InOrderAppended
  <2>9. QED BY <2>6, <2>7, <2>8 DEF Ordered
<1>4. CASE Shutdown \/ Crash
  <2>1. at' = "down" /\ (file' = file \/ (at \in Writing /\ file' \in CutShort(file))) BY <1>4 DEF Shutdown, Crash, Forget
  <2>2. at \in Writing => file # << >> BY <1>1 DEF Kept, Placed
  <2>3. InOrder(file') BY <1>1, <2>1, <2>2, InOrderCut DEF Ordered
  <2>4. QED BY <2>1, <2>3 DEF Ordered
<1>5. CASE Resume
  <2>1. PICK es \in Seq(Events) : es = ReadBack(file) BY <1>1, ReadBackIs
  <2>2. file' = file /\ seq' = (IF es = << >> THEN 0 ELSE Last(es).seq) BY <1>5, <2>1 DEF Resume, disk
  <2>3. ASSUME Unbroken(file) PROVE seq' = Len(file)
    <3>1. Len(es) = Len(file) /\ \A i \in 1 .. Len(file) : es[i] = file[i].event
      BY <1>1, <2>1, <2>3, ReadBackIs, LegibleIs
    <3>2. CASE es = << >> BY <2>2, <3>1, <3>2
    <3>3. CASE es # << >>
      <4>1. Len(es) \in Nat /\ Len(es) \in 1 .. Len(es) /\ Last(es) = es[Len(es)] BY <3>3, EmptySeq DEF Last
      <4>2. \A j \in 1 .. Len(file) - 1 : Parses(file[j]) BY <2>3, <3>1, <4>1 DEF Unbroken
      <4>3. file[Len(file)].event.seq = Len(file) BY <3>1, <4>1, <4>2 DEF Ordered, InOrder
      <4>4. QED BY <2>2, <3>1, <3>3, <4>1, <4>3
    <3>4. QED BY <3>2, <3>3
  <2>4. QED BY <2>2, <2>3 DEF Ordered
<1>6. CASE UNCHANGED vars BY <1>6 DEF vars, Ordered
<1>7. QED BY <1>2, <1>3, <1>4, <1>5, <1>6 DEF Next

(* The events that are read back are numbered 1, 2, 3 and so on, whichever processes wrote
   them and however their writes were cut short (session/store.ts, appendNow). *)
THEOREM NumbersWithoutGap == Spec => []GaplessLog
<1>1. Init => Ordered
  <2> SUFFICES ASSUME Init PROVE Ordered OBVIOUS
  <2>1. PICK e \in Events : e = Event("session.started", 0, 1)
    <3>1. "session.started" \in EventTypes BY DEF EventTypes
    <3>2. QED BY <3>1, EventIs
  <2>2. e.seq = 1 /\ file = Appended(<< >>, e) /\ seq = 1 BY <2>1 DEF Init, Event
  <2>3. << >> \in Seq(Lines) /\ Len(<< >>) = 0 /\ InOrder(<< >>) BY DEF InOrder
  <2>4. Unbroken(<< >>) => e.seq = Len(<< >>) + 1 BY <2>2, <2>3
  <2>5. PICK none \in Seq(Lines) : none = << >> BY <2>3
  <2>6. /\ InOrder(Appended(none, e))
        /\ Unbroken(Appended(none, e)) => Unbroken(none) /\ Len(Appended(none, e)) = Len(none) + 1
    BY <2>3, <2>4, <2>5, InOrderAppended, Zenon
  <2>7. QED BY <2>2, <2>3, <2>5, <2>6 DEF Ordered
<1>2. Sound /\ Ordered /\ [Next]_vars => (Sound /\ Ordered)' BY SoundNext, OrderedNext
<1>3. Sound /\ Ordered => GaplessLog
  <2> SUFFICES ASSUME Sound, Ordered, NEW i \in 1 .. Len(ReadBack(file)) PROVE ReadBack(file)[i].seq = i
    BY DEF GaplessLog
  <2>1. file \in Seq(Lines) /\ Len(file) \in Nat BY DEF Sound, Kept, Made
  <2>2. /\ i \in 1 .. Legible(file) /\ Legible(file) \in 0 .. Len(file) /\ ReadBack(file)[i] = file[i].event
        /\ \A j \in 1 .. Legible(file) : Parses(file[j])
    BY <2>1, ReadBackIs, LegibleIs
  <2>3. i \in 1 .. Len(file) /\ \A j \in 1 .. i - 1 : j \in 1 .. Legible(file) BY <2>1, <2>2
  <2>4. QED BY <2>2, <2>3 DEF Ordered, InOrder
<1>4. QED BY <1>1, <1>2, <1>3, SoundFirst, PTL DEF Spec

-----------------------------------------------------------------------------
(* How many requests were made.                                            *)

LEMMA CountOfMore ==
  ASSUME NEW es \in Seq(Events), NEW e \in Events, NEW type
  PROVE  /\ CountOf(es, type) \in Nat
         /\ CountOf(Append(es, e), type) = CountOf(es, type) + (IF e.type = type THEN 1 ELSE 0)
<1>1. PICK more \in Seq(Events) : more = Append(es, e)
  <2>1. Append(es, e) \in Seq(Events) OBVIOUS
  <2>2. QED BY <2>1
<1>2. /\ Len(es) \in Nat /\ Len(more) = Len(es) + 1 /\ more[Len(es) + 1] = e
      /\ \A i \in 1 .. Len(es) : more[i] = es[i]
  BY <1>1
<1>3. PICK here : here = {i \in 1 .. Len(es) : es[i].type = type} OBVIOUS
<1>4. PICK then : then = {i \in 1 .. Len(more) : more[i].type = type} OBVIOUS
<1>5. IsFiniteSet(here) /\ Len(es) + 1 \notin here
  <2>1. 1 \in Int /\ Len(es) \in Int /\ here \in SUBSET (1 .. Len(es)) BY <1>2, <1>3
  <2>2. IsFiniteSet(1 .. Len(es)) BY <2>1, FS_Interval
  <2>3. IsFiniteSet(here) BY <2>1, <2>2, FS_Subset
  <2>4. Len(es) + 1 \notin 1 .. Len(es) BY <1>2
  <2>5. QED BY <2>1, <2>3, <2>4
<1>6. then = IF e.type = type THEN here \cup {Len(es) + 1} ELSE here
  <2>1. ASSUME NEW i
        PROVE  i \in then <=> i \in here \/ (i = Len(es) + 1 /\ e.type = type)
    <3>1. i \in 1 .. Len(more) <=> i \in 1 .. Len(es) \/ i = Len(es) + 1 BY <1>2
    <3>2. i \in 1 .. Len(es) => i # Len(es) + 1 BY <1>2
    <3>3. QED BY <1>2, <1>3, <1>4, <3>1, <3>2
  <2>2. QED BY <2>1
<1>7. CountOf(es, type) = Cardinality(here) /\ CountOf(more, type) = Cardinality(then) BY <1>3, <1>4 DEF CountOf
<1>8. Cardinality(here) \in Nat BY <1>5, FS_CardinalityType
<1>9. Cardinality(here \cup {Len(es) + 1}) = Cardinality(here) + 1 BY <1>5, FS_AddElement
<1>10. QED BY <1>1, <1>6, <1>7, <1>8, <1>9

(* What is read back depends on the events only, as long as all is legible. *)
LEMMA ReadAlike ==
  ASSUME NEW f \in Seq(Lines), NEW g \in Seq(Lines), Unbroken(f), Unbroken(g), Len(g) = Len(f),
         \A i \in 1 .. Len(f) : g[i].event = f[i].event
  PROVE  ReadBack(g) = ReadBack(f)
<1>1. /\ ReadBack(f) \in Seq(Events) /\ Len(ReadBack(f)) = Len(f)
      /\ \A i \in 1 .. Len(f) : ReadBack(f)[i] = f[i].event
  BY ReadBackIs
<1>2. /\ ReadBack(g) \in Seq(Events) /\ Len(ReadBack(g)) = Len(f)
      /\ \A i \in 1 .. Len(f) : ReadBack(g)[i] = g[i].event
  BY ReadBackIs
<1>3. QED BY <1>1, <1>2, SeqEqual

(* A kill in an append leaves, of a file that can be read to its end, all that was there
   before, with the event or without it. *)
LEMMA CutOfAppended ==
  ASSUME NEW f \in Seq(Lines), NEW e \in Events, NEW g \in CutShort(Appended(f, e)), Unbroken(g)
  PROVE  Unbroken(f) /\ (ReadBack(g) = ReadBack(f) \/ ReadBack(g) = Append(ReadBack(f), e))
<1>1. PICK a \in Seq(Lines) : a = Appended(f, e) BY AppendedIs
<1>2. g \in CutShort(a) /\ LineStates = {"whole", "unended", "torn", "glued", "lost"} BY <1>1 DEF LineStates
<1>3. \A h \in Seq(Lines) : h # << >> => Len(h) \in Nat /\ Len(h) \in 1 .. Len(h) BY EmptySeq
<1>4. ASSUME NEW s \in {"glued", "lost"}, a = SetLast(f, s), LastState(f) \in {"unended", "torn"},
             s = "glued" <=> LastState(f) = "unended"
      PROVE  Unbroken(f) /\ ReadBack(g) = ReadBack(f)
  <2>1. f # << >> /\ LastState(f) = f[Len(f)].state BY <1>4 DEF LastState
  <2>2. /\ Len(a) = Len(f) /\ \A i \in 1 .. Len(f) : a[i].event = f[i].event
        /\ \A i \in 1 .. Len(f) : a[i].state = IF i = Len(f) THEN s ELSE f[i].state
    BY <1>2, <1>4, <2>1, SetLastIs
  <2>3. Len(f) \in Nat /\ Len(f) \in 1 .. Len(f) /\ a # << >> BY <1>3, <2>1, <2>2, EmptySeq
  <2>4. LastState(a) = s BY <2>2, <2>3 DEF LastState
  <2>5. ~Unbroken(a) BY <2>2, <2>3, <2>4 DEF Unbroken, Parses
  <2>6. \A t \in LineStates :
          /\ SetLast(a, t) \in Seq(Lines) /\ Len(SetLast(a, t)) = Len(f)
          /\ \A i \in 1 .. Len(f) : SetLast(a, t)[i].event = f[i].event
          /\ \A i \in 1 .. Len(f) : SetLast(a, t)[i].state = IF i = Len(f) THEN t ELSE f[i].state
    BY <2>2, <2>3, SetLastIs
  <2>7. ~Unbroken(SetLast(a, "torn")) BY <1>2, <2>3, <2>6 DEF Unbroken, Parses
  <2>8. g = SetLast(a, "unended") /\ s = "glued" BY <1>2, <1>4, <2>4, <2>5, <2>7 DEF CutShort
  <2>9. /\ g \in Seq(Lines) /\ Len(g) = Len(f) /\ \A i \in 1 .. Len(f) : g[i].event = f[i].event
        /\ \A i \in 1 .. Len(f) : i # Len(f) => g[i].state = f[i].state
    BY <1>2, <2>6, <2>8
  <2>10. f[Len(f)].state = "unended" BY <1>4, <2>1, <2>8
  <2>11. Unbroken(f) BY <2>9, <2>10 DEF Unbroken, Parses
  <2>12. QED BY <2>9, <2>11, ReadAlike
<1>5. ASSUME a = Append(f, Line(e, "whole"))
      PROVE  Unbroken(f) /\ (ReadBack(g) = ReadBack(f) \/ ReadBack(g) = Append(ReadBack(f), e))
  <2>1. Line(e, "whole") \in Lines /\ Line(e, "whole").state = "whole" BY <1>2 DEF Line, Lines
  <2>2. /\ Len(f) \in Nat /\ Len(a) = Len(f) + 1 /\ a[Len(a)].state = "whole" /\ a # << >>
        /\ \A i \in 1 .. Len(f) : a[i] = f[i]
    BY <1>5, <2>1
  <2>3. LastState(a) = "whole" BY <2>2 DEF LastState
  <2>4. /\ Unbroken(a) => Unbroken(f) /\ ReadBack(a) = Append(ReadBack(f), e)
        /\ a = Appended(f, e)
    BY <1>1, AppendedIs, Zenon
  <2>5. \A t \in LineStates :
          /\ SetLast(a, t) \in Seq(Lines) /\ Len(SetLast(a, t)) = Len(a)
          /\ \A i \in 1 .. Len(a) : SetLast(a, t)[i].event = a[i].event
          /\ \A i \in 1 .. Len(a) : SetLast(a, t)[i].state = IF i = Len(a) THEN t ELSE a[i].state
    BY <2>2, SetLastIs
  <2>6. g \in {a, SetLast(a, "unended"), SetLast(a, "torn"), SubSeq(a, 1, Len(a) - 1)} BY <1>2, <2>3 DEF CutShort
  <2>7. CASE g = a BY <2>4, <2>7
  <2>8. CASE g = SetLast(a, "unended")
    <3>1. Unbroken(a) BY <1>2, <2>2, <2>5, <2>8 DEF Unbroken, Parses
    <3>2. ReadBack(g) = ReadBack(a) BY <1>2, <2>5, <2>8, <3>1, ReadAlike
    <3>3. QED BY <2>4, <3>1, <3>2
  <2>9. CASE g = SetLast(a, "torn")
    <3>1. Len(a) \in 1 .. Len(a) /\ Len(g) = Len(a) /\ g[Len(a)].state = "torn" BY <1>2, <2>2, <2>5, <2>9
    <3>2. QED BY <3>1 DEF Unbroken, Parses
  <2>10. CASE g = SubSeq(a, 1, Len(a) - 1)
    <3>1. PICK n \in Nat : n = Len(f) BY <2>2
    <3>2. 1 \in Int /\ n \in Int /\ \A i \in 1 .. n : a[i] \in Lines BY <2>2, <3>1
    <3>3. /\ SubSeq(a, 1, n) \in Seq(Lines) /\ Len(SubSeq(a, 1, n)) = IF 1 <= n THEN n - 1 + 1 ELSE 0
          /\ \A i \in 1 .. n - 1 + 1 : SubSeq(a, 1, n)[i] = a[1 + i - 1]
      BY <3>2, SubSeqProperties
    <3>4. g \in Seq(Lines) /\ Len(g) = n /\ \A i \in 1 .. n : g[i] = f[i] BY <2>2, <2>10, <3>1, <3>3
    <3>5. g = f BY <3>1, <3>4, SeqEqual
    <3>6. QED BY <3>5
  <2>11. QED BY <2>6, <2>7, <2>8, <2>9, <2>10
<1>6. QED BY <1>1, <1>4, <1>5 DEF Appended

RequestsIn(f) == CountOf(ReadBack(f), "model.request.started")

UnderWay == IF at = "requesting" THEN 1 ELSE 0

Starts(type) == IF type = "model.request.started" THEN 1 ELSE 0

(* The log is ahead of the session by the request that is under way, and what a kill may
   leave of it is not behind the snapshot. *)
Counted ==
  /\ Unbroken(file) => requests + UnderWay <= RequestsIn(file) /\ snapshot <= RequestsIn(file)
  /\ at \in Writing => \A g \in CutShort(file) : Unbroken(g) => snapshot <= RequestsIn(g)

LEMMA RequestsAre == ASSUME NEW f \in Seq(Lines) PROVE RequestsIn(f) \in Nat
<1>1. ReadBack(f) \in Seq(Events) BY ReadBackIs
<1>2. "turn.started" \in EventTypes /\ 0 \in Nat BY DEF EventTypes
<1>3. Event("turn.started", 0, 0) \in Events BY <1>2, EventIs
<1>4. QED BY <1>1, <1>3, CountOfMore DEF RequestsIn

(* An append counts a request that starts, and nothing else. *)
LEMMA CountedWriting ==
  ASSUME file \in Seq(Lines), seq \in Nat, snapshot \in Nat, requests \in Nat, Counted,
         NEW type \in EventTypes, NEW datum \in Nat, Write(type, datum), snapshot' = snapshot,
         requests' + UnderWay' <= requests + UnderWay + Starts(type),
         requests' \in Nat
  PROVE  Counted'
<1>1. PICK e \in Events : e = Event(type, datum, seq + 1) /\ e.type = type
  <2>1. seq + 1 \in Nat OBVIOUS
  <2>2. QED BY <2>1, EventIs
<1>2. file' = Appended(file, e) BY <1>1 DEF Write
<1>3. PICK es \in Seq(Events) : es = ReadBack(file) BY ReadBackIs
<1>4. PICK n \in Nat : n = RequestsIn(file) BY RequestsAre
<1>5. CountOf(Append(es, e), "model.request.started") = n + Starts(type)
  BY <1>1, <1>3, <1>4, CountOfMore DEF RequestsIn, Starts
<1>6. Unbroken(file) => requests + UnderWay <= n /\ snapshot <= n BY <1>4 DEF Counted
<1>7. Unbroken(file') => Unbroken(file) /\ ReadBack(file') = Append(es, e) BY <1>2, <1>3, AppendedIs, Zenon
<1>8. UnderWay \in Nat /\ UnderWay' \in Nat /\ Starts(type) \in Nat BY DEF UnderWay, Starts
<1>9. ASSUME Unbroken(file') PROVE requests' + UnderWay' <= RequestsIn(file') /\ snapshot' <= RequestsIn(file')
  <2>1. RequestsIn(file') = n + Starts(type) BY <1>5, <1>7, <1>9 DEF RequestsIn
  <2>2. requests + UnderWay <= n /\ snapshot <= n BY <1>6, <1>7, <1>9
  <2>3. PICK u \in Nat, v \in Nat, k \in Nat : u = UnderWay /\ v = UnderWay' /\ k = Starts(type) BY <1>8
  <2>4. requests' + v <= requests + u + k BY <2>3
  <2>5. requests' + v <= n + k /\ snapshot <= n + k BY <2>2, <2>3, <2>4
  <2>6. QED BY <2>1, <2>3, <2>5
<1>10. ASSUME NEW g \in CutShort(file'), Unbroken(g) PROVE snapshot' <= RequestsIn(g)
  <2>1. g \in CutShort(Appended(file, e)) BY <1>2, <1>10
  <2>2. Unbroken(file) /\ (ReadBack(g) = es \/ ReadBack(g) = Append(es, e)) BY <1>3, <1>10, <2>1, CutOfAppended
  <2>3. RequestsIn(g) = n \/ RequestsIn(g) = n + Starts(type)
    BY <1>3, <1>4, <1>5, <2>2 DEF RequestsIn
  <2>4. QED BY <1>6, <1>8, <2>2, <2>3
<1>11. QED BY <1>9, <1>10 DEF Counted

LEMMA CountedNext ==
  ASSUME Sound, Counted, [Next]_vars
  PROVE  Counted'
<1>1. Kept /\ Closed /\ file \in Seq(Lines) /\ seq \in Nat /\ snapshot \in Nat /\ requests \in Nat
  BY DEF Sound, Kept, Made
<1>2. CASE Booted \/ EnterLoop \/ HeedCancel \/ HearTooLate \/ Refuse \/ TransitionThrows \/ HandleText \/
           BatchThrows \/ EndStep \/ EndTurn \/ PersistMetadata \/ Nudge
  <2>1. /\ file' = file /\ at' \notin Writing
        /\ requests' + UnderWay' <= requests + UnderWay
        /\ snapshot' = snapshot \/ (snapshot' = requests /\ at = "persisting")
    <3>1. CASE HearTooLate BY <1>1, <3>1 DEF HearTooLate, disk, UnderWay, Writing
    <3>2. CASE ~HearTooLate
      <4>1. file' = file /\ at' \in {"idle", "top", "closing", "persisting"} /\ requests' = requests
            /\ (snapshot' = snapshot \/ (snapshot' = requests /\ at = "persisting"))
        BY <1>2, <3>2 DEF Booted, EnterLoop, HeedCancel, Refuse, TransitionThrows, HandleText, BatchThrows, EndStep,
             EndTurn, PersistMetadata, Nudge, disk, live
      <4>2. QED BY <1>1, <4>1 DEF UnderWay, Writing
    <3>3. QED BY <3>1, <3>2
  <2>2. UnderWay \in {0, 1} /\ UnderWay' \in {0, 1} /\ (at = "persisting" => UnderWay = 0) BY DEF UnderWay
  <2>3. requests' \in Nat /\ RequestsIn(file) \in Nat
    <3>1. requests' = requests \/ requests' = requests + 1
      BY <1>2 DEF Booted, EnterLoop, HeedCancel, HearTooLate, Refuse, TransitionThrows, HandleText, BatchThrows, EndStep,
           EndTurn, PersistMetadata, Nudge, disk, live
    <3>2. QED BY <1>1, <3>1, RequestsAre
  <2>4. ASSUME Unbroken(file) PROVE requests' + UnderWay' <= RequestsIn(file) /\ snapshot' <= RequestsIn(file)
    <3>1. PICK u \in Nat, v \in Nat, n \in Nat : u = UnderWay /\ v = UnderWay' /\ n = RequestsIn(file) BY <2>2, <2>3
    <3>2. requests + u <= n /\ snapshot <= n BY <2>4, <3>1 DEF Counted
    <3>3. requests' + v <= requests + u BY <2>1, <3>1
    <3>4. requests' + v <= n
      <4>1. PICK p \in Nat, q \in Nat : p = requests' /\ q = requests BY <1>1, <2>3
      <4>2. p + v <= q + u /\ q + u <= n BY <3>2, <3>3, <4>1
      <4>3. p + v <= n BY <4>2
      <4>4. QED BY <4>1, <4>3
    <3>5. requests <= n BY <1>1, <3>1, <3>2
    <3>6. QED BY <2>1, <3>1, <3>2, <3>4, <3>5
  <2>5. QED BY <2>1, <2>4 DEF Counted
<1>3. CASE Cancel BY <1>3 DEF Cancel, Counted, disk, live, UnderWay
<1>4. CASE SendRequest
  <2>1. Write("model.request.started", 0) /\ snapshot' = snapshot /\ requests' = requests /\ at # "requesting"
    BY <1>4 DEF SendRequest, live
  <2>2. "model.request.started" \in EventTypes /\ 0 \in Nat BY DEF EventTypes
  <2>3. UnderWay = 0 /\ UnderWay' \in {0, 1} /\ Starts("model.request.started") = 1 BY <2>1 DEF UnderWay, Starts
  <2>4. requests' + UnderWay' <= requests + UnderWay + Starts("model.request.started")
    <3>1. PICK v \in {0, 1} : v = UnderWay' BY <2>3
    <3>2. requests' + v <= requests + 0 + 1 BY <1>1, <2>1
    <3>3. QED BY <2>3, <3>1, <3>2
  <2>5. QED BY <1>1, <2>1, <2>2, <2>4, CountedWriting
<1>5. CASE RunTurn \/ OverBudget \/ HearFailure \/ HearAnswer \/ HandleCalls \/ BatchEnds \/
           LogResult \/ CloseOpenToolCalls \/ LogSynthetic \/ LogOutcome
  <2>1. PICK type \in EventTypes, d \in Nat : Write(type, d) BY <1>1, <1>5, WhatIsWritten
  <2>2. /\ snapshot' = snapshot /\ at' # "requesting"
        /\ requests' = requests \/ (requests' = requests + 1 /\ at = "requesting")
    <3>1. CASE HearAnswer BY <3>1 DEF HearAnswer, Hear
    <3>2. CASE RunTurn \/ OverBudget \/ HearFailure \/ HandleCalls \/ BatchEnds
      BY <3>2 DEF RunTurn, OverBudget, HearFailure, HandleCalls, BatchEnds, live
    <3>3. CASE LogResult \/ CloseOpenToolCalls \/ LogSynthetic \/ LogOutcome
      BY <3>3 DEF LogResult, CloseOpenToolCalls, LogSynthetic, LogOutcome, live
    <3>4. QED BY <1>5, <3>1, <3>2, <3>3
  <2>3. UnderWay' = 0 /\ UnderWay = (IF at = "requesting" THEN 1 ELSE 0) BY <2>2 DEF UnderWay
  <2>4. requests' \in Nat /\ requests' + UnderWay' <= requests + UnderWay BY <1>1, <2>2, <2>3
  <2>5. requests' + UnderWay' <= requests + UnderWay + Starts(type)
    <3>1. PICK u \in Nat, k \in Nat : u = UnderWay /\ k = Starts(type) BY <2>3 DEF Starts
    <3>2. requests' + 0 <= requests + u BY <2>3, <2>4, <3>1
    <3>3. requests' + 0 <= requests + u + k
      <4>1. PICK p \in Nat, q \in Nat : p = requests' /\ q = requests BY <1>1, <2>4
      <4>2. p + 0 <= q + u BY <3>2, <4>1
      <4>3. p + 0 <= q + u + k BY <4>2
      <4>4. QED BY <4>1, <4>3
    <3>4. QED BY <2>3, <3>1, <3>3
  <2>6. QED BY <1>1, <2>1, <2>2, <2>4, <2>5, CountedWriting
<1>6. CASE Shutdown \/ Crash
  <2>1. at' = "down" /\ requests' = 0 BY <1>6 DEF Shutdown, Crash, Forget
  <2>2. UnderWay' = 0 /\ UnderWay \in {0, 1} /\ at' \notin Writing BY <2>1 DEF UnderWay, Writing
  <2>3. CASE file' = file
    <3>1. snapshot' = snapshot \/ snapshot' = requests BY <1>6 DEF Shutdown, Crash
    <3>2. RequestsIn(file) \in Nat BY <1>1, RequestsAre
    <3>3. QED BY <1>1, <2>1, <2>2, <2>3, <3>1, <3>2 DEF Counted
  <2>4. CASE file' # file
    <3>1. at \in Writing /\ file' \in CutShort(file) /\ snapshot' = snapshot BY <1>6, <2>4 DEF Shutdown, Crash
    <3>2. Unbroken(file') => snapshot' <= RequestsIn(file') BY <3>1 DEF Counted
    <3>3. file # << >> BY <1>1, <3>1 DEF Kept, Placed
    <3>4. file' \in Seq(Lines) BY <1>1, <3>1, <3>3, CutShortIs
    <3>5. RequestsIn(file') \in Nat BY <3>4, RequestsAre
    <3>6. QED BY <2>1, <2>2, <3>2, <3>5 DEF Counted
  <2>5. QED BY <2>3, <2>4
<1>7. CASE Resume
  <2>1. at' = "idle" /\ requests' = snapshot /\ file' = file /\ snapshot' = snapshot BY <1>7 DEF Resume, disk
  <2>2. UnderWay' = 0 /\ at' \notin Writing BY <2>1 DEF UnderWay, Writing
  <2>3. QED BY <1>1, <2>1, <2>2 DEF Counted
<1>8. CASE UNCHANGED vars BY <1>8 DEF vars, Counted, UnderWay
<1>9. QED BY <1>2, <1>3, <1>4, <1>5, <1>6, <1>7, <1>8 DEF Next

(* Over any number of processes, crashes and turns, a session whose log can be read to its
   end never counts more requests than are read back from it: the snapshot a resume starts
   from is of before the requests that a kill took from the log (session.ts,
   persistMetadata). *)
THEOREM NoRequestCountedTwice == Spec => []SnapshotBehind
<1>1. Init => Counted
  <2> SUFFICES ASSUME Init PROVE Counted OBVIOUS
  <2>1. PICK e \in Events : e = Event("session.started", 0, 1)
    <3>1. "session.started" \in EventTypes BY DEF EventTypes
    <3>2. QED BY <3>1, EventIs
  <2>2. PICK none \in Seq(Lines) : none = << >>
    <3>1. << >> \in Seq(Lines) OBVIOUS
    <3>2. QED BY <3>1
  <2>3. file = Appended(none, e) /\ snapshot = 0 /\ requests = 0 /\ at = "booting" BY <2>1, <2>2 DEF Init
  <2>4. file \in Seq(Lines) /\ file # << >> BY <2>3, AppendedIs
  <2>5. \A g \in CutShort(file) : g \in Seq(Lines) BY <2>4, CutShortIs
  <2>6. RequestsIn(file) \in Nat /\ \A g \in CutShort(file) : RequestsIn(g) \in Nat BY <2>4, <2>5, RequestsAre
  <2>7. UnderWay = 0 BY <2>3 DEF UnderWay
  <2>8. QED BY <2>3, <2>6, <2>7 DEF Counted
<1>2. Sound /\ Counted /\ [Next]_vars => (Sound /\ Counted)' BY SoundNext, CountedNext
<1>3. Sound /\ Counted => SnapshotBehind
  <2> SUFFICES ASSUME Sound, Counted, Unbroken(file) PROVE requests <= RequestsIn(file)
    BY DEF SnapshotBehind, RequestsIn
  <2>1. file \in Seq(Lines) /\ requests \in Nat BY DEF Sound, Kept, Made
  <2>2. RequestsIn(file) \in Nat /\ UnderWay \in {0, 1} BY <2>1, RequestsAre DEF UnderWay
  <2>3. QED BY <2>1, <2>2 DEF Counted
<1>4. QED BY <1>1, <1>2, <1>3, SoundFirst, PTL DEF Spec

=============================================================================
