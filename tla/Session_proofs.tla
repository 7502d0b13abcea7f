--------------------------- MODULE Session_proofs ---------------------------
(* How a session is configured, how its controls change it, what its hooks     *)
(* tell the model, how its terminal is kept and drawn and what leaves the      *)
(* machine for it: the proofs of Configuration, of Controls, of Hooks, of      *)
(* LineEditor and Terminal, of Viewport, of Screen, of EgressProxy and of      *)
(* WebFetch.                                                                   *)
EXTENDS Configuration, Controls, Hooks, Terminal, Viewport, Screen, EgressProxy, WebFetch,
        FiniteSetTheorems, SequenceTheorems, NaturalsInduction, WellFoundedInduction, TLAPS

-----------------------------------------------------------------------------
(* A function that is defined from what it is of the number before exists.     *)

(* A set of naturals that is not empty has a least member. *)
LEMMA LeastOf ==
  ASSUME NEW T, T \subseteq Nat, T # {}
  PROVE  \E x \in T : \A y \in T : x <= y
<1> DEFINE R == OpToRel(<, Nat)
<1>1. IsWellFoundedOn(R, Nat) BY NatLessThanWellFounded
<1>2. R = {ss \in Nat \X Nat : ss[1] < ss[2]} BY DEF OpToRel
<1>3. \E x \in T : \A y \in T : ~(<<y, x>> \in R)
  <2> HIDE DEF R
  <2> QED BY <1>1, WFMin
<1>4. PICK x \in T : \A y \in T : ~(<<y, x>> \in R) BY <1>3
<1>5. ASSUME NEW y \in T PROVE x <= y
  <2>1. x \in Nat /\ y \in Nat OBVIOUS
  <2>2. ~(<<y, x>> \in {ss \in Nat \X Nat : ss[1] < ss[2]}) BY <1>2, <1>4
  <2>3. ~(y < x) BY <2>1, <2>2
  <2>4. QED BY <2>1, <2>3
<1>6. QED BY <1>5

(* What holds of 0, and of n when it holds of n - 1, holds of all up to N. *)
LEMMA UpTo ==
  ASSUME NEW N \in Nat, NEW T, 0 \in T, \A n \in 1 .. N : n - 1 \in T => n \in T
  PROVE  \A n \in 0 .. N : n \in T
<1> DEFINE Missing == {n \in 0 .. N : n \notin T}
<1>1. ASSUME Missing # {} PROVE FALSE
  <2>1. PICK x \in Missing : \A y \in Missing : x <= y
    <3>1. Missing \subseteq Nat OBVIOUS
    <3> HIDE DEF Missing
    <3>2. QED BY <1>1, <3>1, LeastOf
  <2>2. x \in 1 .. N /\ x \notin T BY <2>1
  <2>3. x - 1 \in 0 .. N /\ ~(x <= x - 1) BY <2>2
  <2>4. x - 1 \in T BY <2>1, <2>3
  <2>5. QED BY <2>2, <2>4
<1>2. QED BY <1>1

(* A function that starts at base and takes move n at n. *)
Iterates(g, N, base, move) == g[0] = base /\ \A n \in 1 .. N : g[n] = move[n][g[n - 1]]

LEMMA IterationExists ==
  ASSUME NEW N \in Nat, NEW S, NEW base \in S, NEW move \in [1 .. N -> [S -> S]]
  PROVE  \E g \in [0 .. N -> S] : Iterates(g, N, base, move)
<1> DEFINE T == {m \in 0 .. N : \E g \in [0 .. m -> S] : Iterates(g, m, base, move)}
<1>1. 0 \in T
  <2>1. [i \in 0 .. 0 |-> base] \in [0 .. 0 -> S] /\ Iterates([i \in 0 .. 0 |-> base], 0, base, move)
    BY DEF Iterates
  <2>2. QED BY <2>1
<1>2. ASSUME NEW n \in 1 .. N, n - 1 \in T PROVE n \in T
  <2>1. PICK g \in [0 .. n - 1 -> S] : Iterates(g, n - 1, base, move) BY <1>2
  <2>2. n - 1 \in 0 .. n - 1 /\ 0 \in 0 .. n - 1 BY <1>2
  <2>3. move[n] \in [S -> S] /\ g[n - 1] \in S BY <2>1, <2>2
  <2>4. PICK h : h = [i \in 0 .. n |-> IF i = n THEN move[n][g[n - 1]] ELSE g[i]] OBVIOUS
  <2>5. h \in [0 .. n -> S]
    <3>1. ASSUME NEW i \in 0 .. n PROVE h[i] \in S
      <4>1. CASE i = n BY <2>3, <2>4, <4>1
      <4>2. CASE i # n
        <5>1. i \in 0 .. n - 1 BY <4>2
        <5>2. QED BY <2>1, <2>4, <4>2, <5>1
      <4>3. QED BY <4>1, <4>2
    <3>2. QED BY <2>4, <3>1
  <2>6. h[0] = base BY <2>1, <2>2, <2>4, <1>2 DEF Iterates
  <2>7. ASSUME NEW i \in 1 .. n PROVE h[i] = move[i][h[i - 1]]
    <3>1. i - 1 \in 0 .. n /\ i - 1 # n /\ i - 1 \in 0 .. n - 1 OBVIOUS
    <3>2. h[i - 1] = g[i - 1] BY <2>4, <3>1
    <3>3. CASE i = n BY <2>4, <3>2, <3>3
    <3>4. CASE i # n
      <4>1. i \in 1 .. n - 1 /\ i \in 0 .. n BY <3>4
      <4>2. g[i] = move[i][g[i - 1]] BY <2>1, <4>1 DEF Iterates
      <4>3. QED BY <2>4, <3>2, <3>4, <4>1, <4>2
    <3>5. QED BY <3>3, <3>4
  <2>8. QED BY <2>5, <2>6, <2>7, SMTT(40) DEF Iterates
<1>3. \A n \in 0 .. N : n \in T
  <2> HIDE DEF T
  <2> QED BY <1>1, <1>2, UpTo
<1>4. N \in 0 .. N OBVIOUS
<1>5. QED BY <1>3, <1>4

-----------------------------------------------------------------------------
(* Configuration: how two layers combine.                                      *)

LEMMA MinOfOne == ASSUME NEW n \in Nat PROVE Min({n}) = n
BY DEF Min

LEMMA MinOfTwo == ASSUME NEW m \in Int, NEW n \in Int
                  PROVE  Min({m, n}) \in {m, n} /\ Min({m, n}) <= m /\ Min({m, n}) <= n
<1>1. \E x \in {m, n} : \A y \in {m, n} : x =< y OBVIOUS
<1>2. PICK x : x = Min({m, n}) OBVIOUS
<1>3. x \in {m, n} /\ \A y \in {m, n} : x =< y BY <1>1, <1>2 DEF Min
<1>4. QED BY <1>2, <1>3

LEMMA SaidAre ==
  ASSUME NEW l, NEW h, NEW k
  PROVE  /\ k \in DOMAIN l /\ k \notin DOMAIN h => Said(l, h, k) = {l[k]}
         /\ k \notin DOMAIN l /\ k \in DOMAIN h => Said(l, h, k) = {h[k]}
         /\ k \in DOMAIN l /\ k \in DOMAIN h => Said(l, h, k) = {l[k], h[k]}
         /\ k \notin DOMAIN l /\ k \notin DOMAIN h => Said(l, h, k) = {}
<1>1. Said(l, h, k) = {x[k] : x \in {m \in {l, h} : k \in DOMAIN m}} BY DEF Said
<1>2. CASE k \in DOMAIN l /\ k \notin DOMAIN h
  <2>1. {m \in {l, h} : k \in DOMAIN m} = {l} BY <1>2
  <2>2. QED BY <1>1, <1>2, <2>1
<1>3. CASE k \notin DOMAIN l /\ k \in DOMAIN h
  <2>1. {m \in {l, h} : k \in DOMAIN m} = {h} BY <1>3
  <2>2. QED BY <1>1, <1>3, <2>1
<1>4. CASE k \in DOMAIN l /\ k \in DOMAIN h
  <2>1. {m \in {l, h} : k \in DOMAIN m} = {l, h} BY <1>4
  <2>2. QED BY <1>1, <1>4, <2>1
<1>5. CASE k \notin DOMAIN l /\ k \notin DOMAIN h
  <2>1. {m \in {l, h} : k \in DOMAIN m} = {} BY <1>5
  <2>2. QED BY <1>1, <1>5, <2>1
<1>6. QED BY <1>2, <1>3, <1>4, <1>5

SafeKeys == {"redaction", "content", "network", "pull", "benchmark"}
LEMMA SafeAre == DOMAIN SafeValue = SafeKeys /\ \A k \in SafeKeys : SafeValue[k] \in BOOLEAN
BY DEF SafeValue, SafeKeys

(* Which rule a key is combined by. *)
LEMMA CombineIs ==
  ASSUME NEW l, NEW h, NEW k
  PROVE  /\ k \in SafeKeys => Combine(l, h, k) = IF Said(l, h, k) = {} \/ SafeValue[k] \in Said(l, h, k)
                                                 THEN SafeValue[k] ELSE ~SafeValue[k]
         /\ k \in Minimised => Combine(l, h, k) = Min(Said(l, h, k))
         /\ k \in Unions => Combine(l, h, k) = UNION Said(l, h, k)
         /\ k \in ByName => Combine(l, h, k) = Overlaid(Get(h, k), Get(l, k))
         /\ k = "hosts" => Combine(l, h, k) = IntersectHosts(Get(l, k), Get(h, k))
         /\ k \notin SafeKeys \cup Minimised \cup Unions \cup ByName \cup {"hosts"}
              => Combine(l, h, k) = IF k \in DOMAIN h THEN h[k] ELSE l[k]
<1> HIDE DEF Said, Get, IntersectHosts
<1>1. DOMAIN SafeValue = SafeKeys BY SafeAre
<1>2. /\ k \in SafeKeys => k \notin Minimised \cup Unions \cup ByName \cup {"hosts"}
      /\ k \in Minimised => k \notin Unions \cup ByName \cup {"hosts"}
      /\ k \in Unions => k \notin ByName \cup {"hosts"}
      /\ k \in ByName => k # "hosts"
  BY DEF SafeKeys, Minimised, Unions, ByName
<1>3. CASE k \in SafeKeys BY <1>1, <1>2, <1>3 DEF Combine
<1>4. CASE k \in Minimised BY <1>1, <1>2, <1>4 DEF Combine
<1>5. CASE k \in Unions BY <1>1, <1>2, <1>5 DEF Combine
<1>6. CASE k \in ByName BY <1>1, <1>2, <1>6 DEF Combine
<1>7. CASE k = "hosts" BY <1>1, <1>2, <1>7 DEF Combine
<1>8. CASE k \notin SafeKeys \cup Minimised \cup Unions \cup ByName \cup {"hosts"} BY <1>1, <1>8 DEF Combine
<1>9. QED BY <1>3, <1>4, <1>5, <1>6, <1>7, <1>8

LEMMA MergeIs ==
  ASSUME NEW l, NEW h
  PROVE  /\ DOMAIN Merge(l, h) = DOMAIN l \cup DOMAIN h \cup SafeKeys
         /\ \A k \in DOMAIN Merge(l, h) : Merge(l, h)[k] = Combine(l, h, k)
BY SafeAre DEF Merge

(* What a layer does not name, it leaves alone. *)
LEMMA MergeKeeps ==
  ASSUME NEW l, Layer(l), NEW h, NEW k \in DOMAIN l, k \notin DOMAIN h
  PROVE  Merge(l, h)[k] = l[k]
<1>1. Merge(l, h)[k] = Combine(l, h, k) BY MergeIs
<1>2. Said(l, h, k) = {l[k]} /\ Get(l, k) = l[k] /\ Get(h, k) = Nothing BY SaidAre DEF Get
<1>3. DOMAIN Nothing = {} BY DEF Nothing
<1> DEFINE v == l[k]
<1>4. CASE k \in SafeKeys
  <2>1. l[k] \in BOOLEAN /\ SafeValue[k] \in BOOLEAN BY <1>4, SafeAre DEF Layer
  <2>2. Combine(l, h, k) = IF SafeValue[k] = l[k] THEN SafeValue[k] ELSE ~SafeValue[k]
    BY <1>2, <1>4, CombineIs
  <2>3. QED BY <1>1, <2>1, <2>2
<1>5. CASE k \in Minimised
  <2>1. l[k] \in Nat BY <1>5 DEF Layer
  <2>2. QED BY <1>1, <1>2, <1>5, <2>1, CombineIs, MinOfOne
<1>6. CASE k \in Unions
  <2>1. Combine(l, h, k) = UNION {l[k]} BY <1>2, <1>6, CombineIs
  <2>2. UNION {v} = v OBVIOUS
  <2>3. QED BY <1>1, <2>1, <2>2
<1>7. CASE k \in ByName
  <2>1. v = [x \in DOMAIN v |-> v[x]] BY <1>7 DEF Layer
  <2>2. Merge(l, h)[k] = Overlaid(Nothing, v) BY <1>1, <1>2, <1>7, CombineIs
  <2> HIDE DEF v
  <2>3. Overlaid(Nothing, v) = [x \in DOMAIN v |-> v[x]] BY <1>3 DEF Overlaid
  <2>4. QED BY <2>1, <2>2, <2>3 DEF v
<1>8. CASE k = "hosts"
  <2>1. Combine(l, h, k) = IntersectHosts(l[k], Nothing) BY <1>2, <1>8, CombineIs
  <2>2. QED BY <1>1, <2>1 DEF IntersectHosts
<1>9. CASE k \notin SafeKeys \cup Minimised \cup Unions \cup ByName \cup {"hosts"} BY <1>1, <1>9, CombineIs
<1>10. QED BY <1>4, <1>5, <1>6, <1>7, <1>8, <1>9

(* Two layers make a layer. *)
LEMMA MergeLayer ==
  ASSUME NEW l, Layer(l), NEW h, Layer(h)
  PROVE  Layer(Merge(l, h))
<1> DEFINE m == Merge(l, h)
<1>1. \A k \in DOMAIN m : m[k] = Combine(l, h, k) BY MergeIs
<1>2. ASSUME NEW k \in Minimised \cap DOMAIN m PROVE m[k] \in Nat
  <2>1. k \in DOMAIN l \cup DOMAIN h BY <1>2, MergeIs DEF Minimised, SafeKeys
  <2>2. m[k] = Min(Said(l, h, k)) BY <1>1, <1>2, CombineIs
  <2>3. k \in DOMAIN l => l[k] \in Nat BY <1>2 DEF Layer
  <2>4. k \in DOMAIN h => h[k] \in Nat BY <1>2 DEF Layer
  <2> HIDE DEF m
  <2>5. CASE k \in DOMAIN l /\ k \notin DOMAIN h BY <2>2, <2>3, <2>5, SaidAre, MinOfOne
  <2>6. CASE k \notin DOMAIN l /\ k \in DOMAIN h BY <2>2, <2>4, <2>6, SaidAre, MinOfOne
  <2>7. CASE k \in DOMAIN l /\ k \in DOMAIN h
    <3>1. Said(l, h, k) = {l[k], h[k]} BY <2>7, SaidAre
    <3>2. l[k] \in Nat /\ h[k] \in Nat /\ l[k] \in Int /\ h[k] \in Int BY <2>3, <2>4, <2>7
    <3>3. Min({l[k], h[k]}) \in {l[k], h[k]} BY ONLY <3>2, MinOfTwo
    <3>4. QED BY <2>2, <3>1, <3>2, <3>3
  <2>8. QED BY <2>1, <2>5, <2>6, <2>7
<1>3. ASSUME NEW k \in SafeKeys \cap DOMAIN m PROVE m[k] \in BOOLEAN
  <2>1. SafeValue[k] \in BOOLEAN BY <1>3, SafeAre
  <2>2. m[k] = IF Said(l, h, k) = {} \/ SafeValue[k] \in Said(l, h, k) THEN SafeValue[k] ELSE ~SafeValue[k]
    BY <1>1, <1>3, CombineIs
  <2>3. QED BY <2>1, <2>2
<1>4. ASSUME NEW k \in ByName \cap DOMAIN m PROVE m[k] = [x \in DOMAIN m[k] |-> m[k][x]]
  <2>1. m[k] = Overlaid(Get(h, k), Get(l, k)) BY <1>1, <1>4, CombineIs
  <2> HIDE DEF m
  <2>2. QED BY <2>1 DEF Overlaid
<1>5. ASSUME "hosts" \in DOMAIN m PROVE m["hosts"] = [x \in DOMAIN m["hosts"] |-> m["hosts"][x]]
  <2> DEFINE a == Get(l, "hosts")
  <2> DEFINE b == Get(h, "hosts")
  <2>1. m["hosts"] = IntersectHosts(a, b) BY <1>1, <1>5, CombineIs
  <2>2. a = [x \in DOMAIN a |-> a[x]]
    <3>1. CASE "hosts" \in DOMAIN l BY <3>1 DEF Layer, Get
    <3>2. CASE "hosts" \notin DOMAIN l BY <3>2 DEF Get, Nothing
    <3>3. QED BY <3>1, <3>2
  <2>3. b = [x \in DOMAIN b |-> b[x]]
    <3>1. CASE "hosts" \in DOMAIN h BY <3>1 DEF Layer, Get
    <3>2. CASE "hosts" \notin DOMAIN h BY <3>2 DEF Get, Nothing
    <3>3. QED BY <3>1, <3>2
  <2> HIDE DEF m, a, b
  <2>4. IntersectHosts(a, b) \in {a, b, [kind \in DOMAIN a \cap DOMAIN b |->
          {x \in b[kind] : x \in a[kind] \/ AnyHost \in a[kind]}]} BY DEF IntersectHosts
  <2>5. QED BY <2>1, <2>2, <2>3, <2>4
<1> HIDE DEF m
<1>6. QED BY <1>2, <1>3, <1>4, <1>5, SafeAre DEF Layer, m

-----------------------------------------------------------------------------
(* Configuration: what a project's layer can do.                               *)

FromFlags == {"default", "profile", "content"}
Plain(F) == Layer(F) /\ DOMAIN F \subseteq FromFlags
Grounded(c) == Layer(c) /\ {"maxSteps", "redaction", "content", "network", "secretPaths"} \subseteq DOMAIN c

(* What the flags, the ceiling and the list of servers leave of a layer. *)
Finished(c, F, f) ==
  /\ DOMAIN f = DOMAIN c \cup DOMAIN F \cup SafeKeys
  /\ \A k \in DOMAIN c \ (FromFlags \cup {"maxSteps", "redaction", "servers"}) : f[k] = c[k]
  /\ \A k \in {"pull", "benchmark"} \ DOMAIN c : f[k] = SafeValue[k]
  /\ f["maxSteps"] = Min({c["maxSteps"], SystemCeiling})
  /\ f["redaction"] = TRUE /\ f["content"] = FALSE
  /\ "servers" \in DOMAIN c => /\ DOMAIN f["servers"] \subseteq DOMAIN c["servers"]
                               /\ \A s \in DOMAIN f["servers"] : f["servers"][s] = c["servers"][s]

LEMMA FinishIs ==
  ASSUME NEW c, Grounded(c), NEW F, Plain(F), NEW f, f = Finish(c, F)
  PROVE  Finished(c, F, f)
<1> DEFINE m == Merge(c, F)
<1> DEFINE g == ApplySystemCeiling(m)
<1>1. DOMAIN m = DOMAIN c \cup DOMAIN F \cup SafeKeys BY MergeIs
<1>2. \A k \in DOMAIN c \ FromFlags : m[k] = c[k] BY MergeKeeps DEF Grounded, Plain
<1>3. \A k \in {"pull", "benchmark"} \ DOMAIN c : m[k] = SafeValue[k]
  <2>1. ASSUME NEW k \in {"pull", "benchmark"} \ DOMAIN c PROVE m[k] = SafeValue[k]
    <3>1. k \in SafeKeys /\ k \notin DOMAIN F BY DEF SafeKeys, Plain, FromFlags
    <3>2. Said(c, F, k) = {} BY <2>1, <3>1, SaidAre
    <3>3. m[k] = Combine(c, F, k) BY <1>1, <3>1, MergeIs
    <3>4. QED BY <3>1, <3>2, <3>3, CombineIs
  <2>2. QED BY <2>1
<1>4. f = NarrowServers(g) BY DEF Finish
<1> HIDE DEF m
<1>5. /\ DOMAIN g = DOMAIN m
      /\ g["maxSteps"] = Min({m["maxSteps"], SystemCeiling}) /\ g["redaction"] = TRUE /\ g["content"] = FALSE
      /\ \A k \in DOMAIN m \ {"maxSteps", "redaction", "content"} : g[k] = m[k]
  <2>1. {"maxSteps", "redaction", "content"} \subseteq DOMAIN m BY <1>1 DEF Grounded
  <2>2. QED BY <2>1 DEF ApplySystemCeiling
<1> HIDE DEF g
<1>6. /\ DOMAIN f = DOMAIN g
      /\ \A k \in DOMAIN g \ {"servers"} : f[k] = g[k]
      /\ "servers" \in DOMAIN g => /\ DOMAIN f["servers"] \subseteq DOMAIN g["servers"]
                                   /\ \A s \in DOMAIN f["servers"] : f["servers"][s] = g["servers"][s]
  <2>1. CASE {"use", "servers"} \subseteq DOMAIN g
    <3>1. f = [g EXCEPT !.servers = Restrict(@, DOMAIN @ \cap g.use)] BY <1>4, <2>1 DEF NarrowServers
    <3> DEFINE r == Restrict(g["servers"], DOMAIN g["servers"] \cap g["use"])
    <3>2. DOMAIN f = DOMAIN g /\ f["servers"] = r /\ \A k \in DOMAIN g \ {"servers"} : f[k] = g[k] BY <2>1, <3>1
    <3>3. DOMAIN r = DOMAIN g["servers"] \cap g["use"] /\ \A s \in DOMAIN r : r[s] = g["servers"][s] BY DEF Restrict
    <3> HIDE DEF r
    <3>4. QED BY <3>2, <3>3
  <2>2. CASE ~({"use", "servers"} \subseteq DOMAIN g)
    <3>1. f = g BY <1>4, <2>2 DEF NarrowServers
    <3>2. QED BY <3>1
  <2>3. QED BY <2>1, <2>2
<1>7. \A k \in DOMAIN c \ (FromFlags \cup {"maxSteps", "redaction", "servers"}) : f[k] = c[k]
  BY <1>1, <1>2, <1>5, <1>6 DEF FromFlags
<1>8. \A k \in {"pull", "benchmark"} \ DOMAIN c : f[k] = SafeValue[k]
  BY <1>1, <1>3, <1>5, <1>6 DEF SafeKeys
<1>9. f["maxSteps"] = Min({c["maxSteps"], SystemCeiling}) /\ f["redaction"] = TRUE /\ f["content"] = FALSE
  <2>1. "maxSteps" \in DOMAIN c \ FromFlags BY DEF Grounded, FromFlags
  <2>2. {"maxSteps", "redaction", "content"} \subseteq DOMAIN g \ {"servers"} BY <1>1, <1>5 DEF Grounded
  <2>3. QED BY <1>2, <1>5, <1>6, <2>1, <2>2
<1>10. "servers" \in DOMAIN c => g["servers"] = c["servers"] /\ "servers" \in DOMAIN g
  BY <1>1, <1>2, <1>5 DEF FromFlags
<1>11. QED BY <1>1, <1>5, <1>6, <1>7, <1>8, <1>9, <1>10 DEF Finished

(* What a layer that names nothing of the user's own does to the user's. *)
Narrowed(u, q, m) ==
  /\ Grounded(m) /\ m["network"] = FALSE
  /\ \A k \in UserOnly \cap DOMAIN u : k \in DOMAIN m /\ m[k] = u[k]
  /\ \A k \in UserOnly \ DOMAIN u : k \in DOMAIN m => k = "pull" /\ m[k] = SafeValue[k]
  /\ \A k \in {"maxSteps", "memory"} \cap DOMAIN u : k \in DOMAIN m /\ m[k] <= u[k]
  /\ u["secretPaths"] \subseteq m["secretPaths"]
  /\ m # u => ("hosts" \in DOMAIN m => m["hosts"] = IntersectHosts(Get(u, "hosts"), Get(q, "hosts")))

LEMMA MergeNarrows ==
  ASSUME NEW u, Grounded(u), u["network"] = FALSE, NEW q, Layer(q), DOMAIN q \cap UserOnly = {},
         NEW m, m = Merge(u, q)
  PROVE  Narrowed(u, q, m)
<1>1. DOMAIN m = DOMAIN u \cup DOMAIN q \cup SafeKeys /\ \A k \in DOMAIN m : m[k] = Combine(u, q, k) BY MergeIs
<1>2. Layer(m) BY MergeLayer DEF Grounded
<1>3. \A k \in UserOnly \cap DOMAIN u : m[k] = u[k] BY MergeKeeps DEF Grounded
<1>4. Grounded(m) BY <1>1, <1>2 DEF Grounded
<1>5. m["network"] = FALSE
  <2>1. "network" \in SafeKeys /\ SafeValue["network"] = FALSE BY DEF SafeKeys, SafeValue
  <2>2. "network" \in DOMAIN u BY DEF Grounded
  <2>3. u["network"] \in Said(u, q, "network") BY <2>2, SaidAre
  <2>4. SafeValue["network"] \in Said(u, q, "network") BY <2>1, <2>3, Zenon
  <2>5. Combine(u, q, "network") = SafeValue["network"] BY <2>1, <2>4, CombineIs
  <2>6. "network" \in DOMAIN m BY <1>1, <2>1
  <2>7. m["network"] = Combine(u, q, "network") BY <1>1, <2>6
  <2>8. QED BY <2>1, <2>5, <2>7, Zenon
<1>6. ASSUME NEW k \in UserOnly \ DOMAIN u, k \in DOMAIN m PROVE k = "pull" /\ m[k] = SafeValue[k]
  <2>1. k \notin DOMAIN q OBVIOUS
  <2>2. k \in SafeKeys /\ k = "pull" BY <1>1, <1>6, <2>1 DEF SafeKeys, UserOnly
  <2>3. Said(u, q, k) = {} BY <1>6, <2>1, SaidAre
  <2>4. QED BY <1>1, <1>6, <2>2, <2>3, CombineIs
<1>7. ASSUME NEW k \in {"maxSteps", "memory"} \cap DOMAIN u PROVE k \in DOMAIN m /\ m[k] <= u[k]
  <2>1. k \in Minimised /\ u[k] \in Nat BY DEF Minimised, Grounded, Layer
  <2>2. m[k] = Min(Said(u, q, k)) BY <1>1, <2>1, CombineIs
  <2>3. CASE k \notin DOMAIN q
    <3>1. m[k] = u[k] BY <2>1, <2>2, <2>3, SaidAre, MinOfOne
    <3>2. QED BY <1>1, <2>1, <3>1
  <2>4. CASE k \in DOMAIN q
    <3>1. u[k] \in Int /\ q[k] \in Int BY <2>1, <2>4 DEF Layer
    <3>2. Said(u, q, k) = {u[k], q[k]} BY <2>4, SaidAre
    <3>3. Min({u[k], q[k]}) <= u[k] BY ONLY <3>1, MinOfTwo
    <3>4. QED BY <1>1, <2>2, <3>2, <3>3
  <2>5. QED BY <2>3, <2>4
<1>8. u["secretPaths"] \subseteq m["secretPaths"]
  <2>1. "secretPaths" \in Unions /\ "secretPaths" \in DOMAIN u BY DEF Unions, Grounded
  <2>2. u["secretPaths"] \in Said(u, q, "secretPaths") BY <2>1, SaidAre
  <2>3. m["secretPaths"] = UNION Said(u, q, "secretPaths") BY <1>1, <2>1, CombineIs
  <2>4. QED BY <2>2, <2>3
<1>9. "hosts" \in DOMAIN m => m["hosts"] = IntersectHosts(Get(u, "hosts"), Get(q, "hosts")) BY <1>1, CombineIs
<1>10. QED BY <1>1, <1>3, <1>4, <1>5, <1>6, <1>7, <1>8, <1>9 DEF Narrowed

(* The property, of what the layers make. *)
Narrower(cf, own, servers) ==
    /\ \A k \in UserOnly \ {"servers"} :
         /\ k \in DOMAIN cf <=> k \in DOMAIN own
         /\ k \in DOMAIN own => cf[k] = own[k]
    /\ \A s \in DOMAIN Get(cf, "servers") : s \in DOMAIN servers /\ cf["servers"][s] = servers[s]
    /\ \A k \in {"maxSteps", "memory"} \cap DOMAIN own : cf[k] <= own[k]
    /\ cf["redaction"] /\ ~cf["content"] /\ ~cf["network"]
    /\ own["secretPaths"] \subseteq cf["secretPaths"]
    /\ Get(own, "hosts") # Nothing =>
         \A kind \in DOMAIN EgressDefault :
           AnyHost \in EgressOf(own)[kind] \/ EgressOf(cf)[kind] \subseteq EgressOf(own)[kind]

LEMMA EgressIs ==
  ASSUME NEW c, NEW d, Get(c, "providers") = Get(d, "providers"), NEW kind \in DOMAIN EgressDefault,
         kind \in DOMAIN Get(c, "hosts") =>
           /\ kind \in DOMAIN Get(d, "hosts")
           /\ AnyHost \in Get(d, "hosts")[kind] \/ Get(c, "hosts")[kind] \subseteq Get(d, "hosts")[kind]
  PROVE  AnyHost \in EgressOf(d)[kind] \/ EgressOf(c)[kind] \subseteq EgressOf(d)[kind]
<1> HIDE DEF Get
<1> DEFINE ends(x) == {Get(x, "providers")[p].host : p \in DOMAIN Get(x, "providers")}
<1> DEFINE hs(x) == IF kind \in DOMAIN Get(x, "hosts") THEN Get(x, "hosts")[kind] ELSE {}
<1>1. ends(c) = ends(d) OBVIOUS
<1>2. EgressOf(c)[kind] = EgressDefault[kind] \cup (IF kind = "model" THEN ends(c) ELSE {}) \cup hs(c) BY DEF EgressOf
<1>3. EgressOf(d)[kind] = EgressDefault[kind] \cup (IF kind = "model" THEN ends(d) ELSE {}) \cup hs(d) BY DEF EgressOf
<1>4. AnyHost \in hs(d) \/ hs(c) \subseteq hs(d) OBVIOUS
<1> HIDE DEF ends, hs
<1>5. QED BY <1>1, <1>2, <1>3, <1>4

LEMMA FinishNarrows ==
  ASSUME NEW u, Grounded(u), u["network"] = FALSE, NEW q, Layer(q), DOMAIN q \cap UserOnly = {},
         NEW up \in {u, Merge(u, q)}, NEW F, Plain(F)
  PROVE  Narrower(Finish(up, F), Finish(u, F), Get(u, "servers"))
<1>0. PICK cf, own : cf = Finish(up, F) /\ own = Finish(u, F) OBVIOUS
<1>1. Narrowed(u, q, up)
  <2>1. CASE up = u
    <3>1. \A k \in {"maxSteps", "memory"} \cap DOMAIN u : u[k] \in Nat BY DEF Grounded, Layer, Minimised
    <3>2. QED BY <2>1, <3>1 DEF Narrowed
  <2>2. CASE up = Merge(u, q) BY <2>2, MergeNarrows
  <2>3. QED BY <2>1, <2>2
<1>2. Finished(up, F, cf)
  <2>1. Grounded(up) BY <1>1 DEF Narrowed
  <2>2. QED BY <1>0, <2>1, FinishIs
<1>3. Finished(u, F, own) BY <1>0, FinishIs
<1>4. DOMAIN F \subseteq FromFlags BY DEF Plain
<1>5. ASSUME NEW k \in UserOnly \ {"servers"}
      PROVE  /\ k \in DOMAIN cf <=> k \in DOMAIN own
             /\ k \in DOMAIN own => cf[k] = own[k]
  <2>1. k \notin FromFlags \cup {"maxSteps", "redaction", "servers"} /\ k \notin DOMAIN F
    BY <1>4 DEF UserOnly, FromFlags
  <2>2. CASE k \in DOMAIN u
    <3>1. k \in DOMAIN up /\ up[k] = u[k] BY <1>1, <2>2 DEF Narrowed
    <3>2. cf[k] = up[k] /\ own[k] = u[k] BY <1>2, <1>3, <2>1, <2>2, <3>1 DEF Finished
    <3>3. QED BY <1>2, <1>3, <2>2, <3>1, <3>2 DEF Finished
  <2>3. CASE k \notin DOMAIN u /\ k # "pull"
    <3>1. k \notin DOMAIN up BY <1>1, <2>3 DEF Narrowed
    <3>2. k \notin SafeKeys BY <2>3 DEF UserOnly, SafeKeys
    <3>3. QED BY <1>2, <1>3, <2>1, <2>3, <3>1, <3>2 DEF Finished
  <2>4. CASE k \notin DOMAIN u /\ k = "pull"
    <3>1. k \in DOMAIN own /\ k \in DOMAIN cf BY <1>2, <1>3, <2>4 DEF SafeKeys, Finished
    <3>2. own[k] = SafeValue[k] BY <1>3, <2>4 DEF Finished
    <3>3. CASE k \in DOMAIN up
      <4>1. up[k] = SafeValue[k] BY <1>1, <2>4, <3>3 DEF Narrowed
      <4>2. cf[k] = up[k] BY <1>2, <2>1, <3>3 DEF Finished
      <4>3. QED BY <3>1, <3>2, <4>1, <4>2
    <3>4. CASE k \notin DOMAIN up
      <4>1. cf[k] = SafeValue[k] BY <1>2, <2>4, <3>4 DEF Finished
      <4>2. QED BY <3>1, <3>2, <4>1
    <3>5. QED BY <3>3, <3>4
  <2>5. QED BY <2>2, <2>3, <2>4
<1>6. ASSUME NEW s \in DOMAIN Get(cf, "servers")
      PROVE  s \in DOMAIN Get(u, "servers") /\ cf["servers"][s] = Get(u, "servers")[s]
  <2>1. DOMAIN Nothing = {} BY DEF Nothing
  <2>2. "servers" \in DOMAIN cf /\ s \in DOMAIN cf["servers"] BY <1>6, <2>1 DEF Get
  <2>3. "servers" \in DOMAIN up BY <1>2, <1>4, <2>2 DEF FromFlags, SafeKeys, Finished
  <2>4. "servers" \in DOMAIN u /\ up["servers"] = u["servers"] BY <1>1, <2>3 DEF UserOnly, Narrowed
  <2>5. s \in DOMAIN up["servers"] /\ cf["servers"][s] = up["servers"][s] BY <1>2, <2>2, <2>3 DEF Finished
  <2>6. QED BY <2>4, <2>5 DEF Get
<1>7. ASSUME NEW k \in {"maxSteps", "memory"} \cap DOMAIN own PROVE cf[k] <= own[k]
  <2>1. k \in DOMAIN u BY <1>3, <1>4 DEF FromFlags, SafeKeys, Finished
  <2>2. k \in DOMAIN up /\ up[k] <= u[k] /\ up[k] \in Nat /\ u[k] \in Nat
    BY <1>1, <2>1 DEF Grounded, Layer, Minimised, Narrowed
  <2>3. CASE k = "memory"
    <3>1. cf[k] = up[k] /\ own[k] = u[k] BY <1>2, <1>3, <2>1, <2>2, <2>3 DEF FromFlags, Finished
    <3>2. QED BY <2>2, <3>1
  <2>4. CASE k = "maxSteps"
    <3>1. SystemCeiling \in Nat BY DefaultIsComplete
    <3>2. PICK a \in Nat : a = up[k] BY <2>2
    <3>3. PICK b \in Nat : b = u[k] BY <2>2
    <3>4. PICK x, y : x = Min({a, SystemCeiling}) /\ y = Min({b, SystemCeiling}) OBVIOUS
    <3>5. x \in {a, SystemCeiling} /\ x <= a /\ x <= SystemCeiling
      <4>1. \E z \in {a, SystemCeiling} : \A w \in {a, SystemCeiling} : z =< w BY <3>1
      <4>2. x \in {a, SystemCeiling} /\ \A w \in {a, SystemCeiling} : x =< w BY <3>4, <4>1 DEF Min
      <4>3. QED BY <4>2
    <3>6. y \in {b, SystemCeiling} BY <3>1, <3>4 DEF Min
    <3>7. x <= y BY <2>2, <3>1, <3>2, <3>3, <3>5, <3>6
    <3>8. cf[k] = x /\ own[k] = y BY <1>2, <1>3, <2>4, <3>2, <3>3, <3>4 DEF Finished
    <3>9. QED BY <3>7, <3>8
  <2>5. QED BY <2>3, <2>4
<1>8. cf["redaction"] /\ ~cf["content"] /\ ~cf["network"]
  <2>1. "network" \in DOMAIN up BY <1>1 DEF Grounded, Narrowed
  <2>2. cf["network"] = FALSE BY <1>1, <1>2, <2>1 DEF FromFlags, Narrowed, Finished
  <2>3. QED BY <1>2, <2>2 DEF Finished
<1>9. own["secretPaths"] \subseteq cf["secretPaths"]
  <2>1. "secretPaths" \in DOMAIN up /\ "secretPaths" \in DOMAIN u BY <1>1 DEF Grounded, Narrowed
  <2>2. QED BY <1>1, <1>2, <1>3, <2>1 DEF FromFlags, Narrowed, Finished
<1>10. ASSUME Get(own, "hosts") # Nothing, NEW kind \in DOMAIN EgressDefault
       PROVE  AnyHost \in EgressOf(own)[kind] \/ EgressOf(cf)[kind] \subseteq EgressOf(own)[kind]
  <2>1. Get(cf, "providers") = Get(own, "providers") BY <1>5 DEF Get, UserOnly
  <2>2. "hosts" \notin FromFlags \cup {"maxSteps", "redaction", "servers"} \cup SafeKeys \cup DOMAIN F
    BY <1>4 DEF FromFlags, SafeKeys
  <2>3. Get(own, "hosts") = Get(u, "hosts") BY <1>3, <2>2 DEF Get, Finished
  <2>4. Get(cf, "hosts") = Get(up, "hosts") BY <1>2, <2>2 DEF Get, Finished
  <2>5. ASSUME kind \in DOMAIN Get(up, "hosts")
        PROVE  /\ kind \in DOMAIN Get(u, "hosts")
               /\ AnyHost \in Get(u, "hosts")[kind] \/ Get(up, "hosts")[kind] \subseteq Get(u, "hosts")[kind]
    <3>1. CASE up = u BY <2>5, <3>1
    <3>2. CASE up # u
      <4>1. DOMAIN Nothing = {} BY DEF Nothing
      <4>2. "hosts" \in DOMAIN up BY <2>5, <4>1 DEF Get
      <4> DEFINE a == Get(u, "hosts")
      <4> DEFINE b == Get(q, "hosts")
      <4>3. Get(up, "hosts") = IntersectHosts(a, b) BY <1>1, <3>2, <4>2 DEF Get, Narrowed
      <4>4. a # Nothing BY <1>10, <2>3
      <4> HIDE DEF a, b
      <4>5. CASE b = Nothing
        <5>1. IntersectHosts(a, b) = a BY <4>4, <4>5 DEF IntersectHosts
        <5>2. QED BY <2>5, <4>3, <5>1 DEF a
      <4>6. CASE b # Nothing
        <5> DEFINE i == [x \in DOMAIN a \cap DOMAIN b |-> {h \in b[x] : h \in a[x] \/ AnyHost \in a[x]}]
        <5>1. IntersectHosts(a, b) = i BY <4>4, <4>6 DEF IntersectHosts
        <5>2. kind \in DOMAIN a \cap DOMAIN b BY <2>5, <4>3, <5>1
        <5>3. i[kind] = {h \in b[kind] : h \in a[kind] \/ AnyHost \in a[kind]} BY <5>2
        <5> HIDE DEF i
        <5>4. AnyHost \in a[kind] \/ i[kind] \subseteq a[kind] BY <5>3
        <5>5. QED BY <4>3, <5>1, <5>2, <5>4 DEF a
      <4>7. QED BY <4>5, <4>6
    <3>3. QED BY <3>1, <3>2
  <2>6. QED BY <2>1, <2>3, <2>4, <2>5, EgressIs
<1>11. QED BY <1>5, <1>6, <1>7, <1>8, <1>9, <1>10, <1>0 DEF Narrower


-----------------------------------------------------------------------------
(* Configuration: the start of a session.                                      *)

Contents(S) == S \cup {Absent, Malformed}
BootFields == {"at", "chosen", "found", "user", "project", "flags", "warned", "rules", "remotes", "sources", "protected",
               "profile", "egress"}
UserLayer == ReadLayer(Default, "user", boot.user)
Layered == ReadLayer(UserLayer, "project", boot.project)

(* What the files hold, and what has been read of them. *)
Fetched ==
  /\ files \in [user : Contents(UserFiles), primary : Contents(ProjectFiles), legacy : LegacyFiles \cup {Absent}]
  /\ BootFields \subseteq DOMAIN boot
  /\ boot.user \in Contents(UserFiles) /\ boot.project \in Contents(ProjectFiles) \cup LegacyFiles
  /\ boot.at = "project" => boot.found \in {"primary", "legacy"}
  /\ boot.at # "idle" /\ boot.at # "refused" => boot.flags \in Flags

(* The configuration at each place: one of the layers, or what the finished ones give,
   except the model and the profile, which are chosen later. *)
Alike(c, d) == DOMAIN c = DOMAIN d /\ \A k \in DOMAIN d \ {"default", "profile"} : c[k] = d[k]
Built ==
  /\ boot.at = "idle" => config = Default
  /\ boot.at \in {"find", "project"} => config = UserLayer
  /\ boot.at = "flags" => config = Layered
  /\ boot.at \in {"rules", "model", "credentials", "started"} => Alike(config, Finish(Layered, boot.flags))
  /\ boot.at = "started" => boot.egress = EgressOf(config)

LEMMA AlikeKeeps ==
  ASSUME NEW c, NEW d, NEW k, Alike(c, d), k \notin {"default", "profile"}
  PROVE  Get(c, k) = Get(d, k)
BY DEF Alike, Get

LEMMA EgressAlike ==
  ASSUME NEW c, NEW d, Get(c, "hosts") = Get(d, "hosts"), Get(c, "providers") = Get(d, "providers")
  PROVE  EgressOf(c) = EgressOf(d)
<1> HIDE DEF Get
<1> QED BY DEF EgressOf

(* Only the start of a session changes what it keeps and what it has merged. *)
LEMMA BootMoves ==
  ASSUME [ConfigNext]_configVars
  PROVE  \/ LoadUser \/ RefuseWorkspace \/ FindProject \/ LoadProject \/ ApplyFlags \/ LoadRules \/ AssessReadiness
         \/ StartKernel \/ (\E p \in DOMAIN Providers : ResolveCredential(p))
         \/ /\ UNCHANGED <<boot, config>>
            /\ files' = files \/ (\E content \in ProjectFiles \cup {Absent} : files' = [files EXCEPT !.primary = content])
<1>1. ASSUME NEW p \in Paths, NEW force \in BOOLEAN, OpenKey(p, force) PROVE UNCHANGED <<boot, config, files>>
  BY <1>1 DEF OpenKey, Writing
<1>2. WriteKey \/ ChmodKey \/ CheckKey => UNCHANGED <<boot, config, files>>
  BY DEF WriteKey, ChmodKey, CheckKey, Writing, EndSetup
<1>3. ASSUME NEW p \in Paths, KeyfileChanges(p) PROVE UNCHANGED <<boot, config, files>>
  BY <1>3 DEF KeyfileChanges, Edit
<1>4. ASSUME ProjectChanges
      PROVE  UNCHANGED <<boot, config>> /\ \E content \in ProjectFiles \cup {Absent} : files' = [files EXCEPT !.primary = content]
  BY <1>4 DEF ProjectChanges, Edit
<1>5. UNCHANGED configVars => UNCHANGED <<boot, config, files>> BY DEF configVars
<1>6. QED BY <1>1, <1>2, <1>3, <1>4, <1>5 DEF ConfigNext

LEMMA BuiltStep ==
  ASSUME Fetched, Built, [ConfigNext]_configVars
  PROVE  Fetched' /\ Built'
<1>1. CASE LoadUser
  <2>1. PICK flags \in Flags :
          /\ boot' = [boot EXCEPT !.at = "find", !.user = files.user, !.flags = flags,
                                  !.chosen = NamesModel("user", files.user) \/ "default" \in DOMAIN flags,
                                  !.warned = Warnings("user", files.user)]
          /\ config' = ReadLayer(config, "user", files.user)
    BY <1>1 DEF LoadUser, Booting
  <2>2. boot.at = "idle" /\ UNCHANGED files BY <1>1 DEF LoadUser, Booting
  <2>3. /\ DOMAIN boot' = DOMAIN boot /\ boot'.at = "find" /\ boot'.user = files.user /\ boot'.flags = flags
        /\ boot'.project = boot.project
    BY <2>1 DEF Fetched, BootFields
  <2>4. Fetched' BY <2>2, <2>3 DEF Fetched
  <2>5. config' = ReadLayer(Default, "user", boot'.user) BY <2>1, <2>2, <2>3 DEF Built
  <2>6. Built' BY <2>3, <2>5 DEF Built, UserLayer
  <2>7. QED BY <2>4, <2>6
<1>2. CASE RefuseWorkspace
  <2>1. boot' = [boot EXCEPT !.at = "refused"] /\ UNCHANGED <<files, config>> BY <1>2 DEF RefuseWorkspace, Booting
  <2>2. DOMAIN boot' = DOMAIN boot /\ boot'.at = "refused" /\ boot'.user = boot.user /\ boot'.project = boot.project
    BY <2>1 DEF Fetched, BootFields
  <2>3. QED BY <2>1, <2>2 DEF Fetched, Built
<1>3. CASE FindProject
  <2>1. /\ boot.at = "find" /\ UNCHANGED <<files, config>>
        /\ boot' = [boot EXCEPT !.at = "project",
                                !.found = IF files.primary = Absent /\ files.legacy # Absent THEN "legacy" ELSE "primary"]
    BY <1>3 DEF FindProject, Booting
  <2>2. /\ DOMAIN boot' = DOMAIN boot /\ boot'.at = "project" /\ boot'.user = boot.user /\ boot'.project = boot.project
        /\ boot'.flags = boot.flags /\ boot'.found \in {"primary", "legacy"}
    BY <2>1 DEF Fetched, BootFields
  <2>3. Fetched' BY <2>1, <2>2 DEF Fetched
  <2>4. Built' BY <2>1, <2>2 DEF Built, UserLayer
  <2>5. QED BY <2>3, <2>4
<1>4. CASE LoadProject
  <2>1. PICK content : content = files[boot.found] OBVIOUS
  <2>2. /\ boot.at = "project" /\ UNCHANGED files
        /\ boot' = [boot EXCEPT !.at = "flags", !.project = content,
                                !.chosen = @ \/ NamesModel("project", content),
                                !.warned = @ \cup Warnings("project", content)]
        /\ config' = ReadLayer(config, "project", content)
    BY <1>4, <2>1 DEF LoadProject, Booting
  <2>3. content \in Contents(ProjectFiles) \cup LegacyFiles BY <2>1, <2>2 DEF Fetched, Contents
  <2>4. /\ DOMAIN boot' = DOMAIN boot /\ boot'.at = "flags" /\ boot'.user = boot.user /\ boot'.project = content
        /\ boot'.flags = boot.flags
    BY <2>2 DEF Fetched, BootFields
  <2>5. Fetched' BY <2>2, <2>3, <2>4 DEF Fetched
  <2>6. config' = ReadLayer(UserLayer, "project", content) BY <2>2 DEF Built
  <2>7. Built' BY <2>4, <2>6 DEF Built, Layered, UserLayer
  <2>8. QED BY <2>5, <2>7
<1>5. CASE ApplyFlags
  <2>1. boot.at = "flags" /\ UNCHANGED files /\ boot' = [boot EXCEPT !.at = "rules"] /\ config' = Finish(config, boot.flags)
    BY <1>5 DEF ApplyFlags, Booting
  <2>2. /\ DOMAIN boot' = DOMAIN boot /\ boot'.at = "rules" /\ boot'.user = boot.user /\ boot'.project = boot.project
        /\ boot'.flags = boot.flags
    BY <2>1 DEF Fetched, BootFields
  <2>3. Fetched' BY <2>1, <2>2 DEF Fetched
  <2>4. config' = Finish(Layered, boot.flags) BY <2>1 DEF Built
  <2>5. Built' BY <2>2, <2>4 DEF Built, Layered, UserLayer, Alike
  <2>6. QED BY <2>3, <2>5
(* what comes later changes the model and the profile at most *)
<1>6. ASSUME boot.at \in {"rules", "model", "credentials"}, UNCHANGED files,
             DOMAIN boot' = DOMAIN boot, boot'.user = boot.user, boot'.project = boot.project, boot'.flags = boot.flags,
             boot'.at \in {"model", "credentials", "started", "refused"},
             DOMAIN config' = DOMAIN config, \A k \in DOMAIN config \ {"default", "profile"} : config'[k] = config[k],
             boot'.at = "started" => boot'.egress = EgressOf(config)
      PROVE  Fetched' /\ Built'
  <2>1. Fetched' BY <1>6 DEF Fetched
  <2>2. Layered' = Layered BY <1>6 DEF Layered, UserLayer
  <2>3. Alike(config, Finish(Layered, boot.flags)) BY <1>6 DEF Built
  <2>4. PICK now, was : now = config' /\ was = config OBVIOUS
  <2>5. Alike(now, was) BY <1>6, <2>4 DEF Alike
  <2>6. EgressOf(now) = EgressOf(was) BY <2>5, AlikeKeeps, EgressAlike
  <2>7. Alike(now, Finish(Layered, boot.flags)) BY <2>3, <2>4, <2>5 DEF Alike
  <2>8. EgressOf(now) = EgressOf(config') BY <2>4
  <2>9. boot'.at = "started" => boot'.egress = EgressOf(config') BY <1>6, <2>4, <2>6, <2>8
  <2>10. Built' BY <1>6, <2>2, <2>4, <2>7, <2>9 DEF Built
  <2>11. QED BY <2>1, <2>10
<1>7. CASE LoadRules
  <2>1. PICK content : /\ boot.at = "rules" /\ UNCHANGED <<files, config>>
                       /\ boot' = [boot EXCEPT !.at = "model", !.rules = ParsePermissionRules(content),
                                     !.warned = @ \cup (IF content = Malformed THEN {"rules"} ELSE {})]
    BY <1>7 DEF LoadRules, Booting
  <2>2. /\ DOMAIN boot' = DOMAIN boot /\ boot'.at = "model" /\ boot'.user = boot.user /\ boot'.project = boot.project
        /\ boot'.flags = boot.flags
    BY <2>1 DEF Fetched, BootFields
  <2>3. QED BY <1>6, <2>1, <2>2
<1>8. CASE AssessReadiness
  <2>1. boot.at = "model" /\ UNCHANGED files BY <1>8 DEF AssessReadiness, Booting
  <2>2. config' = config \/ config' = [config EXCEPT !.default = CHOOSE a \in UsableAliases : TRUE]
    BY <1>8 DEF AssessReadiness
  <2>3. PICK ready : ready = (\/ config.default = "fake" /\ ~boot.chosen /\ Cardinality(UsableAliases) = 1
                              \/ config.default = "fake" /\ boot.chosen
                              \/ config.default # "fake" /\ config.default \in UsableAliases) OBVIOUS
  <2>4. PICK remotes : boot' = [boot EXCEPT !.at = IF ready THEN "credentials" ELSE "refused",
                                            !.remotes = IF ready THEN LoadRemotes(remotes) ELSE @]
    BY <1>8, <2>3, Zenon DEF AssessReadiness, Booting
  <2>5. /\ DOMAIN boot' = DOMAIN boot /\ boot'.at \in {"credentials", "refused"} /\ boot'.user = boot.user
        /\ boot'.project = boot.project /\ boot'.flags = boot.flags
    BY <2>4 DEF Fetched, BootFields
  <2>6. DOMAIN config' = DOMAIN config /\ \A k \in DOMAIN config \ {"default", "profile"} : config'[k] = config[k]
    BY <2>2
  <2>7. QED BY <1>6, <2>1, <2>5, <2>6
<1>9. CASE StartKernel
  <2>1. PICK usable, profile :
             /\ usable = (Active = None \/ (Active \in DOMAIN boot.sources /\ boot.sources[Active] # None))
             /\ profile = IF config.profile \in Profiles THEN config.profile ELSE Default.profile OBVIOUS
  <2>2. boot.at = "credentials" /\ UNCHANGED files BY <1>9 DEF StartKernel, Booting
  <2>3. boot' = [boot EXCEPT !.at = IF usable THEN "started" ELSE "refused",
                             !.profile = IF usable THEN profile ELSE None,
                             !.egress = IF usable THEN EgressOf(config) ELSE @]
    BY <1>9, <2>1, Zenon DEF StartKernel, Booting
  <2>4. config' = [config EXCEPT !.profile = IF usable THEN profile ELSE @]
    BY <1>9, <2>1, Zenon DEF StartKernel
  <2>5. /\ DOMAIN boot' = DOMAIN boot /\ boot'.at \in {"started", "refused"} /\ boot'.user = boot.user
        /\ boot'.project = boot.project /\ boot'.flags = boot.flags
        /\ boot'.at = "started" => boot'.egress = EgressOf(config)
    BY <2>3 DEF Fetched, BootFields
  <2>6. DOMAIN config' = DOMAIN config /\ \A k \in DOMAIN config \ {"default", "profile"} : config'[k] = config[k]
    BY <2>4
  <2>7. QED BY <1>6, <2>2, <2>5, <2>6
<1>10. ASSUME NEW p \in DOMAIN Providers, ResolveCredential(p) PROVE Fetched' /\ Built'
  <2>1. /\ boot.at = "credentials" /\ UNCHANGED <<files, config>>
        /\ boot' = [boot EXCEPT !.sources = Overlaid([q \in {p} |-> SourceOf(Providers[p])], @),
                                !.protected = @ \cup ({Providers[p].file} \ {None})]
    BY <1>10 DEF ResolveCredential, Booting
  <2>2. /\ DOMAIN boot' = DOMAIN boot /\ boot'.at = "credentials" /\ boot'.user = boot.user
        /\ boot'.project = boot.project /\ boot'.flags = boot.flags
    BY <2>1 DEF Fetched, BootFields
  <2>3. QED BY <1>6, <2>1, <2>2
<1>11. CASE /\ UNCHANGED <<boot, config>>
            /\ files' = files \/ (\E content \in ProjectFiles \cup {Absent} : files' = [files EXCEPT !.primary = content])
  <2>1. files' \in [user : Contents(UserFiles), primary : Contents(ProjectFiles), legacy : LegacyFiles \cup {Absent}]
    BY <1>11 DEF Fetched, Contents
  <2>2. QED BY <1>11, <2>1 DEF Fetched, Built, Layered, UserLayer
<1>12. QED BY <1>1, <1>2, <1>3, <1>4, <1>5, <1>7, <1>8, <1>9, <1>10, <1>11, BootMoves

LEMMA AlwaysBuilt == ConfigInit /\ [][ConfigNext]_configVars => [](Fetched /\ Built)
<1>1. ConfigInit => Fetched /\ Built
  <2> SUFFICES ASSUME ConfigInit PROVE Fetched /\ Built OBVIOUS
  <2>1. files \in [user : Contents(UserFiles), primary : Contents(ProjectFiles), legacy : LegacyFiles \cup {Absent}]
    BY DEF ConfigInit, Contents
  <2>2. BootFields \subseteq DOMAIN boot /\ boot.at = "idle" /\ boot.user = Absent /\ boot.project = Absent
    BY DEF ConfigInit, BootFields
  <2>3. QED BY <2>1, <2>2 DEF ConfigInit, Fetched, Built, Contents
<1>2. Fetched /\ Built /\ [ConfigNext]_configVars => (Fetched /\ Built)' BY BuiltStep
<1>3. QED BY <1>1, <1>2, PTL

(* Configuration: whatever the checkout's file says, and however it changes while it is
   read, a session that starts has the user's own providers, image, pull, approval mode and
   servers, no more steps or memory, redaction on, content logging and network off, all the
   secret paths of the user, and of the hosts the user named, if any, none beside them
   (loadConfig, mergeConfig, applySystemCeiling and egressPolicy). The permission profile,
   the default model, mcp.use, the benchmark range and the hosts of a user who named none
   are not among these: a project may widen them. *)
THEOREM UserOnlyKeysAndLimitsHold == ConfigInit /\ [][ConfigNext]_configVars => []ProjectNarrows
<1>1. Fetched /\ Built => ProjectNarrows
  <2> SUFFICES ASSUME Fetched, Built, boot.at = "started" PROVE ProjectNarrows BY DEF ProjectNarrows, Started
  <2>1. PICK u, F, cf : u = UserLayer /\ F = boot.flags /\ cf = Finish(Layered, F) OBVIOUS
  <2>2. Plain(F) BY <2>1, LayersAreTyped DEF Fetched, Plain, FromFlags
  <2>3. ASSUME NEW c, NEW label, c = Malformed \/ Layer(c) \/ c = Absent
        PROVE  \A d : ReadLayer(d, label, c) = d \/ \E q : /\ Layer(q) /\ ReadLayer(d, label, c) = Merge(d, q)
                                                           /\ label = "project" => DOMAIN q \cap UserOnly = {}
    <3> DEFINE l == IF c = Malformed THEN Nothing ELSE c
    <3> DEFINE q == Restrict(l, DOMAIN l \ Dropped(label, l))
    <3>1. CASE c = Absent BY <3>1 DEF ReadLayer
    <3>2. CASE c # Absent
      <4>1. Layer(l)
        <5>1. Layer(Nothing) BY DEF Layer, Nothing
        <5>2. QED BY <2>3, <3>2, <5>1
      <4>2. \A d : ReadLayer(d, label, c) = Merge(d, q) BY <3>2 DEF ReadLayer
      <4> HIDE DEF l
      <4>3. DOMAIN q = DOMAIN l \ Dropped(label, l) /\ \A k \in DOMAIN q : k \in DOMAIN l /\ q[k] = l[k] BY DEF Restrict
      <4> HIDE DEF q
      <4>4. Layer(q) BY <4>1, <4>3 DEF Layer
      <4>5. label = "project" => DOMAIN q \cap UserOnly = {} BY <4>3 DEF Dropped
      <4>6. QED BY <4>2, <4>4, <4>5
    <3>3. QED BY <3>1, <3>2
  <2>4. Grounded(u) /\ u["network"] = FALSE
    <3>1. Grounded(Default) /\ Default["network"] = FALSE BY DefaultIsComplete DEF Grounded
    <3>2. boot.user = Malformed \/ Layer(boot.user) \/ boot.user = Absent BY LayersAreTyped DEF Fetched, Contents
    <3>3. u = ReadLayer(Default, "user", boot.user) BY <2>1 DEF UserLayer
    <3>4. u = Default \/ \E q : Layer(q) /\ u = Merge(Default, q) BY <2>3, <3>2, <3>3
    <3>5. ASSUME NEW q, Layer(q), u = Merge(Default, q) PROVE Grounded(u) /\ u["network"] = FALSE
      <4>1. Layer(u) /\ DOMAIN Default \subseteq DOMAIN u BY <3>1, <3>5, MergeLayer, MergeIs DEF Grounded
      <4>2. Grounded(u) BY <3>1, <4>1 DEF Grounded
      <4>3. "network" \in SafeKeys /\ SafeValue["network"] = FALSE BY DEF SafeKeys, SafeValue
      <4>4. "network" \in DOMAIN Default /\ "network" \in DOMAIN u BY <3>1, <4>1 DEF Grounded
      <4>5. Default["network"] \in Said(Default, q, "network") BY <4>4, SaidAre
      <4>6. SafeValue["network"] \in Said(Default, q, "network") BY <3>1, <4>3, <4>5, Zenon
      <4>7. Combine(Default, q, "network") = SafeValue["network"] BY <4>3, <4>6, CombineIs
      <4>8. u["network"] = Combine(Default, q, "network") BY <3>5, <4>4, MergeIs
      <4>9. u["network"] = FALSE BY <4>3, <4>7, <4>8, Zenon
      <4>10. QED BY <4>2, <4>9
    <3>6. QED BY <3>1, <3>4, <3>5
  <2>5. \E q : Layer(q) /\ DOMAIN q \cap UserOnly = {} /\ Layered \in {u, Merge(u, q)}
    <3>1. boot.project = Malformed \/ Layer(boot.project) \/ boot.project = Absent
      BY LayersAreTyped DEF Fetched, Contents
    <3>2. Layered = ReadLayer(u, "project", boot.project) BY <2>1 DEF Layered
    <3>3. Layered = u \/ \E q : Layer(q) /\ DOMAIN q \cap UserOnly = {} /\ Layered = Merge(u, q) BY <2>3, <3>1, <3>2
    <3>4. Layer(Nothing) /\ DOMAIN Nothing \cap UserOnly = {} BY DEF Layer, Nothing
    <3>5. QED BY <3>3, <3>4
  <2>6. PICK own : own = Finish(u, F) OBVIOUS
  <2>7. Narrower(cf, own, Get(u, "servers"))
    <3>1. PICK q : Layer(q) /\ DOMAIN q \cap UserOnly = {} /\ Layered \in {u, Merge(u, q)} BY <2>5
    <3>2. PICK up : up = Layered OBVIOUS
    <3>3. Narrower(Finish(up, F), Finish(u, F), Get(u, "servers")) BY <2>2, <2>4, <3>1, <3>2, FinishNarrows
    <3>4. QED BY <2>1, <2>6, <3>2, <3>3
  <2>8. Alike(config, cf) /\ boot.egress = EgressOf(config) BY <2>1 DEF Built
  <2>9. EgressOf(config) = EgressOf(cf)
    <3>1. Get(config, "hosts") = Get(cf, "hosts") /\ Get(config, "providers") = Get(cf, "providers") BY <2>8, AlikeKeeps
    <3>2. QED BY <3>1, EgressAlike
  <2>10. Get(config, "servers") = Get(cf, "servers") BY <2>8, AlikeKeeps
  <2>11. own = Own /\ UserServers = Get(u, "servers") BY <2>1, <2>6 DEF Own, UserServers, UserLayer
  <2>12. DOMAIN config = DOMAIN cf /\ \A k \in DOMAIN cf \ {"default", "profile"} : config[k] = cf[k] BY <2>8 DEF Alike
  <2>13. \A k \in UserOnly \ {"servers"} :
           /\ k \in DOMAIN config <=> k \in DOMAIN own
           /\ k \in DOMAIN own => config[k] = own[k]
    <3>1. \A k \in UserOnly : k \notin {"default", "profile"} BY DEF UserOnly
    <3>2. \A k \in UserOnly \ {"servers"} : (k \in DOMAIN cf <=> k \in DOMAIN own) /\ (k \in DOMAIN own => cf[k] = own[k])
      BY <2>7 DEF Narrower
    <3>3. QED BY <2>12, <3>1, <3>2
  <2>14. \A s \in DOMAIN Get(config, "servers") : s \in DOMAIN UserServers /\ config["servers"][s] = UserServers[s]
    <3>1. \A s \in DOMAIN Get(cf, "servers") : s \in DOMAIN UserServers /\ cf["servers"][s] = UserServers[s]
      BY <2>7, <2>11 DEF Narrower
    <3>2. "servers" \in DOMAIN cf => config["servers"] = cf["servers"] BY <2>12
    <3>3. DOMAIN Nothing = {} BY DEF Nothing
    <3>4. "servers" \notin DOMAIN cf => DOMAIN Get(cf, "servers") = {} BY <3>3 DEF Get
    <3>5. QED BY <2>10, <3>1, <3>2, <3>4
  <2>15. \A k \in {"redaction", "content", "network", "secretPaths", "maxSteps", "memory"} \cap DOMAIN own : k \in DOMAIN cf
    <3>1. PICK q, up : Layer(q) /\ DOMAIN q \cap UserOnly = {} /\ up \in {u, Merge(u, q)} /\ up = Layered BY <2>5
    <3>2. Grounded(up) /\ DOMAIN u \subseteq DOMAIN up
      <4>1. CASE up = u BY <2>4, <4>1
      <4>2. CASE up = Merge(u, q)
        <5>1. Narrowed(u, q, up) BY <2>4, <3>1, <4>2, MergeNarrows
        <5>2. Grounded(up) BY <5>1 DEF Narrowed
        <5>3. DOMAIN up = DOMAIN u \cup DOMAIN q \cup SafeKeys BY <4>2, MergeIs
        <5>4. QED BY <5>2, <5>3
      <4>3. QED BY <3>1, <4>1, <4>2
    <3>3. Finished(up, F, cf) BY <2>1, <2>2, <3>1, <3>2, FinishIs
    <3>4. Finished(u, F, own) BY <2>2, <2>4, <2>6, FinishIs
    <3>5. \A k \in DOMAIN own : k \in DOMAIN cf BY <3>2, <3>3, <3>4 DEF Finished
    <3>6. QED BY <3>5
  <2>16. {"redaction", "content", "network", "secretPaths"} \subseteq DOMAIN own
    <3>1. Finished(u, F, own) BY <2>2, <2>4, <2>6, FinishIs
    <3>2. QED BY <2>4, <3>1 DEF Finished, Grounded
  <2>17. \A k \in {"redaction", "content", "network", "secretPaths", "maxSteps", "memory"} \cap DOMAIN own : config[k] = cf[k]
    BY <2>12, <2>15
  <2>18. \A k \in {"maxSteps", "memory"} \cap DOMAIN own : config[k] <= own[k] BY <2>7, <2>17 DEF Narrower
  <2>19. config["redaction"] /\ ~config["content"] /\ ~config["network"]
    <3>1. cf["redaction"] /\ ~cf["content"] /\ ~cf["network"] BY <2>7 DEF Narrower
    <3>2. config["redaction"] = cf["redaction"] /\ config["content"] = cf["content"] /\ config["network"] = cf["network"]
      BY <2>16, <2>17
    <3>3. QED BY <3>1, <3>2
  <2>20. own["secretPaths"] \subseteq config["secretPaths"]
    <3>1. own["secretPaths"] \subseteq cf["secretPaths"] BY <2>7 DEF Narrower
    <3>2. config["secretPaths"] = cf["secretPaths"] BY <2>16, <2>17
    <3>3. QED BY <3>1, <3>2
  <2>21. Get(own, "hosts") # Nothing =>
           \A kind \in DOMAIN EgressDefault :
             AnyHost \in EgressOf(own)[kind] \/ boot.egress[kind] \subseteq EgressOf(own)[kind]
    <3>1. Get(own, "hosts") # Nothing =>
            \A kind \in DOMAIN EgressDefault :
              AnyHost \in EgressOf(own)[kind] \/ EgressOf(cf)[kind] \subseteq EgressOf(own)[kind]
      BY <2>7 DEF Narrower
    <3>2. boot.egress = EgressOf(cf) BY <2>8, <2>9
    <3>3. QED BY <3>1, <3>2
  <2>22. /\ \A k \in UserOnly \ {"servers"} :
              /\ k \in DOMAIN config <=> k \in DOMAIN Own
              /\ k \in DOMAIN Own => config[k] = Own[k]
         /\ \A k \in {"maxSteps", "memory"} \cap DOMAIN Own : config[k] <= Own[k]
    BY <2>11, <2>13, <2>18
  <2>23. \A s \in DOMAIN Get(config, "servers") : s \in DOMAIN UserServers /\ config.servers[s] = UserServers[s]
    BY <2>14
  <2>24. Own.secretPaths \subseteq config.secretPaths BY <2>11, <2>20
  <2>25. Get(Own, "hosts") # Nothing =>
           \A kind \in DOMAIN EgressDefault :
             AnyHost \in EgressOf(Own)[kind] \/ boot.egress[kind] \subseteq EgressOf(Own)[kind]
    BY <2>11, <2>21, Zenon
  <2>26. config.redaction /\ ~config.content /\ ~config.network BY <2>19
  <2>27. QED BY <2>22, <2>23, <2>24, <2>25, <2>26, Zenon DEF ProjectNarrows
<1>2. QED BY AlwaysBuilt, <1>1, PTL

-----------------------------------------------------------------------------
(* Configuration: credentials.                                                 *)

(* What was resolved of the providers: the source each may have, and its file protected. *)
SourcesOf(providers, p) == IF providers[p].file # None THEN {"file", None} ELSE {"env", None}
ResolvedOf(b, providers) ==
  /\ DOMAIN b.sources \subseteq DOMAIN providers
  /\ \A p \in DOMAIN b.sources : b.sources[p] \in SourcesOf(providers, p)
  /\ {providers[p].file : p \in DOMAIN b.sources} \ {None} \subseteq b.protected

Resolved ==
  /\ BootFields \subseteq DOMAIN boot
  /\ boot.at \in {"idle", "find", "project", "flags", "rules", "model"} => DOMAIN boot.sources = {}
  /\ boot.at \in {"credentials", "started"} => ResolvedOf(boot, Providers)
  /\ boot.at = "started" =>
       /\ DOMAIN Providers \subseteq DOMAIN boot.sources
       /\ Active # None => Active \in DOMAIN boot.sources /\ boot.sources[Active] # None

LEMMA ResolvedStep ==
  ASSUME Resolved, [ConfigNext]_configVars
  PROVE  Resolved'
(* what reads on leaves the credentials alone *)
<1>1. ASSUME boot.at \in {"idle", "find", "project", "flags", "rules", "model"},
             DOMAIN boot' = DOMAIN boot, boot'.sources = boot.sources,
             boot'.at \in {"find", "project", "flags", "rules", "model", "credentials", "refused"}
      PROVE  Resolved'
  <2>1. DOMAIN boot.sources = {} BY <1>1 DEF Resolved
  <2>2. ResolvedOf(boot, Providers)' BY <1>1, <2>1 DEF ResolvedOf
  <2>3. QED BY <1>1, <2>1, <2>2 DEF Resolved
<1>2. CASE LoadUser BY <1>1, <1>2 DEF LoadUser, Booting, Resolved, BootFields
<1>3. CASE RefuseWorkspace BY <1>1, <1>3 DEF RefuseWorkspace, Booting, Resolved, BootFields
<1>4. CASE FindProject BY <1>1, <1>4 DEF FindProject, Booting, Resolved, BootFields
<1>5. CASE LoadProject BY <1>1, <1>5 DEF LoadProject, Booting, Resolved, BootFields
<1>6. CASE ApplyFlags BY <1>1, <1>6 DEF ApplyFlags, Booting, Resolved, BootFields
<1>7. CASE LoadRules BY <1>1, <1>7 DEF LoadRules, Booting, Resolved, BootFields
<1>8. CASE AssessReadiness
  <2>1. boot.at = "model" BY <1>8 DEF AssessReadiness
  <2>2. PICK ready : ready = (\/ config.default = "fake" /\ ~boot.chosen /\ Cardinality(UsableAliases) = 1
                              \/ config.default = "fake" /\ boot.chosen
                              \/ config.default # "fake" /\ config.default \in UsableAliases) OBVIOUS
  <2>3. PICK remotes : boot' = [boot EXCEPT !.at = IF ready THEN "credentials" ELSE "refused",
                                            !.remotes = IF ready THEN LoadRemotes(remotes) ELSE @]
    BY <1>8, <2>2, Zenon DEF AssessReadiness, Booting
  <2>4. boot'.at \in {"credentials", "refused"} /\ DOMAIN boot' = DOMAIN boot /\ boot'.sources = boot.sources
    BY <2>3 DEF Resolved, BootFields
  <2>5. QED BY <1>1, <2>1, <2>4
<1>9. ASSUME NEW p \in DOMAIN Providers, ResolveCredential(p) PROVE Resolved'
  <2>1. PICK source, file : source = SourceOf(Providers[p]) /\ file = Providers[p].file OBVIOUS
  <2>2. source \in SourcesOf(Providers, p) BY <2>1 DEF SourceOf, SourcesOf
  <2>3. /\ boot.at = "credentials" /\ UNCHANGED config
        /\ boot' = [boot EXCEPT !.sources = Overlaid([q \in {p} |-> source], @), !.protected = @ \cup ({file} \ {None})]
    BY <1>9, <2>1 DEF ResolveCredential, Booting
  <2>4. /\ DOMAIN boot' = DOMAIN boot /\ boot'.at = "credentials"
        /\ boot'.sources = Overlaid([q \in {p} |-> source], boot.sources)
        /\ boot'.protected = boot.protected \cup ({file} \ {None})
    BY <2>3 DEF Resolved, BootFields
  <2>5. DOMAIN boot'.sources = DOMAIN boot.sources \cup {p}
        /\ \A q \in DOMAIN boot'.sources : boot'.sources[q] = IF q = p THEN source ELSE boot.sources[q]
    BY <2>4 DEF Overlaid
  <2>6. ResolvedOf(boot, Providers) BY <2>3 DEF Resolved
  <2>7. Providers' = Providers BY <2>3 DEF Providers
  <2>8. PICK ps : ps = Providers OBVIOUS
  <2>9. ResolvedOf(boot', ps)
    <3>1. DOMAIN boot'.sources \subseteq DOMAIN ps BY <2>5, <2>6, <2>8 DEF ResolvedOf
    <3>2. \A q \in DOMAIN boot'.sources : boot'.sources[q] \in SourcesOf(ps, q) BY <2>2, <2>5, <2>6, <2>8 DEF ResolvedOf
    <3>3. {ps[q].file : q \in DOMAIN boot'.sources} \ {None} \subseteq boot'.protected
      BY <2>1, <2>4, <2>5, <2>6, <2>8 DEF ResolvedOf
    <3>4. QED BY <3>1, <3>2, <3>3 DEF ResolvedOf
  <2>10. QED BY <2>4, <2>7, <2>8, <2>9 DEF Resolved
<1>10. CASE StartKernel
  <2>1. PICK usable, profile :
             /\ usable = (Active = None \/ (Active \in DOMAIN boot.sources /\ boot.sources[Active] # None))
             /\ profile = IF config.profile \in Profiles THEN config.profile ELSE Default.profile OBVIOUS
  <2>2. boot.at = "credentials" /\ DOMAIN Providers \subseteq DOMAIN boot.sources BY <1>10 DEF StartKernel
  <2>3. boot' = [boot EXCEPT !.at = IF usable THEN "started" ELSE "refused",
                              !.profile = IF usable THEN profile ELSE None,
                              !.egress = IF usable THEN EgressOf(config) ELSE @]
    BY <1>10, <2>1, Zenon DEF StartKernel, Booting
  <2>4. config' = [config EXCEPT !.profile = IF usable THEN profile ELSE @]
    BY <1>10, <2>1, Zenon DEF StartKernel
  <2>5. /\ DOMAIN boot' = DOMAIN boot /\ boot'.at = (IF usable THEN "started" ELSE "refused")
        /\ boot'.sources = boot.sources /\ boot'.protected = boot.protected
    BY <2>3 DEF Resolved, BootFields
  <2>6. Providers' = Providers /\ Aliases' = Aliases /\ config'.default = config.default
    BY <2>4 DEF Providers, Aliases, Get
  <2>7. Active' = Active BY <2>6 DEF Active
  <2>8. ResolvedOf(boot, Providers) BY <2>2 DEF Resolved
  <2>9. ResolvedOf(boot, Providers)' BY <2>5, <2>6, <2>8 DEF ResolvedOf
  <2>10. PICK used, providers : used = Active /\ providers = Providers OBVIOUS
  <2>11. usable => used = None \/ (used \in DOMAIN boot.sources /\ boot.sources[used] # None) BY <2>1, <2>10
  <2>12. boot'.at = "started" => /\ DOMAIN Providers' \subseteq DOMAIN boot'.sources
                                 /\ Active' # None => Active' \in DOMAIN boot'.sources /\ boot'.sources[Active'] # None
    BY <2>5, <2>6, <2>7, <2>10, <2>11, <2>2
  <2>13. BootFields \subseteq DOMAIN boot' /\ boot'.at \in {"started", "refused"} BY <2>5 DEF Resolved
  <2>14. QED BY <2>9, <2>12, <2>13 DEF Resolved
<1>11. CASE UNCHANGED <<boot, config>> BY <1>11 DEF Resolved, ResolvedOf, Providers, Aliases, Active
<1>12. QED BY <1>2, <1>3, <1>4, <1>5, <1>6, <1>7, <1>8, <1>9, <1>10, <1>11, BootMoves

(* Configuration: a session that starts uses a credential that passed the check, never a
   variable in place of a key file that was refused, and every provider's key file is
   protected, whoever changes the file meanwhile (resolveProviderCredentials). *)
THEOREM CredentialsAreGuarded == ConfigInit /\ [][ConfigNext]_configVars => []CredentialGuarded
<1>1. ConfigInit => Resolved BY DEF ConfigInit, Resolved, BootFields, Nothing
<1>2. Resolved /\ [ConfigNext]_configVars => Resolved' BY ResolvedStep
<1>3. Resolved => CredentialGuarded
  <2> SUFFICES ASSUME Resolved, boot.at = "started" PROVE CredentialGuarded BY DEF CredentialGuarded, Started
  <2>1. ResolvedOf(boot, Providers) BY DEF Resolved
  <2>2. Active # None => boot.sources[Active] = (IF Providers[Active].file # None THEN "file" ELSE "env")
    BY <2>1 DEF Resolved, ResolvedOf, SourcesOf
  <2>3. {Providers[p].file : p \in DOMAIN Providers} \ {None} \subseteq boot.protected
    BY <2>1 DEF Resolved, ResolvedOf
  <2>4. QED BY <2>2, <2>3 DEF CredentialGuarded
<1>4. QED BY <1>1, <1>2, <1>3, PTL
-----------------------------------------------------------------------------
(* Numbers.                                                                    *)

(* A set of naturals that is not empty has a least member, which Min names. *)
LEMMA MinOf ==
  ASSUME NEW T, T \subseteq Nat, T # {}
  PROVE  Min(T) \in T /\ \A y \in T : Min(T) <= y
<1> DEFINE R == OpToRel(<, Nat)
<1>1. IsWellFoundedOn(R, Nat) BY NatLessThanWellFounded
<1>2. R = {ss \in Nat \X Nat : ss[1] < ss[2]} BY DEF OpToRel
<1>3. \E x \in T : \A y \in T : ~(<<y, x>> \in R)
  <2> HIDE DEF R
  <2> QED BY <1>1, WFMin
<1>4. PICK x \in T : \A y \in T : ~(<<y, x>> \in R) BY <1>3
<1>5. ASSUME NEW y \in T PROVE x <= y
  <2>1. x \in Nat /\ y \in Nat OBVIOUS
  <2>2. ~(<<y, x>> \in {ss \in Nat \X Nat : ss[1] < ss[2]}) BY <1>2, <1>4
  <2>3. ~(y < x) BY <2>1, <2>2
  <2>4. QED BY <2>1, <2>3
<1>6. \E z \in T : \A y \in T : z <= y BY <1>5
<1>7. QED BY <1>6 DEF Min

-----------------------------------------------------------------------------
(* Controls: what limits a turn.                                               *)

Limits(asked) == DOMAIN asked \subseteq DOMAIN Ceiling /\ asked \in [DOMAIN asked -> Nat]

(* applyCeiling never goes above the session's budget, nor above what was asked for. *)
LEMMA ClampBounds ==
  ASSUME NEW asked, Limits(asked)
  PROVE  /\ \A f \in DOMAIN Ceiling : Clamp(asked)[f] <= Ceiling[f]
         /\ \A f \in DOMAIN asked : Clamp(asked)[f] <= asked[f]
<1>1. ASSUME NEW f \in DOMAIN asked PROVE Clamp(asked)[f] <= asked[f] /\ Clamp(asked)[f] <= Ceiling[f]
  <2>1. f \in DOMAIN Ceiling /\ asked[f] \in Nat /\ Ceiling[f] \in Nat BY <1>1, ControlsAssumption DEF Limits
  <2> DEFINE T == {asked[f], Ceiling[f]}
  <2>2. Min(T) \in T /\ \A y \in T : Min(T) <= y BY <2>1, MinOf
  <2>3. Clamp(asked)[f] = Min(T) BY <1>1, <2>1 DEF Clamp
  <2> HIDE DEF T
  <2>4. asked[f] \in T /\ Ceiling[f] \in T BY DEF T
  <2>5. QED BY <2>2, <2>3, <2>4
<1>2. ASSUME NEW f \in DOMAIN Ceiling, f \notin DOMAIN asked PROVE Clamp(asked)[f] <= Ceiling[f]
  <2>1. Clamp(asked)[f] = Ceiling[f] /\ Ceiling[f] \in Nat BY <1>2, ControlsAssumption DEF Clamp
  <2>2. QED BY <2>1
<1>3. QED BY <1>1, <1>2

StepLimits(entries) == \A e \in entries : e.steps \in Nat \cup {Unset}

(* budgetOverride is never above what /loop says. *)
LEMMA NarrowestBounds ==
  ASSUME NEW loop \in LoopFlags \cup {Unset}, NEW entries, StepLimits(entries)
  PROVE  /\ Limits(Narrowest(loop, entries))
         /\ loop # Unset => \A f \in DOMAIN loop : /\ f \in DOMAIN Narrowest(loop, entries)
                                                   /\ Narrowest(loop, entries)[f] <= loop[f]
<1> DEFINE limits == {e.steps : e \in {x \in entries : x.steps # Unset}}
<1> DEFINE said == IF loop = Unset THEN <<>> ELSE loop
<1> DEFINE T == limits \cup (IF "steps" \in DOMAIN said THEN {said["steps"]} ELSE {})
<1>1. DOMAIN said \subseteq DOMAIN Ceiling /\ \A f \in DOMAIN said : said[f] \in Nat
  <2>1. CASE loop = Unset
    <3>1. DOMAIN said = {} BY <2>1
    <3>2. QED BY <3>1
  <2>2. CASE loop # Unset
    <3>1. loop \in Overrides /\ said = loop BY <2>2 DEF LoopFlags
    <3>2. QED BY <3>1, ControlsAssumption
  <2>3. QED BY <2>1, <2>2
<1>2. said \in [DOMAIN said -> Nat]
  <2>1. CASE loop = Unset BY <2>1
  <2>2. CASE loop # Unset
    <3>1. loop \in Overrides /\ said = loop BY <2>2 DEF LoopFlags
    <3>2. QED BY <3>1, ControlsAssumption
  <2>3. QED BY <2>1, <2>2
<1>3. limits \subseteq Nat BY DEF StepLimits
<1>4. CASE limits = {}
  <2>1. Narrowest(loop, entries) = said BY <1>4 DEF Narrowest
  <2> HIDE DEF said
  <2>2. Limits(said) BY <1>1, <1>2 DEF Limits
  <2>3. loop # Unset => said = loop BY DEF said
  <2>4. \A f \in DOMAIN said : said[f] <= said[f]
    <3>1. ASSUME NEW f \in DOMAIN said PROVE said[f] <= said[f]
      <4>1. said[f] \in Nat BY <1>1
      <4>2. QED BY <4>1
    <3>2. QED BY <3>1
  <2>5. QED BY <2>1, <2>2, <2>3, <2>4
<1>5. CASE limits # {}
  <2>1. Narrowest(loop, entries) = [f \in DOMAIN said \cup {"steps"} |->
             IF f = "steps" THEN Min(limits \cup (IF f \in DOMAIN said THEN {said[f]} ELSE {}))
             ELSE said[f]]
    BY <1>5 DEF Narrowest
  <2> HIDE DEF limits, said
  <2>2. T \subseteq Nat /\ T # {} BY <1>1, <1>3, <1>5
  <2>3. Min(T) \in T /\ \A y \in T : Min(T) <= y BY <2>2, MinOf
  <2>4. Narrowest(loop, entries) = [f \in DOMAIN said \cup {"steps"} |-> IF f = "steps" THEN Min(T) ELSE said[f]]
    BY <2>1
  <2>5. "steps" \in DOMAIN said => Min(T) <= said["steps"] BY <2>3
  <2>6. Min(T) \in Nat BY <2>2, <2>3
  <2> HIDE DEF T
  <2>7. Limits(Narrowest(loop, entries))
    <3>1. DOMAIN Narrowest(loop, entries) = DOMAIN said \cup {"steps"} BY <2>4
    <3>2. Narrowest(loop, entries) \in [DOMAIN said \cup {"steps"} -> Nat] BY <2>4, <2>6, <1>1
    <3>3. QED BY <3>1, <3>2, <1>1, ControlsAssumption DEF Limits
  <2>8. ASSUME loop # Unset, NEW f \in DOMAIN loop
        PROVE  f \in DOMAIN Narrowest(loop, entries) /\ Narrowest(loop, entries)[f] <= loop[f]
    <3>1. said = loop BY <2>8 DEF said
    <3>2. said[f] \in Nat BY <1>1, <3>1, <2>8
    <3>3. QED BY <2>4, <2>5, <2>8, <3>1, <3>2
  <2>9. QED BY <2>7, <2>8
<1>6. QED BY <1>4, <1>5

-----------------------------------------------------------------------------
(* Controls: the invariant.                                                    *)

InForce == [mode : {"plan", "manual", "accept-edits", "auto"}, model : Models, effort : Efforts \cup {Unset},
            loop : LoopFlags \cup {Unset}]

Entries == {e \in [name : DOMAIN SkillFiles, scope : Scopes, allowed : SUBSET Toolbox, steps : Nat \cup {Unset}] :
              e.allowed \subseteq SkillFiles[e.name].tools}

(* What a session has chosen, activated and staged. *)
Equipped ==
  /\ stage \in {"prompt", "preparing", "sampling", "tools", "ending"}
  /\ chosen \in InForce /\ pendingModel \in Models \cup {Unset}
  /\ goal \in Goals \cup {Unset}
  /\ saved \in [model : Models, goal : Goals \cup {Unset}]
  /\ active \subseteq Entries /\ staged \subseteq Entries
  /\ offered = Permitted(active) /\ overlays = NamesOf(active)
  /\ catalogue \subseteq Toolbox

(* The limits of the turn that runs. *)
Limited ==
  stage # "prompt" =>
    /\ \A f \in DOMAIN Ceiling : ceiling[f] <= Ceiling[f]
    /\ chosen.loop # Unset => \A f \in DOMAIN chosen.loop : ceiling[f] <= chosen.loop[f]

(* What the model can still see is what is in force, or, of the model, staged. *)
Heeded ==
  /\ DOMAIN heard \subseteq Subjects
  /\ "mode" \in DOMAIN heard => heard["mode"] = chosen.mode
  /\ "model" \in DOMAIN heard => heard["model"] = IF pendingModel = Unset THEN chosen.model ELSE pendingModel
  /\ "effort" \in DOMAIN heard => heard["effort"] = chosen.effort
  /\ "loop" \in DOMAIN heard => heard["loop"] = IF chosen.loop = Unset THEN "off" ELSE "on"
  /\ "objective" \in DOMAIN heard => heard["objective"] = IF goal = Unset THEN Unset ELSE goal.objective
  /\ "status" \in DOMAIN heard => heard["status"] = IF goal = Unset THEN Unset ELSE goal.status

(* A set of entries permits tools of the session only, and of each skill's file. *)
LEMMA PermittedNarrows ==
  ASSUME NEW S \in SUBSET Entries
  PROVE  Permitted(S) \subseteq Toolbox /\ \A e \in S : Permitted(S) \subseteq SkillFiles[e.name].tools
BY DEF Permitted, Entries

(* activateSkill adds an entry of its file. *)
LEMMA ActivatedIs ==
  ASSUME NEW name \in DOMAIN SkillFiles, NEW scope \in Scopes, Equipped
  PROVE  Activated(name, scope) \in Entries
<1> DEFINE steps == IF SkillFiles[name].steps = Unset THEN Unset ELSE Min({SkillFiles[name].steps, Ceiling.steps})
<1>1. steps \in Nat \cup {Unset}
  <2>1. CASE SkillFiles[name].steps = Unset BY <2>1
  <2>2. CASE SkillFiles[name].steps # Unset
    <3> DEFINE T == {SkillFiles[name].steps, Ceiling.steps}
    <3>1. T \subseteq Nat /\ T # {} BY <2>2, ControlsAssumption
    <3>2. Min(T) \in T BY <3>1, MinOf
    <3>3. QED BY <2>2, <3>1, <3>2
  <2>3. QED BY <2>1, <2>2
<1> DEFINE e == Activated(name, scope)
<1>2. e = [name |-> name, scope |-> scope, allowed |-> offered \cap SkillFiles[name].tools, steps |-> steps]
  BY DEF Activated
<1> HIDE DEF steps
<1>3. offered \subseteq Toolbox
  <2>1. offered = Permitted(active) BY DEF Equipped
  <2>2. QED BY <2>1 DEF Permitted
<1>4. e \in [name : DOMAIN SkillFiles, scope : Scopes, allowed : SUBSET Toolbox, steps : Nat \cup {Unset}]
  BY <1>1, <1>2, <1>3
<1>5. e.name = name /\ e.allowed \subseteq SkillFiles[name].tools BY <1>2
<1> HIDE DEF e
<1>6. e \in Entries BY <1>4, <1>5 DEF Entries
<1>7. QED BY <1>6 DEF e

(* Activate, of a command or of the Skill tool. *)
LEMMA ActivateKeeps ==
  ASSUME Equipped, NEW name \in DOMAIN SkillFiles, NEW scope \in Scopes, Activate(name, scope)
  PROVE  /\ active' \subseteq Entries /\ staged' \subseteq Entries
         /\ offered' = Permitted(active') /\ overlays' = NamesOf(active')
<1> DEFINE new == IF name \in NamesOf(active \cup staged) THEN {} ELSE {Activated(name, scope)}
<1>1. new \subseteq Entries BY ActivatedIs
<1>2. active \subseteq Entries /\ staged \subseteq Entries /\ offered = Permitted(active) /\ overlays = NamesOf(active)
  BY DEF Equipped
<1>3. CASE stage = "sampling"
  <2>1. staged' = staged \cup new /\ UNCHANGED <<active, offered, overlays>> BY <1>3 DEF Activate
  <2> HIDE DEF new
  <2>2. QED BY <1>1, <1>2, <2>1
<1>4. CASE stage # "sampling"
  <2>1. active' = active \cup staged \cup new /\ staged' = {} /\ offered' = Permitted(active')
        /\ overlays' = NamesOf(active')
    BY <1>4 DEF Activate
  <2> HIDE DEF new
  <2>2. QED BY <1>1, <1>2, <2>1
<1>5. QED BY <1>3, <1>4

LEMMA GoalsAreSet == Unset \notin Goals
BY ControlsAssumption DEF Goals

LEMMA EquippedStep ==
  ASSUME Equipped, [ControlsNext]_controlsVars
  PROVE  Equipped'
<1> USE DEF sessionVars, turnVars, controlsVars
<1>1. Cycled(chosen.mode) \in {"plan", "manual", "accept-edits", "auto"}
  <2>1. chosen.mode \in {"plan", "manual", "accept-edits", "auto"} BY DEF Equipped, InForce
  <2>2. \E i \in DOMAIN ApprovalModes : ApprovalModes[i] = chosen.mode BY <2>1 DEF ApprovalModes
  <2>3. PICK at : at = CHOOSE i \in DOMAIN ApprovalModes : ApprovalModes[i] = chosen.mode OBVIOUS
  <2>4. at \in DOMAIN ApprovalModes BY <2>2, <2>3
  <2>5. at \in 1 .. 4 BY <2>4 DEF ApprovalModes
  <2>6. Cycled(chosen.mode) = ApprovalModes[(at % 4) + 1] BY <2>3 DEF Cycled
  <2>7. (at % 4) + 1 \in 1 .. 4 BY <2>5
  <2>8. QED BY <2>6, <2>7 DEF ApprovalModes
<1>2. CASE ModeCommand BY <1>2 DEF ModeCommand, AtPrompt, Equipped, InForce
<1>3. CASE ShiftTab BY <1>1, <1>3 DEF ShiftTab, AtPrompt, Equipped, InForce
<1>4. CASE ChangeEffort BY <1>4 DEF ChangeEffort, AtPrompt, Equipped, InForce
<1>5. CASE UseModel
  <2>1. PICK alias \in Models : IF stage = "sampling"
            THEN pendingModel' = alias /\ UNCHANGED chosen
            ELSE pendingModel' = Unset /\ chosen' = [chosen EXCEPT !.model = alias] BY <1>5 DEF UseModel
  <2>2. chosen' \in InForce /\ pendingModel' \in Models \cup {Unset} BY <2>1 DEF Equipped, InForce
  <2>3. QED BY <1>5, <2>2 DEF UseModel, Equipped
<1>6. CASE ChangeLoop BY <1>6 DEF ChangeLoop, AtPrompt, Equipped, InForce
<1>7. CASE SetGoal
  <2>1. PICK objective \in Objectives :
          goal' = [objective |-> objective, status |-> "active", criteria |-> IF goal = Unset THEN {} ELSE goal.criteria]
    BY <1>7 DEF SetGoal
  <2>2. (IF goal = Unset THEN {} ELSE goal.criteria) \in SUBSET Criteria BY DEF Equipped, Goals
  <2>3. goal' \in Goals BY <2>1, <2>2 DEF Goals, Statuses
  <2>4. QED BY <1>7, <2>3 DEF SetGoal, Equipped
<1>8. CASE AmendGoal
  <2>1. goal \in Goals BY <1>8 DEF AmendGoal, Equipped
  <2>2. goal' \in Goals BY <1>8, <2>1 DEF AmendGoal, Goals
  <2>3. QED BY <1>8, <2>2 DEF AmendGoal, Equipped
<1>9. CASE ClearGoal BY <1>9 DEF ClearGoal, Equipped
<1>10. CASE UseSkill
  <2>1. PICK name \in DOMAIN SkillFiles, scope \in Scopes : Activate(name, scope) BY <1>10 DEF UseSkill
  <2>2. active' \subseteq Entries /\ staged' \subseteq Entries /\ offered' = Permitted(active') /\ overlays' = NamesOf(active')
    BY <2>1, ActivateKeeps
  <2>3. QED BY <1>10, <2>2 DEF UseSkill, Equipped
<1>11. CASE CompactCommand BY <1>11 DEF CompactCommand, Equipped
<1>12. CASE StartTurn BY <1>12 DEF StartTurn, Equipped
<1>13. CASE PrepareStep
  <2>1. chosen' \in InForce /\ pendingModel' \in Models \cup {Unset} BY <1>13 DEF PrepareStep, Equipped, InForce
  <2>2. active' \subseteq Entries /\ staged' \subseteq Entries BY <1>13 DEF PrepareStep, Equipped
  <2>3. offered' = Permitted(active') /\ overlays' = NamesOf(active')
    <3>1. CASE staged = {} BY <1>13, <3>1 DEF PrepareStep, Equipped
    <3>2. CASE staged # {} BY <1>13, <3>2 DEF PrepareStep
    <3>3. QED BY <3>1, <3>2
  <2>4. catalogue' \subseteq Toolbox
    <3>1. catalogue' = Permitted(active') BY <1>13, <2>3 DEF PrepareStep
    <3>2. QED BY <3>1 DEF Permitted
  <2>5. QED BY <1>13, <2>1, <2>2, <2>3, <2>4 DEF PrepareStep, Equipped
<1>14. CASE Proceed BY <1>14 DEF Proceed, Equipped
<1>15. CASE SkillTool
  <2>1. PICK name \in DOMAIN SkillFiles, scope \in Scopes : Activate(name, scope) BY <1>15 DEF SkillTool
  <2>2. active' \subseteq Entries /\ staged' \subseteq Entries /\ offered' = Permitted(active') /\ overlays' = NamesOf(active')
    BY <2>1, ActivateKeeps
  <2>3. QED BY <1>15, <2>2 DEF SkillTool, Equipped
<1>16. Saved \in [model : Models, goal : Goals \cup {Unset}] BY DEF Saved, Equipped, InForce
<1>17. CASE FinishTurn
  <2>1. offered' = Permitted(active') /\ overlays' = NamesOf(active')
    <3>1. CASE active' = active BY <1>17, <3>1 DEF FinishTurn, Equipped
    <3>2. CASE active' # active BY <1>17, <3>2 DEF FinishTurn
    <3>3. QED BY <3>1, <3>2
  <2>2. active' \subseteq Entries BY <1>17 DEF FinishTurn, Equipped
  <2>3. QED BY <1>16, <1>17, <2>1, <2>2 DEF FinishTurn, Equipped
<1>18. CASE Resume
  <2>1. saved' \in [model : Models, goal : Goals \cup {Unset}] BY <1>16, <1>18 DEF Resume, Equipped
  <2>2. chosen' \in InForce BY <1>18, <2>1, ControlsAssumption DEF Resume, InForce
  <2>3. Toolbox = Permitted({}) /\ {} = NamesOf({}) BY DEF Permitted, NamesOf
  <2>4. QED BY <1>18, <2>1, <2>2, <2>3 DEF Resume, Equipped
<1>19. CASE UNCHANGED controlsVars BY <1>19 DEF Equipped
<1>20. QED
  BY <1>2, <1>3, <1>4, <1>5, <1>6, <1>7, <1>8, <1>9, <1>10, <1>11, <1>12, <1>13, <1>14, <1>15, <1>17, <1>18, <1>19
  DEF ControlsNext

LEMMA LimitedStep ==
  ASSUME Equipped, Limited, [ControlsNext]_controlsVars
  PROVE  Limited'
<1> USE DEF sessionVars, turnVars, controlsVars
<1>1. chosen.loop \in LoopFlags \cup {Unset} BY DEF Equipped, InForce
<1>2. ASSUME NEW entries \in SUBSET Entries, ceiling' = Clamp(Narrowest(chosen.loop, entries)), chosen'.loop = chosen.loop
      PROVE  Limited'
  <2>1. StepLimits(entries) BY DEF StepLimits, Entries
  <2>2. PICK limits : limits = Narrowest(chosen.loop, entries) OBVIOUS
  <2>3. Limits(limits)
        /\ (chosen.loop # Unset => \A f \in DOMAIN chosen.loop : f \in DOMAIN limits /\ limits[f] <= chosen.loop[f])
    BY <1>1, <2>1, <2>2, NarrowestBounds
  <2>4. /\ \A f \in DOMAIN Ceiling : ceiling'[f] <= Ceiling[f]
        /\ \A f \in DOMAIN limits : ceiling'[f] <= limits[f]
    BY <1>2, <2>2, <2>3, ClampBounds
  <2>5. ASSUME chosen.loop # Unset, NEW f \in DOMAIN chosen.loop PROVE ceiling'[f] <= chosen.loop[f]
    <3>1. f \in DOMAIN limits /\ f \in DOMAIN Ceiling BY <2>3, <2>5 DEF Limits
    <3>2. limits[f] \in Nat BY <2>3, <3>1 DEF Limits
    <3>3. chosen.loop[f] \in Nat
      <4>1. chosen.loop \in Overrides BY <1>1, <2>5 DEF LoopFlags
      <4>2. QED BY <4>1, <2>5, ControlsAssumption
    <3>4. Clamp(limits)[f] \in Nat
      <4> DEFINE T == {limits[f], Ceiling[f]}
      <4>1. T \subseteq Nat BY <3>1, <3>2, ControlsAssumption
      <4>2. Min(T) \in T BY <4>1, MinOf
      <4>3. Clamp(limits)[f] = Min(T) BY <3>1 DEF Clamp
      <4>4. QED BY <4>1, <4>2, <4>3
    <3>5. limits[f] <= chosen.loop[f] /\ ceiling'[f] <= limits[f] /\ ceiling'[f] \in Nat
      BY <1>2, <2>2, <2>3, <2>4, <2>5, <3>1, <3>4
    <3>6. QED BY <3>2, <3>3, <3>5
  <2>6. QED BY <1>2, <2>4, <2>5 DEF Limited
<1>3. CASE stage' = "prompt" BY <1>3 DEF Limited
<1>4. CASE ModeCommand \/ ShiftTab \/ ChangeEffort \/ ChangeLoop \/ SetGoal \/ AmendGoal \/ ClearGoal \/ CompactCommand
  <2>1. stage' = "prompt"
    BY <1>4 DEF ModeCommand, ShiftTab, ChangeEffort, ChangeLoop, SetGoal, AmendGoal, ClearGoal, CompactCommand, AtPrompt
  <2>2. QED BY <2>1, <1>3
<1>5. CASE UseModel
  <2>1. chosen'.loop = chosen.loop BY <1>5 DEF UseModel, Equipped, InForce
  <2>2. QED BY <1>5, <2>1 DEF UseModel, Limited
<1>6. CASE UseSkill \/ SkillTool BY <1>6 DEF UseSkill, SkillTool, Limited
<1>7. CASE StartTurn
  <2>1. active \cup staged \in SUBSET Entries BY DEF Equipped
  <2>2. QED BY <1>2, <1>7, <2>1 DEF StartTurn
<1>8. CASE PrepareStep
  <2>1. chosen'.loop = chosen.loop BY <1>8 DEF PrepareStep, Equipped, InForce
  <2>2. CASE staged = {}
    <3>1. stage # "prompt" /\ ceiling' = ceiling BY <1>8, <2>2 DEF PrepareStep
    <3>2. QED BY <2>1, <3>1 DEF Limited
  <2>3. CASE staged # {}
    <3>1. PICK now : now = active' OBVIOUS
    <3>2. now \in SUBSET Entries BY <1>8, <3>1 DEF PrepareStep, Equipped
    <3>3. ceiling' = Clamp(Narrowest(chosen.loop, now)) BY <1>8, <2>3, <3>1 DEF PrepareStep
    <3>4. QED BY <1>2, <2>1, <3>2, <3>3
  <2>4. QED BY <2>2, <2>3
<1>9. CASE Proceed
  <2>1. stage # "prompt" BY <1>9 DEF Proceed
  <2>2. QED BY <1>9, <2>1 DEF Proceed, Limited
<1>10. CASE FinishTurn \/ Resume BY <1>3, <1>10 DEF FinishTurn, Resume
<1>11. CASE UNCHANGED controlsVars BY <1>11 DEF Limited
<1>12. QED BY <1>4, <1>5, <1>6, <1>7, <1>8, <1>9, <1>10, <1>11 DEF ControlsNext

LEMMA HeededStep ==
  ASSUME Equipped, Heeded, [ControlsNext]_controlsVars
  PROVE  Heeded'
<1> USE DEF sessionVars, turnVars, controlsVars, Tell, On, Subjects
<1>1. Unset \notin Models BY ControlsAssumption
<1>2. CASE ModeCommand BY <1>2 DEF ModeCommand, Equipped, InForce, Heeded
<1>3. CASE ShiftTab BY <1>3 DEF ShiftTab, Equipped, InForce, Heeded
<1>4. CASE ChangeEffort BY <1>4 DEF ChangeEffort, Equipped, InForce, Heeded
<1>5. CASE UseModel BY <1>1, <1>5 DEF UseModel, Equipped, InForce, Heeded
<1>6. CASE ChangeLoop
  <2>1. Unset \notin LoopFlags BY ControlsAssumption DEF LoopFlags
  <2>2. QED BY <1>6, <2>1 DEF ChangeLoop, Equipped, InForce, Heeded
<1>7. CASE SetGoal \/ AmendGoal \/ ClearGoal
  <2>1. Unset \notin Goals BY GoalsAreSet
  <2>2. CASE SetGoal
    <3>1. PICK objective \in Objectives :
            goal' = [objective |-> objective, status |-> "active", criteria |-> IF goal = Unset THEN {} ELSE goal.criteria]
      BY <2>2 DEF SetGoal
    <3>2. goal'.objective = objective /\ goal'.status = "active" /\ goal' \in Goals
      <4>1. (IF goal = Unset THEN {} ELSE goal.criteria) \in SUBSET Criteria BY DEF Equipped, Goals
      <4>2. QED BY <3>1, <4>1 DEF Goals, Statuses
    <3>3. Tell([s \in {"objective", "status"} |-> goal'[s]]) BY <2>2 DEF SetGoal
    <3>4. goal'["objective"] = goal'.objective /\ goal'["status"] = goal'.status OBVIOUS
    <3>5. QED BY <2>1, <2>2, <3>2, <3>3, <3>4 DEF SetGoal, Heeded
  <2>3. CASE AmendGoal
    <3>1. goal \in Goals BY <2>3 DEF AmendGoal, Equipped
    <3>2. ASSUME NEW criterion \in Criteria, goal' = [goal EXCEPT !.criteria = @ \cup {criterion}], UNCHANGED heard
          PROVE  Heeded'
      <4>1. goal'.objective = goal.objective /\ goal'.status = goal.status /\ goal' \in Goals
        BY <3>1, <3>2 DEF Goals
      <4>2. QED BY <2>1, <2>3, <3>1, <3>2, <4>1 DEF AmendGoal, Heeded
    <3>3. ASSUME NEW status \in Statuses, goal' = [goal EXCEPT !.status = status], Tell(On("status", status))
          PROVE  Heeded'
      <4>1. goal'.objective = goal.objective /\ goal'.status = status /\ goal' \in Goals
        BY <3>1, <3>3 DEF Goals
      <4>2. QED BY <2>1, <2>3, <3>1, <3>3, <4>1 DEF AmendGoal, Heeded
    <3>4. QED BY <2>3, <3>2, <3>3 DEF AmendGoal
  <2>4. CASE ClearGoal BY <2>4 DEF ClearGoal, Heeded
  <2>5. QED BY <1>7, <2>2, <2>3, <2>4
<1>8. CASE UseSkill \/ SkillTool BY <1>8 DEF UseSkill, SkillTool, Heeded
<1>9. CASE CompactCommand BY <1>9 DEF CompactCommand, Forget, Heeded
<1>10. CASE StartTurn \/ Proceed \/ FinishTurn BY <1>10 DEF StartTurn, Proceed, FinishTurn, Heeded
<1>11. CASE PrepareStep
  <2>1. /\ chosen'.mode = chosen.mode /\ chosen'.effort = chosen.effort /\ chosen'.loop = chosen.loop
        /\ chosen'.model = IF pendingModel = Unset THEN chosen.model ELSE pendingModel
        /\ pendingModel' = Unset /\ UNCHANGED goal
    BY <1>11 DEF PrepareStep, Equipped, InForce
  <2>2. DOMAIN heard' = {} \/ heard' = heard BY <1>11 DEF PrepareStep, Forget
  <2>3. QED BY <2>1, <2>2 DEF Heeded
<1>12. CASE Resume BY <1>12 DEF Resume, Heeded
<1>13. CASE UNCHANGED controlsVars BY <1>13 DEF Heeded
<1>14. QED
  BY <1>2, <1>3, <1>4, <1>5, <1>6, <1>7, <1>8, <1>9, <1>10, <1>11, <1>12, <1>13 DEF ControlsNext

LEMMA AlwaysEquipped == ControlsSpec => [](Equipped /\ Limited /\ Heeded)
<1>1. ControlsInit => Equipped /\ Limited /\ Heeded
  <2> SUFFICES ASSUME ControlsInit PROVE Equipped /\ Limited /\ Heeded OBVIOUS
  <2>1. Toolbox = Permitted({}) /\ {} = NamesOf({}) BY DEF Permitted, NamesOf
  <2>2. chosen \in InForce /\ saved \in [model : Models, goal : Goals \cup {Unset}]
    BY ControlsAssumption DEF ControlsInit, InForce
  <2>3. Equipped BY <2>1, <2>2 DEF ControlsInit, Equipped
  <2>4. Limited BY DEF ControlsInit, Limited
  <2>5. DOMAIN heard = {} BY DEF ControlsInit
  <2>6. Heeded BY <2>5 DEF Heeded
  <2>7. QED BY <2>3, <2>4, <2>6
<1>2. Equipped /\ Limited /\ Heeded /\ [ControlsNext]_controlsVars => (Equipped /\ Limited /\ Heeded)'
  BY EquippedStep, LimitedStep, HeededStep
<1>3. QED BY <1>1, <1>2, PTL DEF ControlsSpec

(* Controls: a skill only narrows, in every turn, whatever was chosen, activated and staged
   before, and in which order (recomputeNarrowing, applyCeiling and budgetOverride). *)
THEOREM SkillsOnlyNarrow == ControlsSpec => []NarrowingHolds
<1>1. Equipped /\ Limited => NarrowingHolds
  <2> SUFFICES ASSUME Equipped, Limited PROVE NarrowingHolds OBVIOUS
  <2>1. active \in SUBSET Entries /\ offered = Permitted(active) /\ overlays = NamesOf(active) BY DEF Equipped
  <2>2. PICK S \in SUBSET Entries : S = active BY <2>1
  <2>3. \A e \in S : Permitted(S) \subseteq SkillFiles[e.name].tools BY <2>2, PermittedNarrows
  <2>4. QED BY <2>1, <2>2, <2>3 DEF Limited, NarrowingHolds
<1>2. QED BY AlwaysEquipped, <1>1, PTL

(* Controls: when a request is made, what the model was told last of mode, model, effort,
   budget and goal, as far as it still sees it, is what is in force. *)
THEOREM TheModelIsToldWhatIsInForce == ControlsSpec => ToldWhatIsInForce
<1>1. Equipped /\ Heeded /\ Heeded' /\ [ControlsNext]_controlsVars
        => [stage = "preparing" /\ stage' = "sampling" => \A s \in DOMAIN heard' : heard'[s] = Value(s)']_controlsVars
  <2> SUFFICES ASSUME Equipped, Heeded', ControlsNext, stage = "preparing", stage' = "sampling",
                      NEW s \in DOMAIN heard'
               PROVE  heard'[s] = Value(s)'
    OBVIOUS
  <2>1. PrepareStep
    BY DEF ControlsNext, ModeCommand, ShiftTab, ChangeEffort, UseModel, ChangeLoop, SetGoal, AmendGoal, ClearGoal,
           UseSkill, CompactCommand, StartTurn, Proceed, SkillTool, FinishTurn, Resume, AtPrompt
  <2>2. pendingModel' = Unset BY <2>1 DEF PrepareStep
  <2>3. s \in Subjects BY DEF Heeded
  <2>4. CASE s \in {"mode", "model", "effort"} BY <2>2, <2>4 DEF Heeded, Value
  <2>5. CASE s = "loop" BY <2>5 DEF Heeded, Value
  <2>6. CASE s \in {"objective", "status"} BY <2>6 DEF Heeded, Value
  <2>7. QED BY <2>3, <2>4, <2>5, <2>6 DEF Subjects
<1>2. QED BY AlwaysEquipped, <1>1, PTL DEF ControlsSpec, ToldWhatIsInForce

-----------------------------------------------------------------------------
(* Hooks: how often a hook is counted.                                         *)

IsASequence(s) == \E S : s \in Seq(S)
Tells(i, t) == Cardinality({j \in DOMAIN t : i \in t[j].by})

(* A sequence that grows at its end counts what is appended, once. *)
LEMMA AppendIs ==
  ASSUME NEW s, IsASequence(s), NEW e
  PROVE  /\ IsASequence(Append(s, e)) /\ Len(s) \in Nat
         /\ DOMAIN s = 1 .. Len(s) /\ DOMAIN Append(s, e) = 1 .. (Len(s) + 1)
         /\ \A j \in 1 .. Len(s) : Append(s, e)[j] = s[j]
         /\ Append(s, e)[Len(s) + 1] = e
<1>1. PICK S : s \in Seq(S) BY DEF IsASequence
<1>2. s \in Seq(S \cup {e}) /\ e \in S \cup {e} BY <1>1
<1>3. Append(s, e) \in Seq(S \cup {e}) BY <1>2
<1>4. QED BY <1>2, <1>3 DEF IsASequence

LEMMA CountsUp ==
  ASSUME NEW n \in Nat, NEW P, P \subseteq 1 .. n
  PROVE  /\ IsFiniteSet(P) /\ Cardinality(P) \in Nat
         /\ Cardinality(P \cup {n + 1}) = Cardinality(P) + 1
<1>1. IsFiniteSet(1 .. n) BY FS_Interval
<1>2. IsFiniteSet(P) BY <1>1, FS_Subset
<1>3. Cardinality(P) \in Nat BY <1>2, FS_CardinalityType
<1>4. n + 1 \notin P OBVIOUS
<1>5. QED BY <1>2, <1>3, <1>4, FS_AddElement

LEMMA TimesAppend ==
  ASSUME NEW s, IsASequence(s), NEW e, NEW i
  PROVE  /\ Times(i, s) \in Nat
         /\ Times(i, Append(s, e)) = Times(i, s) + (IF e = i THEN 1 ELSE 0)
<1> DEFINE P == {j \in DOMAIN s : s[j] = i}
<1> DEFINE Q == {j \in DOMAIN Append(s, e) : Append(s, e)[j] = i}
<1>1. P \subseteq 1 .. Len(s) /\ Len(s) \in Nat BY AppendIs
<1>2. Q = IF e = i THEN P \cup {Len(s) + 1} ELSE P
  <2>1. \A j \in 1 .. (Len(s) + 1) : j \in 1 .. Len(s) \/ j = Len(s) + 1 BY <1>1
  <2>2. \A j : j \in Q <=> (j \in P \/ (j = Len(s) + 1 /\ e = i)) BY <1>1, <2>1, AppendIs
  <2> HIDE DEF P, Q
  <2>3. QED BY <2>2
<1>3. Times(i, s) = Cardinality(P) /\ Times(i, Append(s, e)) = Cardinality(Q) BY DEF Times
<1> HIDE DEF P, Q
<1>4. Cardinality(P) \in Nat /\ Cardinality(P \cup {Len(s) + 1}) = Cardinality(P) + 1 BY <1>1, CountsUp
<1>5. QED BY <1>2, <1>3, <1>4

LEMMA TellsAppend ==
  ASSUME NEW s, IsASequence(s), NEW e, NEW i
  PROVE  /\ Tells(i, s) \in Nat
         /\ Tells(i, Append(s, e)) = Tells(i, s) + (IF i \in e.by THEN 1 ELSE 0)
<1> DEFINE P == {j \in DOMAIN s : i \in s[j].by}
<1> DEFINE Q == {j \in DOMAIN Append(s, e) : i \in Append(s, e)[j].by}
<1>1. P \subseteq 1 .. Len(s) /\ Len(s) \in Nat BY AppendIs
<1>2. Q = IF i \in e.by THEN P \cup {Len(s) + 1} ELSE P
  <2>1. \A j \in 1 .. (Len(s) + 1) : j \in 1 .. Len(s) \/ j = Len(s) + 1 BY <1>1
  <2>2. \A j : j \in Q <=> (j \in P \/ (j = Len(s) + 1 /\ i \in e.by)) BY <1>1, <2>1, AppendIs
  <2> HIDE DEF P, Q
  <2>3. QED BY <2>2
<1>3. Tells(i, s) = Cardinality(P) /\ Tells(i, Append(s, e)) = Cardinality(Q) BY DEF Tells
<1> HIDE DEF P, Q
<1>4. Cardinality(P) \in Nat /\ Cardinality(P \cup {Len(s) + 1}) = Cardinality(P) + 1 BY <1>1, CountsUp
<1>5. QED BY <1>2, <1>3, <1>4

(* The log only grows, and what is written to it counts. *)
LEMMA TimesLonger ==
  ASSUME NEW s, IsASequence(s), NEW t, IsASequence(t), NEW i
  PROVE  /\ IsASequence(s \o t)
         /\ Times(i, s \o t) >= Times(i, s) + (IF \E j \in DOMAIN t : t[j] = i THEN 1 ELSE 0)
         /\ Times(i, s) \in Nat /\ Times(i, s \o t) \in Nat
<1>1. PICK S : s \in Seq(S) BY DEF IsASequence
<1>2. PICK T : t \in Seq(T) BY DEF IsASequence
<1>3. s \in Seq(S \cup T) /\ t \in Seq(S \cup T) BY <1>1, <1>2
<1>4. /\ s \o t \in Seq(S \cup T) /\ Len(s) \in Nat /\ Len(t) \in Nat
      /\ DOMAIN s = 1 .. Len(s) /\ DOMAIN t = 1 .. Len(t) /\ DOMAIN (s \o t) = 1 .. (Len(s) + Len(t))
      /\ \A j \in DOMAIN s : (s \o t)[j] = s[j]
      /\ \A j \in DOMAIN t : (s \o t)[Len(s) + j] = t[j]
  BY <1>3
<1> DEFINE P == {j \in DOMAIN s : s[j] = i}
<1> DEFINE Q == {j \in DOMAIN (s \o t) : (s \o t)[j] = i}
<1>5. P \subseteq Q /\ P \subseteq 1 .. Len(s) /\ Q \subseteq 1 .. (Len(s) + Len(t)) BY <1>4
<1>6. \A j \in DOMAIN t : t[j] = i => Len(s) + j \in Q \ P BY <1>4
<1>7. Times(i, s) = Cardinality(P) /\ Times(i, s \o t) = Cardinality(Q) BY DEF Times
<1> HIDE DEF P, Q
<1>8. IsFiniteSet(P) /\ IsFiniteSet(Q) /\ Cardinality(P) \in Nat /\ Cardinality(Q) \in Nat
  <2>1. Len(s) + Len(t) \in Nat BY <1>4
  <2>2. QED BY <1>4, <1>5, <2>1, CountsUp
<1>9. Cardinality(Q) >= Cardinality(P) BY <1>5, <1>8, FS_Subset
<1>10. ASSUME NEW j \in DOMAIN t, t[j] = i PROVE Cardinality(Q) >= Cardinality(P) + 1
  <2>1. P \cup {Len(s) + j} \subseteq Q /\ Len(s) + j \notin P BY <1>5, <1>6, <1>10
  <2>2. Cardinality(P \cup {Len(s) + j}) = Cardinality(P) + 1 BY <1>8, <2>1, FS_AddElement
  <2>3. Cardinality(P \cup {Len(s) + j}) <= Cardinality(Q) BY <1>8, <2>1, FS_Subset
  <2>4. QED BY <1>8, <2>2, <2>3
<1>11. IsASequence(s \o t) BY <1>4 DEF IsASequence
<1>12. QED BY <1>7, <1>8, <1>9, <1>10, <1>11

-----------------------------------------------------------------------------
(* Hooks: what is told has run and is logged.                                  *)

Pending(i, os) == IF \E j \in DOMAIN os : os[j].ran /\ os[j].hook = i THEN 1 ELSE 0
Busy(i, r) == IF r # 0 /\ r = i THEN 1 ELSE 0

(* A hook that is told of was started for it, and so were one that has run and is not
   told of yet and the one that runs. *)
Audited ==
  /\ IsASequence(told) /\ IsASequence(logged) /\ IsASequence(began) /\ IsASequence(outcomes)
  /\ \A i : Tells(i, told) <= Times(i, logged)
  /\ \A i : Tells(i, told) + Pending(i, outcomes) + Busy(i, running) <= Times(i, began)

LEMMA EmptyIs ==
  /\ IsASequence(<<>>)
  /\ \A i : Times(i, <<>>) = 0 /\ Tells(i, <<>>) = 0 /\ Pending(i, <<>>) = 0
<1>1. <<>> \in Seq({}) /\ DOMAIN <<>> = {} OBVIOUS
<1>2. IsASequence(<<>>) BY <1>1 DEF IsASequence
<1>3. ASSUME NEW i PROVE Times(i, <<>>) = 0 /\ Tells(i, <<>>) = 0 /\ Pending(i, <<>>) = 0
  <2>1. {j \in DOMAIN <<>> : <<>>[j] = i} = {} /\ {j \in DOMAIN <<>> : i \in <<>>[j].by} = {} BY <1>1
  <2>2. QED BY <1>1, <2>1, FS_EmptySet DEF Times, Tells, Pending
<1>4. QED BY <1>2, <1>3

LEMMA AuditedStep ==
  ASSUME Audited, [HooksNext]_hookVars
  PROVE  Audited'
<1> USE DEF Unmoved, KeepRun, StillQuiet, Fire
<1>0. \A i : /\ Tells(i, told) \in Nat /\ Times(i, logged) \in Nat /\ Times(i, began) \in Nat
             /\ Pending(i, outcomes) \in {0, 1} /\ Busy(i, running) \in {0, 1}
  BY TimesAppend, TellsAppend DEF Audited, Pending, Busy
(* what the session does around the hooks tells the model of none *)
<1>1. ASSUME UNCHANGED <<outcomes, running, logged, began>>,
             \/ told' = told
             \/ \E kind : told' = Append(told, Spoken(kind, {}))
      PROVE  Audited'
  <2>1. CASE told' = told BY <1>1, <2>1 DEF Audited
  <2>2. ASSUME NEW kind, told' = Append(told, Spoken(kind, {})) PROVE Audited'
    <3>1. Spoken(kind, {}).by = {} BY DEF Spoken
    <3>2. IsASequence(told') BY <2>2, AppendIs DEF Audited
    <3>3. \A i : Tells(i, told') = Tells(i, told) BY <1>0, <2>2, <3>1, TellsAppend DEF Audited
    <3>4. QED BY <1>1, <3>2, <3>3 DEF Audited
  <2>3. QED BY <1>1, <2>1, <2>2
<1>2. CASE Blocked
  <2>1. PICK e : e.ran = FALSE /\ outcomes' = Append(outcomes, e) /\ UNCHANGED <<running, told, logged, began>>
    BY <1>2 DEF Blocked, Outcome
  <2>2. IsASequence(outcomes') BY <2>1, AppendIs DEF Audited
  <2>3. \A i : Pending(i, outcomes') = Pending(i, outcomes)
    <3>1. /\ Len(outcomes) \in Nat
          /\ DOMAIN outcomes = 1 .. Len(outcomes) /\ DOMAIN outcomes' = 1 .. (Len(outcomes) + 1)
          /\ \A j \in 1 .. Len(outcomes) : outcomes'[j] = outcomes[j]
          /\ outcomes'[Len(outcomes) + 1] = e
      BY <2>1, AppendIs DEF Audited
    <3>2. \A j \in DOMAIN outcomes' : j \in DOMAIN outcomes \/ j = Len(outcomes) + 1 BY <3>1
    <3>3. \A j \in DOMAIN outcomes : j \in DOMAIN outcomes' BY <3>1
    <3>4. \A i : (\E j \in DOMAIN outcomes' : outcomes'[j].ran /\ outcomes'[j].hook = i)
                 <=> (\E j \in DOMAIN outcomes : outcomes[j].ran /\ outcomes[j].hook = i)
      BY <2>1, <3>1, <3>2, <3>3
    <3>5. QED BY <3>4 DEF Pending
  <2>4. QED BY <2>1, <2>2, <2>3 DEF Audited
<1>3. CASE HookStarts
  <2>1. PICK h : /\ running = 0 /\ running' = h /\ began' = Append(began, h)
                 /\ UNCHANGED <<outcomes, told, logged>> BY <1>3 DEF HookStarts
  <2>2. IsASequence(began') BY <2>1, AppendIs DEF Audited
  <2>3. \A i : Times(i, began') = Times(i, began) + (IF h = i THEN 1 ELSE 0) BY <2>1, TimesAppend DEF Audited
  <2>4. \A i : Busy(i, running) = 0 /\ Busy(i, running') <= IF h = i THEN 1 ELSE 0 BY <2>1 DEF Busy
  <2>5. ASSUME NEW i PROVE Tells(i, told') + Pending(i, outcomes') + Busy(i, running') <= Times(i, began')
    <3>1. Busy(i, running') \in {0, 1} BY DEF Busy
    <3>2. Tells(i, told) + Pending(i, outcomes) + Busy(i, running) <= Times(i, began) BY DEF Audited
    <3>3. QED BY <1>0, <2>1, <2>3, <2>4, <3>1, <3>2
  <2>6. QED BY <2>1, <2>2, <2>5 DEF Audited
<1>4. CASE EnforceThrows
  <2>1. outcomes' = <<>> /\ UNCHANGED <<running, told, logged, began>> BY <1>4 DEF EnforceThrows
  <2>2. ASSUME NEW i PROVE Tells(i, told') + Pending(i, outcomes') + Busy(i, running') <= Times(i, began')
    <3>1. Pending(i, outcomes') = 0 BY <2>1, EmptyIs
    <3>2. Tells(i, told) + Pending(i, outcomes) + Busy(i, running) <= Times(i, began) BY DEF Audited
    <3>3. QED BY <1>0, <2>1, <3>1, <3>2
  <2>3. QED BY <2>1, <2>2, EmptyIs DEF Audited
<1>5. CASE HookEnds
  <2>1. PICK e : /\ running # 0 /\ running' = 0 /\ e.hook = running /\ outcomes' = Append(outcomes, e)
                 /\ UNCHANGED <<told, logged, began>> BY <1>5 DEF HookEnds, Outcome
  <2>2. IsASequence(outcomes') BY <2>1, AppendIs DEF Audited
  <2>3. \A i : Pending(i, outcomes') <= Pending(i, outcomes) + Busy(i, running)
    <3>1. /\ Len(outcomes) \in Nat
          /\ DOMAIN outcomes = 1 .. Len(outcomes) /\ DOMAIN outcomes' = 1 .. (Len(outcomes) + 1)
          /\ \A j \in 1 .. Len(outcomes) : outcomes'[j] = outcomes[j]
          /\ outcomes'[Len(outcomes) + 1] = e
      BY <2>1, AppendIs DEF Audited
    <3>2. \A j \in DOMAIN outcomes' : j \in DOMAIN outcomes \/ j = Len(outcomes) + 1 BY <3>1
    <3>3. \A i : (\E j \in DOMAIN outcomes' : outcomes'[j].ran /\ outcomes'[j].hook = i)
                 => (running = i \/ \E j \in DOMAIN outcomes : outcomes[j].ran /\ outcomes[j].hook = i)
      BY <2>1, <3>1, <3>2
    <3>4. QED BY <2>1, <3>3 DEF Pending, Busy
  <2>4. \A i : Busy(i, running') = 0 BY <2>1 DEF Busy
  <2>5. ASSUME NEW i PROVE Tells(i, told') + Pending(i, outcomes') + Busy(i, running') <= Times(i, began')
    <3>1. Pending(i, outcomes') \in {0, 1} BY DEF Pending
    <3>2. Tells(i, told) + Pending(i, outcomes) + Busy(i, running) <= Times(i, began) BY DEF Audited
    <3>3. Pending(i, outcomes') <= Pending(i, outcomes) + Busy(i, running) /\ Busy(i, running') = 0 BY <2>3, <2>4
    <3>4. QED BY <1>0, <2>1, <3>1, <3>2, <3>3
  <2>6. QED BY <2>1, <2>2, <2>5 DEF Audited
<1>6. CASE Report
  <2>1. running = 0 /\ running' = running /\ began' = began /\ outcomes' = <<>> BY <1>6 DEF Report
  <2>2. \E os, who :
          /\ logged' = Logged(os) /\ told' = Injected(who) /\ IsASequence(os)
          /\ who = {} \/ (os = outcomes /\ who = Useful(outcomes))
    <3>1. CASE logged' = Logged(outcomes) /\ \E who \in {{}, Useful(outcomes)} : told' = Injected(who)
      BY <3>1 DEF Audited
    <3>2. ASSUME NEW n \in 0 .. (Len(outcomes) - 1), logged' = Logged(SubSeq(outcomes, 1, n)), told' = told
          PROVE  IsASequence(SubSeq(outcomes, 1, n)) /\ told' = Injected({})
      <4>1. PICK S : outcomes \in Seq(S) BY DEF Audited, IsASequence
      <4>2. SubSeq(outcomes, 1, n) \in Seq(S) BY <3>2, <4>1
      <4>3. QED BY <3>2, <4>2 DEF IsASequence, Injected
    <3>3. QED BY <1>6, <3>1, <3>2 DEF Report
  <2>3. PICK os, who : /\ logged' = Logged(os) /\ told' = Injected(who) /\ IsASequence(os)
                       /\ who = {} \/ (os = outcomes /\ who = Useful(outcomes)) BY <2>2
  <2> DEFINE names == [j \in DOMAIN os |-> os[j].hook]
  <2>4. IsASequence(names) /\ DOMAIN names = DOMAIN os
    <3>1. PICK S : os \in Seq(S) BY <2>3 DEF IsASequence
    <3>2. DOMAIN os = 1 .. Len(os) /\ Len(os) \in Nat BY <3>1
    <3>3. names \in Seq({os[j].hook : j \in DOMAIN os}) BY <3>2
    <3>4. QED BY <3>3 DEF IsASequence
  <2>5. logged' = logged \o names BY <2>3 DEF Logged
  <2>6. \A i : i \in who => \E j \in DOMAIN os : os[j].ran /\ os[j].hook = i BY <2>3 DEF Useful
  <2>7. \A i : i \in who => \E j \in DOMAIN names : names[j] = i BY <2>6
  <2> HIDE DEF names
  <2>8. IsASequence(logged') /\ \A i : Times(i, logged') >= Times(i, logged) + (IF i \in who THEN 1 ELSE 0)
    <3>1. IsASequence(logged \o names) /\ \A i : Times(i, logged \o names) \in Nat /\
            Times(i, logged \o names) >= Times(i, logged) + (IF \E j \in DOMAIN names : names[j] = i THEN 1 ELSE 0)
      BY <2>4, TimesLonger DEF Audited
    <3>2. QED BY <1>0, <2>5, <2>7, <3>1
  <2>9. IsASequence(told') /\ \A i : Tells(i, told') = Tells(i, told) + (IF i \in who THEN 1 ELSE 0)
    <3>1. CASE who = {} BY <1>0, <2>3, <3>1 DEF Injected, Audited
    <3>2. CASE who # {}
      <4>1. told' = Append(told, Spoken("note", who)) BY <2>3, <3>2 DEF Injected
      <4>2. Spoken("note", who).by = who BY DEF Spoken
      <4>3. QED BY <4>1, <4>2, AppendIs, TellsAppend DEF Audited
    <3>3. QED BY <3>1, <3>2
  <2>10. ASSUME NEW i PROVE Tells(i, told') <= Times(i, logged')
    <3>1. Tells(i, told) <= Times(i, logged) BY DEF Audited
    <3>2. Times(i, logged') \in Nat BY <2>8, TimesAppend
    <3>3. QED BY <1>0, <2>8, <2>9, <3>1, <3>2
  <2>11. ASSUME NEW i PROVE Tells(i, told') + Pending(i, outcomes') + Busy(i, running') <= Times(i, began')
    <3>1. Pending(i, outcomes') = 0 BY <2>1, EmptyIs
    <3>2. i \in who => Pending(i, outcomes) = 1 BY <2>3, <2>6 DEF Pending
    <3>3. Tells(i, told) + Pending(i, outcomes) + Busy(i, running) <= Times(i, began) BY DEF Audited
    <3>4. QED BY <1>0, <2>1, <2>9, <3>1, <3>2, <3>3
  <2>12. IsASequence(began') /\ IsASequence(outcomes') BY <2>1, EmptyIs DEF Audited
  <2>13. QED BY <2>8, <2>9, <2>10, <2>11, <2>12 DEF Audited
<1>7. CASE Ready BY <1>1, <1>7 DEF Ready
<1>8. CASE Submit BY <1>1, <1>8 DEF Submit
<1>9. CASE NextStep BY <1>1, <1>9 DEF NextStep
<1>10. CASE Sampled BY <1>1, <1>10 DEF Sampled
<1>11. CASE PreToolUse BY <1>1, <1>11 DEF PreToolUse
<1>12. CASE PermissionRequest BY <1>1, <1>12 DEF PermissionRequest
<1>13. CASE PostToolUse BY <1>1, <1>13 DEF PostToolUse
<1>14. CASE BatchDone BY <1>1, <1>14 DEF BatchDone
<1>15. CASE EndHookedTurn BY <1>1, <1>15 DEF EndHookedTurn
<1>16. CASE CancelTurn BY <1>1, <1>16 DEF CancelTurn
<1>17. CASE EndSession BY <1>1, <1>17 DEF EndSession
<1>18. CASE UNCHANGED hookVars BY <1>1, <1>18 DEF hookVars
<1>19. QED BY <1>2, <1>3, <1>4, <1>5, <1>6, <1>7, <1>8, <1>9, <1>10, <1>11, <1>12, <1>13, <1>14, <1>15,
              <1>16, <1>17, <1>18 DEF HooksNext

(* Hooks: whatever fails between them, the model is never told of what a hook printed more
   often than the log holds that it ran, nor than it was started (runHooks, HookRunner.run). *)
THEOREM WhatIsToldIsLogged == HooksSpec => []ToldIsLogged
<1>1. HooksInit => Audited
  <2> SUFFICES ASSUME HooksInit PROVE Audited OBVIOUS
  <2>1. told = <<>> /\ logged = <<>> /\ began = <<>> /\ outcomes = <<>> /\ running = 0 BY DEF HooksInit
  <2>2. \A i : Busy(i, running) = 0 BY <2>1 DEF Busy
  <2>3. QED BY <2>1, <2>2, EmptyIs DEF Audited
<1>2. Audited /\ [HooksNext]_hookVars => Audited' BY AuditedStep
<1>3. Audited => ToldIsLogged
  <2> SUFFICES ASSUME Audited, NEW i \in DOMAIN hooks
               PROVE  TimesTold(i) <= Times(i, logged) /\ TimesTold(i) <= Times(i, began) BY DEF ToldIsLogged
  <2>1. TimesTold(i) = Tells(i, told) BY DEF TimesTold, Tells
  <2>2. Tells(i, told) \in Nat /\ Times(i, began) \in Nat BY TimesAppend, TellsAppend DEF Audited
  <2>3. Pending(i, outcomes) \in {0, 1} /\ Busy(i, running) \in {0, 1} BY DEF Pending, Busy
  <2>4. Tells(i, told) + Pending(i, outcomes) + Busy(i, running) <= Times(i, began) BY DEF Audited
  <2>5. QED BY <2>1, <2>2, <2>3, <2>4 DEF Audited
<1>4. QED BY <1>1, <1>2, <1>3, PTL DEF HooksSpec

-----------------------------------------------------------------------------
(* Terminal: what the editor's buffer is made of.                              *)

LEMMA MaxOfTwo == ASSUME NEW m \in Int, NEW n \in Int
                  PROVE  Max({m, n}) \in {m, n} /\ Max({m, n}) >= m /\ Max({m, n}) >= n
<1>1. \E x \in {m, n} : \A y \in {m, n} : x >= y OBVIOUS
<1>2. PICK x : x = Max({m, n}) OBVIOUS
<1>3. x \in {m, n} /\ \A y \in {m, n} : x >= y BY <1>1, <1>2 DEF Max
<1>4. QED BY <1>2, <1>3

Buffers == Seq(Nat) \ {<<>>}
At(lines, row, col) == row \in DOMAIN lines /\ col \in Nat /\ col <= lines[row]
Snaps == {s \in [lines : Buffers, row : Nat, col : Nat] : At(s.lines, s.row, s.col)}

(* What is sound of the editor, and stays so. *)
Sound(e) ==
  /\ DOMAIN e = {"lines", "row", "col", "history", "historyAt", "draft", "kill", "done", "menu", "menuAt",
                 "undo", "redo", "search"}
  /\ e.lines \in Buffers /\ At(e.lines, e.row, e.col)
  /\ e.history \in Seq(Buffers) /\ e.historyAt \in Nat /\ e.historyAt <= Len(e.history)
  /\ e.draft \in Buffers \cup {NoDraft} /\ (e.historyAt < Len(e.history) => e.draft # NoDraft)
  /\ e.kill \in Nat
  /\ e.menu \in Seq(Nat) /\ e.menuAt \in Nat /\ (e.menuAt = 0 \/ e.menuAt < Len(e.menu))
  /\ e.undo \in Seq(Snaps) /\ e.redo \in Seq(Snaps)
  /\ e.search \in [open : BOOLEAN, matches : Nat, at : Nat]
  /\ e.search.at = 0 \/ e.search.at < e.search.matches

LEMMA BuffersAre ==
  ASSUME NEW lines \in Buffers
  PROVE  /\ Len(lines) \in Nat \ {0} /\ DOMAIN lines = 1 .. Len(lines) /\ \A i \in 1 .. Len(lines) : lines[i] \in Nat
BY DEF Buffers

LEMMA BoundedIs ==
  ASSUME NEW S, NEW s \in Seq(S)
  PROVE  Bounded(s) \in Seq(S)
<1> DEFINE low == Len(s) - MaxUndo + 1
<1>1. PICK from : from = Max({1, low}) OBVIOUS
<1>2. Len(s) \in Nat /\ low \in Int BY EditorAssumption
<1> HIDE DEF low
<1>3. from \in Int /\ from >= 1
  <2>1. 1 \in Int OBVIOUS
  <2>2. Max({1, low}) \in {1, low} /\ Max({1, low}) >= 1 BY ONLY <1>2, <2>1, MaxOfTwo
  <2>3. QED BY <1>1, <1>2, <2>2
<1>4. SubSeq(s, from, Len(s)) \in Seq(S) BY <1>2, <1>3
<1>5. QED BY <1>1, <1>4 DEF Bounded, low

LEMMA SpliceIs ==
  ASSUME NEW lines \in Buffers, NEW from \in 1 .. Len(lines), NEW to \in from .. Len(lines), NEW new \in Buffers
  PROVE  /\ Splice(lines, from, to, new) \in Buffers
         /\ Len(Splice(lines, from, to, new)) = Len(lines) - (to - from + 1) + Len(new)
         /\ \A k \in 1 .. Len(new) : Splice(lines, from, to, new)[from - 1 + k] = new[k]
<1>1. Len(lines) \in Nat /\ from \in Nat /\ to \in Nat /\ from >= 1 /\ to >= from /\ to <= Len(lines)
  BY BuffersAre
<1>2. new \in Seq(Nat) /\ Len(new) \in Nat \ {0} /\ lines \in Seq(Nat) BY BuffersAre DEF Buffers
<1> DEFINE a == SubSeq(lines, 1, from - 1)
<1> DEFINE z == SubSeq(lines, to + 1, Len(lines))
<1>3. a \in Seq(Nat) /\ Len(a) = from - 1 BY <1>1, <1>2
<1>4. z \in Seq(Nat) /\ Len(z) = Len(lines) - to BY <1>1, <1>2
<1>5. Splice(lines, from, to, new) = (a \o new) \o z BY DEF Splice
<1> HIDE DEF a, z
<1>6. PICK b : b = a \o new OBVIOUS
<1>7. /\ b \in Seq(Nat) /\ Len(b) = from - 1 + Len(new)
      /\ \A k \in 1 .. Len(new) : b[from - 1 + k] = new[k]
  <2>1. /\ b \in Seq(Nat) /\ Len(b) = Len(a) + Len(new)
        /\ \A i \in 1 .. Len(a) + Len(new) : b[i] = IF i <= Len(a) THEN a[i] ELSE new[i - Len(a)]
    BY <1>2, <1>3, <1>6, ConcatProperties
  <2>2. ASSUME NEW k \in 1 .. Len(new) PROVE b[from - 1 + k] = new[k]
    <3>1. PICK i : i = from - 1 + k OBVIOUS
    <3>2. i \in 1 .. Len(a) + Len(new) /\ ~(i <= Len(a)) /\ i - Len(a) = k
      BY <1>1, <1>2, <1>3, <3>1
    <3>3. b[i] = IF i <= Len(a) THEN a[i] ELSE new[i - Len(a)] BY ONLY <2>1, <3>2
    <3>4. b[i] = new[k] BY ONLY <3>2, <3>3
    <3>5. QED BY ONLY <3>1, <3>4
  <2>3. QED BY <1>3, <2>1, <2>2
<1>8. PICK c : c = b \o z OBVIOUS
<1>9. /\ c \in Seq(Nat) /\ Len(c) = Len(b) + Len(z)
      /\ \A i \in 1 .. Len(b) + Len(z) : c[i] = IF i <= Len(b) THEN b[i] ELSE z[i - Len(b)]
  <2>1. b \in Seq(Nat) /\ z \in Seq(Nat) BY <1>4, <1>7
  <2>2. QED BY ONLY <1>8, <2>1, ConcatProperties
<1>10. Splice(lines, from, to, new) = c BY <1>5, <1>6, <1>8
<1>11. Len(c) = Len(lines) - (to - from + 1) + Len(new) BY <1>1, <1>2, <1>4, <1>7, <1>9
<1>12. ASSUME NEW k \in 1 .. Len(new) PROVE c[from - 1 + k] = new[k]
  <2>1. PICK i : i = from - 1 + k OBVIOUS
  <2>2. Len(b) = from - 1 + Len(new) /\ Len(z) \in Nat /\ Len(new) \in Nat /\ k \in 1 .. Len(new)
    BY <1>2, <1>4, <1>7
  <2>3. i \in 1 .. Len(b) + Len(z) /\ i <= Len(b) BY ONLY <1>1, <2>1, <2>2
  <2>4. c[i] = b[i] BY ONLY <1>9, <2>3
  <2>5. b[i] = new[k] BY ONLY <1>7, <2>1, <2>2
  <2>6. QED BY ONLY <2>1, <2>4, <2>5
<1>13. Len(c) > 0 BY <1>1, <1>2, <1>11
<1>14. c \in Buffers BY <1>9, <1>13 DEF Buffers
<1>15. QED BY <1>10, <1>11, <1>12, <1>14

(* One line of the buffer has another length. *)
LEMMA LineIs ==
  ASSUME NEW lines \in Buffers, NEW row \in DOMAIN lines, NEW n \in Nat
  PROVE  /\ [lines EXCEPT ![row] = n] \in Buffers /\ row \in DOMAIN [lines EXCEPT ![row] = n]
         /\ [lines EXCEPT ![row] = n][row] = n
<1>1. PICK l : l = [lines EXCEPT ![row] = n] OBVIOUS
<1>2. lines \in Seq(Nat) /\ lines # <<>> BY DEF Buffers
<1>3. DOMAIN l = DOMAIN lines /\ l[row] = n BY <1>1
<1>4. l \in Seq(Nat) BY <1>1, <1>2
<1>5. l # <<>> BY <1>2, <1>3, <1>4
<1>6. QED BY <1>1, <1>3, <1>4, <1>5 DEF Buffers

-----------------------------------------------------------------------------
(* Terminal: what the keys do to the editor.                                   *)

(* Where the buffer and the cursor are put. *)
Placed(e, x) ==
  /\ DOMAIN x = DOMAIN e /\ x.lines \in Buffers /\ At(x.lines, x.row, x.col) /\ x.kill \in Nat
  /\ x.history = e.history /\ x.historyAt = e.historyAt /\ x.draft = e.draft /\ x.search = e.search
  /\ x.menu = e.menu /\ x.menuAt = e.menuAt

LEMMA PlacedSound ==
  ASSUME NEW e, Sound(e), NEW x, Placed(e, x), x.undo = e.undo, x.redo = e.redo
  PROVE  Sound(x)
BY DEF Sound, Placed

LEMMA ClosedSound ==
  ASSUME NEW e, Sound(e)
  PROVE  Sound(MenuClosed(e))
<1>1. PICK x : x = MenuClosed(e) OBVIOUS
<1>2. x = [e EXCEPT !.menu = <<>>, !.menuAt = 0] BY <1>1 DEF MenuClosed
<1>3. QED BY <1>1, <1>2 DEF Sound

LEMMA SnapshotIs == ASSUME NEW e, Sound(e) PROVE Snapshot(e) \in Snaps
<1>1. e.row \in Nat BY BuffersAre DEF Sound, At
<1>2. QED BY <1>1 DEF Sound, Snapshot, Snaps, At

LEMMA RememberSound ==
  ASSUME NEW e, Sound(e), NEW x, Sound(x)
  PROVE  Sound(Remember(e, x))
<1>1. PICK u : u = Bounded(Append(e.undo, Snapshot(e))) OBVIOUS
<1>2. u \in Seq(Snaps)
  <2>1. e.undo \in Seq(Snaps) /\ Snapshot(e) \in Snaps BY SnapshotIs DEF Sound
  <2>2. Append(e.undo, Snapshot(e)) \in Seq(Snaps) BY ONLY <2>1, AppendProperties
  <2>3. QED BY <1>1, <2>2, BoundedIs
<1>3. PICK y : y = Remember(e, x) OBVIOUS
<1>4. y = [x EXCEPT !.undo = u, !.redo = <<>>] BY <1>1, <1>3 DEF Remember
<1>5. QED BY <1>2, <1>3, <1>4 DEF Sound

LEMMA CursorIs ==
  ASSUME NEW e, Sound(e)
  PROVE  /\ e.lines \in Buffers /\ Len(e.lines) \in Nat \ {0} /\ DOMAIN e.lines = 1 .. Len(e.lines)
         /\ e.row \in 1 .. Len(e.lines) /\ e.row \in Nat
         /\ e.col \in Nat /\ Current(e) \in Nat /\ e.lines[e.row] = Current(e) /\ e.col <= Current(e)
         /\ Current(e) - e.col \in Nat
         /\ \A i \in 1 .. Len(e.lines) : e.lines[i] \in Nat
<1>1. e.lines \in Buffers BY DEF Sound
<1>2. /\ Len(e.lines) \in Nat \ {0} /\ DOMAIN e.lines = 1 .. Len(e.lines)
      /\ \A i \in 1 .. Len(e.lines) : e.lines[i] \in Nat
  BY <1>1, BuffersAre
<1>3. e.row \in DOMAIN e.lines /\ e.col \in Nat /\ e.col <= e.lines[e.row] BY DEF Sound, At
<1>4. e.row \in 1 .. Len(e.lines) /\ e.row \in Nat /\ e.lines[e.row] \in Nat BY <1>2, <1>3
<1>5. Current(e) = e.lines[e.row] BY DEF Current
<1>6. Current(e) - e.col \in Nat BY <1>3, <1>4, <1>5
<1>7. QED BY <1>1, <1>2, <1>3, <1>4, <1>5, <1>6

(* A part of the buffer is replaced and the cursor put in the new one. *)
LEMMA SplicedSound ==
  ASSUME NEW e, Sound(e), NEW y, DOMAIN y = DOMAIN e, NEW from \in 1 .. Len(e.lines),
         NEW to \in from .. Len(e.lines), NEW new \in Buffers,
         y.lines = Splice(e.lines, from, to, new),
         NEW k \in 1 .. Len(new), y.row = from - 1 + k, y.col \in Nat, y.col <= new[k], y.kill \in Nat,
         \A f \in DOMAIN e \ {"lines", "row", "col", "kill"} : y[f] = e[f]
  PROVE  Placed(e, y) /\ y.undo = e.undo /\ y.redo = e.redo
<1>1. e.lines \in Buffers /\ Len(e.lines) \in Nat BY CursorIs
<1>2. /\ y.lines \in Buffers /\ Len(y.lines) = Len(e.lines) - (to - from + 1) + Len(new)
      /\ \A i \in 1 .. Len(new) : y.lines[from - 1 + i] = new[i]
  <2>1. PICK m : m = Splice(e.lines, from, to, new) OBVIOUS
  <2>2. /\ m \in Buffers /\ Len(m) = Len(e.lines) - (to - from + 1) + Len(new)
        /\ \A i \in 1 .. Len(new) : m[from - 1 + i] = new[i]
    BY ONLY <1>1, <2>1, from \in 1 .. Len(e.lines), to \in from .. Len(e.lines), new \in Buffers, SpliceIs
  <2>3. QED BY <2>1, <2>2
<1>3. Len(new) \in Nat BY BuffersAre
<1>4. y.row \in 1 .. Len(y.lines) BY <1>1, <1>2, <1>3
<1>5. At(y.lines, y.row, y.col) BY <1>2, <1>4, BuffersAre DEF At
<1>6. QED BY <1>2, <1>5 DEF Placed, Sound

LEMMA InsertSound ==
  ASSUME NEW e, Sound(e), NEW parts \in Pastes
  PROVE  \A x \in Insert(e, parts) : Sound(x)
<1> DEFINE tail == Current(e) - e.col
<1> DEFINE n == Len(parts)
<1> DEFINE joined == [i \in 1 .. n |-> parts[i] + (IF i = 1 THEN e.col ELSE 0) + (IF i = n THEN tail ELSE 0)]
<1>1. parts \in Buffers BY EditorAssumption DEF Buffers
<1>2. n \in Nat \ {0} /\ \A i \in 1 .. n : parts[i] \in Nat BY <1>1, BuffersAre
<1>3. tail \in Nat /\ e.col \in Nat BY CursorIs
<1> HIDE DEF tail
<1>4. joined \in Buffers /\ Len(joined) = n /\ joined[n] = parts[n] + (IF n = 1 THEN e.col ELSE 0) + tail
  <2>1. \A i \in 1 .. n : joined[i] \in Nat BY <1>2, <1>3
  <2>2. joined \in [1 .. n -> Nat] BY <2>1
  <2>3. joined \in Seq(Nat) /\ Len(joined) = n BY <1>2, <2>2
  <2>4. n \in 1 .. n /\ joined[n] = parts[n] + (IF n = 1 THEN e.col ELSE 0) + tail BY <1>2
  <2>5. joined # <<>> BY <1>2, <2>3
  <2>6. QED BY <2>3, <2>4, <2>5 DEF Buffers
<1> HIDE DEF n, joined
<1>5. PICK y : y = [e EXCEPT !.lines = Splice(@, e.row, e.row, joined), !.row = @ + n - 1,
                             !.col = (IF n = 1 THEN @ ELSE 0) + parts[n]] OBVIOUS
<1>6. Insert(e, parts) = {Remember(e, MenuClosed(y))} BY <1>5 DEF Insert, n, tail, joined
<1>7. Placed(e, y) /\ y.undo = e.undo /\ y.redo = e.redo
  <2>1. DOMAIN y = DOMAIN e /\ y.lines = Splice(e.lines, e.row, e.row, joined) /\ y.row = e.row + n - 1
        /\ y.col = (IF n = 1 THEN e.col ELSE 0) + parts[n]
        /\ \A k \in DOMAIN e \ {"lines", "row", "col"} : y[k] = e[k]
    BY <1>5 DEF Sound
  <2>2. e.row \in 1 .. Len(e.lines) /\ e.row \in e.row .. Len(e.lines) BY CursorIs
  <2>3. n \in 1 .. Len(joined) /\ y.row = e.row - 1 + n BY <1>2, <1>4, <2>1, <2>2
  <2>4. parts[n] \in Nat BY <1>2
  <2>5. y.col \in Nat /\ y.col <= joined[n] BY <1>3, <1>4, <2>1, <2>4
  <2>6. y.kill \in Nat BY <2>1 DEF Sound
  <2>7. QED BY <1>4, <2>1, <2>2, <2>3, <2>5, <2>6, SplicedSound
<1>8. QED BY <1>6, <1>7, PlacedSound, ClosedSound, RememberSound

LEMMA NewlineSound ==
  ASSUME NEW e, Sound(e)
  PROVE  \A x \in Newline(e) : Sound(x)
<1>1. PICK new : new = <<e.col, Current(e) - e.col>> OBVIOUS
<1>2. PICK y : y = [e EXCEPT !.lines = Splice(@, e.row, e.row, new), !.row = @ + 1, !.col = 0] OBVIOUS
<1>3. Newline(e) = {y} BY <1>1, <1>2 DEF Newline
<1>4. new \in Buffers /\ Len(new) = 2 /\ new[2] \in Nat BY <1>1, CursorIs DEF Buffers
<1>5. DOMAIN y = DOMAIN e /\ y.lines = Splice(e.lines, e.row, e.row, new) /\ y.row = e.row + 1 /\ y.col = 0
      /\ \A k \in DOMAIN e \ {"lines", "row", "col"} : y[k] = e[k]
  BY <1>2 DEF Sound
<1>6. e.row \in 1 .. Len(e.lines) /\ e.row \in e.row .. Len(e.lines) /\ e.row + 1 = e.row - 1 + 2 BY CursorIs
<1>7. y.kill \in Nat BY <1>5 DEF Sound
<1>8. PICK k : k = 2 OBVIOUS
<1>9. k \in 1 .. Len(new) /\ y.col \in Nat /\ y.col <= new[k] BY <1>4, <1>5, <1>8
<1>10. y.row = e.row - 1 + k BY <1>5, <1>6, <1>8
<1>11. \A f \in DOMAIN e \ {"lines", "row", "col", "kill"} : y[f] = e[f] BY <1>5
<1>12. Placed(e, y) /\ y.undo = e.undo /\ y.redo = e.redo
  BY <1>4, <1>5, <1>6, <1>7, <1>9, <1>10, <1>11, SplicedSound, ZenonT(40)
<1>13. QED BY <1>3, <1>12, PlacedSound

(* The cursor's line has another length. *)
LEMMA LineSound ==
  ASSUME NEW e, Sound(e), NEW y, DOMAIN y = DOMAIN e, NEW n \in Nat,
         y.lines = [e.lines EXCEPT ![e.row] = n], y.row = e.row, y.col \in Nat, y.col <= n, y.kill \in Nat,
         \A f \in DOMAIN e \ {"lines", "row", "col", "kill"} : y[f] = e[f]
  PROVE  Placed(e, y) /\ y.undo = e.undo /\ y.redo = e.redo
<1>1. e.lines \in Buffers /\ e.row \in DOMAIN e.lines BY CursorIs
<1>2. y.lines \in Buffers /\ e.row \in DOMAIN y.lines /\ y.lines[e.row] = n BY <1>1, LineIs
<1>3. At(y.lines, y.row, y.col) BY <1>2 DEF At
<1>4. QED BY <1>2, <1>3 DEF Placed, Sound

LEMMA MovedSound ==
  ASSUME NEW e, Sound(e), NEW row \in 1 .. Len(e.lines), NEW col \in 0 .. e.lines[row]
  PROVE  Sound([e EXCEPT !.row = row, !.col = col])
<1>1. PICK y : y = [e EXCEPT !.row = row, !.col = col] OBVIOUS
<1>2. DOMAIN y = DOMAIN e /\ y.row = row /\ y.col = col /\ \A f \in DOMAIN e \ {"row", "col"} : y[f] = e[f]
  BY <1>1 DEF Sound
<1>3. e.lines \in Buffers /\ row \in DOMAIN e.lines /\ e.lines[row] \in Nat BY CursorIs
<1>4. col \in Nat /\ col <= e.lines[row] BY <1>3
<1>5. At(e.lines, row, col) BY <1>3, <1>4 DEF At
<1>6. Placed(e, y) /\ y.undo = e.undo /\ y.redo = e.redo BY <1>2, <1>3, <1>5 DEF Placed, Sound
<1>7. QED BY <1>1, <1>6, PlacedSound

LEMMA BackspaceSound ==
  ASSUME NEW e, Sound(e)
  PROVE  \A x \in Backspace(e) : Sound(x)
<1>1. CASE e.col > 0
  <2>1. PICK y : y = [e EXCEPT !.lines[e.row] = @ - 1, !.col = @ - 1] OBVIOUS
  <2>2. PICK n : n = Current(e) - 1 OBVIOUS
  <2>3. n \in Nat /\ e.col - 1 \in Nat /\ e.col - 1 <= n BY <1>1, <2>2, CursorIs
  <2>4. DOMAIN y = DOMAIN e /\ y.lines = [e.lines EXCEPT ![e.row] = n] /\ y.col = e.col - 1
        /\ \A f \in DOMAIN e \ {"lines", "col"} : y[f] = e[f]
    BY <2>1, <2>2 DEF Sound, Current
  <2>5. y.row = e.row /\ y.kill = e.kill /\ e.kill \in Nat BY <2>4 DEF Sound
  <2>6. Placed(e, y) /\ y.undo = e.undo /\ y.redo = e.redo BY <2>3, <2>4, <2>5, LineSound
  <2>7. Backspace(e) = {Remember(e, MenuClosed(y))} BY <1>1, <2>1 DEF Backspace
  <2>8. QED BY <2>6, <2>7, PlacedSound, ClosedSound, RememberSound
<1>2. CASE ~(e.col > 0) /\ e.row = 1
  <2>1. Backspace(e) = {e} BY <1>2 DEF Backspace
  <2>2. QED BY <2>1
<1>3. CASE ~(e.col > 0) /\ e.row # 1
  <2>1. PICK before : before = e.lines[e.row - 1] OBVIOUS
  <2>2. PICK new : new = <<before + Current(e)>> OBVIOUS
  <2>3. PICK y : y = [e EXCEPT !.lines = Splice(@, e.row - 1, e.row, new), !.row = @ - 1, !.col = before]
    OBVIOUS
  <2>4. e.row \in (e.row - 1) .. Len(e.lines) /\ e.row - 1 \in 1 .. Len(e.lines) BY <1>3, CursorIs
  <2>5. before \in Nat BY <2>1, <2>4, CursorIs
  <2>6. before + Current(e) \in Nat /\ before <= before + Current(e) BY <2>5, CursorIs
  <2>7. new \in Buffers /\ Len(new) = 1 /\ new[1] = before + Current(e) BY <2>2, <2>6 DEF Buffers
  <2>8. DOMAIN y = DOMAIN e /\ y.lines = Splice(e.lines, e.row - 1, e.row, new) /\ y.row = e.row - 1
        /\ y.col = before /\ \A f \in DOMAIN e \ {"lines", "row", "col"} : y[f] = e[f]
    BY <2>3 DEF Sound
  <2>9. y.kill = e.kill /\ e.kill \in Nat BY <2>8 DEF Sound
  <2>10. PICK from : from = e.row - 1 OBVIOUS
  <2>11. 1 \in 1 .. Len(new) /\ from - 1 + 1 = from BY <2>4, <2>7, <2>10
  <2>12. from \in 1 .. Len(e.lines) /\ e.row \in from .. Len(e.lines) /\ y.row = from - 1 + 1
        /\ y.lines = Splice(e.lines, from, e.row, new)
    BY <2>4, <2>8, <2>10, <2>11
  <2>13. y.col \in Nat /\ y.col <= new[1] BY <2>5, <2>6, <2>7, <2>8
  <2>14. \A f \in DOMAIN e \ {"lines", "row", "col", "kill"} : y[f] = e[f] BY <2>8
  <2>15. DOMAIN y = DOMAIN e BY <2>8
  <2>16. Placed(e, y) /\ y.undo = e.undo /\ y.redo = e.redo
    BY <2>7, <2>9, <2>11, <2>12, <2>13, <2>14, <2>15, SplicedSound
  <2>17. Backspace(e) = {Remember(e, y)} BY <1>3, <2>1, <2>2, <2>3 DEF Backspace
  <2>18. QED BY <2>16, <2>17, PlacedSound, RememberSound
<1>4. QED BY <1>1, <1>2, <1>3

LEMMA DeleteForwardSound ==
  ASSUME NEW e, Sound(e)
  PROVE  \A x \in DeleteForward(e) : Sound(x)
<1>1. CASE e.col < Current(e)
  <2>1. PICK y : y = [e EXCEPT !.lines[e.row] = @ - 1] OBVIOUS
  <2>2. PICK n : n = Current(e) - 1 OBVIOUS
  <2>3. n \in Nat /\ e.col \in Nat /\ e.col <= n BY <1>1, <2>2, CursorIs
  <2>4. DOMAIN y = DOMAIN e /\ y.lines = [e.lines EXCEPT ![e.row] = n]
        /\ \A f \in DOMAIN e \ {"lines"} : y[f] = e[f]
    BY <2>1, <2>2 DEF Sound, Current
  <2>5. y.row = e.row /\ y.col = e.col /\ y.kill = e.kill /\ e.kill \in Nat BY <2>4 DEF Sound
  <2>6. Placed(e, y) /\ y.undo = e.undo /\ y.redo = e.redo BY <2>3, <2>4, <2>5, LineSound
  <2>7. DeleteForward(e) = {y} BY <1>1, <2>1 DEF DeleteForward
  <2>8. QED BY <2>6, <2>7, PlacedSound
<1>2. CASE ~(e.col < Current(e)) /\ e.row = Len(e.lines)
  <2>1. DeleteForward(e) = {e} BY <1>2 DEF DeleteForward
  <2>2. QED BY <2>1
<1>3. CASE ~(e.col < Current(e)) /\ e.row # Len(e.lines)
  <2>1. PICK new : new = <<Current(e) + e.lines[e.row + 1]>> OBVIOUS
  <2>2. PICK y : y = [e EXCEPT !.lines = Splice(@, e.row, e.row + 1, new)] OBVIOUS
  <2>3. e.row \in 1 .. Len(e.lines) /\ e.row + 1 \in e.row .. Len(e.lines) /\ e.row + 1 \in 1 .. Len(e.lines)
    BY <1>3, CursorIs
  <2>4. e.lines[e.row + 1] \in Nat BY <2>3, CursorIs
  <2>5. Current(e) + e.lines[e.row + 1] \in Nat /\ e.col \in Nat /\ e.col <= Current(e) + e.lines[e.row + 1]
    BY <2>4, CursorIs, SMTT(30)
  <2>6. new \in Buffers /\ Len(new) = 1 /\ new[1] = Current(e) + e.lines[e.row + 1]
    BY <2>1, <2>5 DEF Buffers
  <2>7. DOMAIN y = DOMAIN e /\ y.lines = Splice(e.lines, e.row, e.row + 1, new)
        /\ \A f \in DOMAIN e \ {"lines"} : y[f] = e[f]
    BY <2>2 DEF Sound
  <2>8. y.kill = e.kill /\ e.kill \in Nat /\ y.col = e.col /\ y.row = e.row BY <2>7 DEF Sound
  <2>9. 1 \in 1 .. Len(new) /\ y.row = e.row - 1 + 1 BY <2>3, <2>6, <2>8
  <2>10. y.col \in Nat /\ y.col <= new[1] BY <2>5, <2>6, <2>8
  <2>11. \A f \in DOMAIN e \ {"lines", "row", "col", "kill"} : y[f] = e[f] BY <2>7
  <2>12. PICK to : to = e.row + 1 OBVIOUS
  <2>13. to \in e.row .. Len(e.lines) /\ y.lines = Splice(e.lines, e.row, to, new) BY <2>3, <2>7, <2>12
  <2>14. DOMAIN y = DOMAIN e BY <2>7
  <2>15. Placed(e, y) /\ y.undo = e.undo /\ y.redo = e.redo
    BY <2>3, <2>6, <2>8, <2>9, <2>10, <2>11, <2>13, <2>14, SplicedSound
  <2>16. DeleteForward(e) = {y} BY <1>3, <2>1, <2>2 DEF DeleteForward
  <2>17. QED BY <2>15, <2>16, PlacedSound
<1>4. QED BY <1>1, <1>2, <1>3

LEMMA KillSound ==
  ASSUME NEW e, Sound(e)
  PROVE  \A x \in Kill(e) : Sound(x)
<1>1. ASSUME NEW y, y = [e EXCEPT !.lines[e.row] = e.col, !.kill = Current(e) - e.col]
      PROVE  Sound(Remember(e, y))
  <2>1. DOMAIN y = DOMAIN e /\ y.lines = [e.lines EXCEPT ![e.row] = e.col] /\ y.kill = Current(e) - e.col
        /\ \A f \in DOMAIN e \ {"lines", "kill"} : y[f] = e[f]
    BY <1>1 DEF Sound
  <2>2. y.row = e.row /\ y.col = e.col BY <2>1 DEF Sound
  <2>3. e.col \in Nat /\ e.col <= e.col /\ y.kill \in Nat BY <2>1, CursorIs
  <2>4. Placed(e, y) /\ y.undo = e.undo /\ y.redo = e.redo BY <2>1, <2>2, <2>3, LineSound
  <2>5. QED BY <2>4, PlacedSound, RememberSound
<1>2. ASSUME NEW at \in 0 .. e.col,
             NEW y, y = [e EXCEPT !.lines[e.row] = @ - (e.col - at), !.col = at, !.kill = e.col - at]
      PROVE  Sound(Remember(e, y))
  <2>1. PICK n : n = Current(e) - (e.col - at) OBVIOUS
  <2>2. n \in Nat /\ at \in Nat /\ at <= n /\ e.col - at \in Nat BY <2>1, CursorIs
  <2>3. DOMAIN y = DOMAIN e /\ y.lines = [e.lines EXCEPT ![e.row] = n] /\ y.kill = e.col - at /\ y.col = at
        /\ \A f \in DOMAIN e \ {"lines", "kill", "col"} : y[f] = e[f]
    BY <1>2, <2>1 DEF Sound, Current
  <2>4. y.row = e.row BY <2>3 DEF Sound
  <2>5. Placed(e, y) /\ y.undo = e.undo /\ y.redo = e.redo BY <2>2, <2>3, <2>4, LineSound
  <2>6. QED BY <2>5, PlacedSound, RememberSound
<1>3. TAKE x \in Kill(e)
<1>4. CASE x = Remember(e, [e EXCEPT !.lines[e.row] = e.col, !.kill = Current(e) - e.col])
  BY <1>1, <1>4
<1>5. CASE \E at \in 0 .. e.col :
             x = Remember(e, [e EXCEPT !.lines[e.row] = @ - (e.col - at), !.col = at, !.kill = e.col - at])
  BY <1>2, <1>5
<1>6. QED BY <1>4, <1>5 DEF Kill

LEMMA YankSound ==
  ASSUME NEW e, Sound(e)
  PROVE  \A x \in Yank(e) : Sound(x)
<1>1. CASE e.kill = 0
  <2>1. Yank(e) = {e} BY <1>1 DEF Yank
  <2>2. QED BY <2>1
<1>2. CASE e.kill # 0
  <2>1. PICK n : n = Current(e) + e.kill OBVIOUS
  <2>2. PICK y : y = [e EXCEPT !.lines[e.row] = @ + e.kill, !.col = @ + e.kill] OBVIOUS
  <2>3. e.kill \in Nat BY DEF Sound
  <2>4. n \in Nat /\ e.col + e.kill \in Nat /\ e.col + e.kill <= n BY <2>1, <2>3, CursorIs
  <2>5. DOMAIN y = DOMAIN e /\ y.lines = [e.lines EXCEPT ![e.row] = n] /\ y.col = e.col + e.kill
        /\ \A f \in DOMAIN e \ {"lines", "col"} : y[f] = e[f]
    BY <2>1, <2>2 DEF Sound, Current
  <2>6. y.row = e.row /\ y.kill = e.kill BY <2>5 DEF Sound
  <2>7. Placed(e, y) /\ y.undo = e.undo /\ y.redo = e.redo BY <2>3, <2>4, <2>5, <2>6, LineSound
  <2>8. Yank(e) = {Remember(e, y)} BY <1>2, <2>2 DEF Yank
  <2>9. QED BY <2>7, <2>8, PlacedSound, RememberSound
<1>3. QED BY <1>1, <1>2

LEMMA PopIs ==
  ASSUME NEW S, NEW s \in Seq(S), s # <<>>
  PROVE  Last(s) \in S /\ Front(s) \in Seq(S)
<1>1. Len(s) \in Nat \ {0} BY EmptySeq
<1>2. Last(s) \in S BY <1>1 DEF Last
<1>3. SubSeq(s, 1, Len(s) - 1) \in Seq(S) BY <1>1
<1>4. QED BY <1>2, <1>3 DEF Front

LEMMA SwapSound ==
  ASSUME NEW e, Sound(e), NEW from, NEW to, <<from, to>> \in {<<"undo", "redo">>, <<"redo", "undo">>}
  PROVE  \A x \in Swap(e, from, to) : Sound(x)
<1>1. from \in {"undo", "redo"} /\ to \in {"undo", "redo"} /\ from # to OBVIOUS
<1>2. e[from] \in Seq(Snaps) /\ e[to] \in Seq(Snaps) BY <1>1 DEF Sound
<1>3. CASE e[from] = <<>>
  <2>1. Swap(e, from, to) = {e} BY <1>3 DEF Swap
  <2>2. QED BY <2>1
<1>4. CASE e[from] # <<>>
  <2>1. PICK last : last = Last(e[from]) OBVIOUS
  <2>2. PICK row : row = Min({last.row, Len(last.lines)}) OBVIOUS
  <2>3. PICK pushed : pushed = Bounded(Append(e[to], Snapshot(e))) OBVIOUS
  <2>4. PICK popped : popped = Front(e[from]) OBVIOUS
  <2>5. last \in Snaps /\ popped \in Seq(Snaps) BY <1>2, <1>4, <2>1, <2>4, PopIs
  <2>6. pushed \in Seq(Snaps)
    <3>1. Snapshot(e) \in Snaps BY SnapshotIs
    <3>2. Append(e[to], Snapshot(e)) \in Seq(Snaps) BY ONLY <1>2, <3>1, AppendProperties
    <3>3. QED BY <2>3, <3>2, BoundedIs
  <2>7. /\ last.lines \in Buffers /\ last.row \in Nat /\ last.col \in Nat
        /\ At(last.lines, last.row, last.col)
    BY <2>5 DEF Snaps
  <2>8. row = last.row
    <3>1. Len(last.lines) \in Int /\ last.row \in Int /\ last.row <= Len(last.lines)
      BY <2>7, BuffersAre DEF At
    <3>2. Min({last.row, Len(last.lines)}) \in {last.row, Len(last.lines)}
          /\ Min({last.row, Len(last.lines)}) <= last.row
          /\ Min({last.row, Len(last.lines)}) <= Len(last.lines)
      BY ONLY <3>1, MinOfTwo
    <3>3. QED BY <2>2, <2>7, <3>1, <3>2
  <2>9. PICK y : y = [e EXCEPT !.lines = last.lines, !.row = row, !.col = last.col,
                               ![from] = popped, ![to] = pushed] OBVIOUS
  <2>10. Swap(e, from, to) = {MenuClosed(y)} BY <1>4, <2>1, <2>2, <2>3, <2>4, <2>9 DEF Swap
  <2>11. Sound(y)
    <3>1. DOMAIN y = DOMAIN e /\ y.lines = last.lines /\ y.row = row /\ y.col = last.col
          /\ y[from] = popped /\ y[to] = pushed
          /\ \A f \in DOMAIN e \ {"lines", "row", "col", from, to} : y[f] = e[f]
      BY <1>1, <2>9 DEF Sound
    <3>2. y.undo \in Seq(Snaps) /\ y.redo \in Seq(Snaps) BY <1>1, <2>5, <2>6, <3>1
    <3>3. At(y.lines, y.row, y.col) /\ y.lines \in Buffers BY <2>7, <2>8, <3>1
    <3>4. \A f \in DOMAIN e \ {"lines", "row", "col", "undo", "redo"} : y[f] = e[f] BY <1>1, <3>1
    <3>5. QED BY <3>1, <3>2, <3>3, <3>4 DEF Sound
  <2>12. QED BY <2>10, <2>11, ClosedSound
<1>5. QED BY <1>3, <1>4

LEMMA LeftRightSound ==
  ASSUME NEW e, Sound(e)
  PROVE  \A x \in Left(e) \cup Right(e) \cup WithinLine(e) : Sound(x)
<1>1. ASSUME NEW x \in Left(e) PROVE Sound(x)
  <2>1. CASE e.col > 0
    <3>1. PICK row : row = e.row OBVIOUS
    <3>2. PICK col : col = e.col - 1 OBVIOUS
    <3>3. row \in 1 .. Len(e.lines) /\ col \in 0 .. e.lines[row] BY <2>1, <3>1, <3>2, CursorIs
    <3>4. x = [e EXCEPT !.col = col] BY <1>1, <2>1, <3>2 DEF Left
    <3>5. x = [e EXCEPT !.row = row, !.col = col] BY <3>1, <3>4 DEF Sound
    <3>6. QED BY <3>3, <3>5, MovedSound
  <2>2. CASE ~(e.col > 0) /\ e.row = 1 BY <1>1, <2>2 DEF Left
  <2>3. CASE ~(e.col > 0) /\ e.row # 1
    <3>1. PICK row : row = e.row - 1 OBVIOUS
    <3>2. PICK col : col = e.lines[row] OBVIOUS
    <3>3. row \in 1 .. Len(e.lines) BY <2>3, <3>1, CursorIs
    <3>4. col \in 0 .. e.lines[row] BY <3>2, <3>3, CursorIs
    <3>5. x = [e EXCEPT !.row = row, !.col = col] BY <1>1, <2>3, <3>1, <3>2 DEF Left
    <3>6. QED BY <3>3, <3>4, <3>5, MovedSound
  <2>4. QED BY <2>1, <2>2, <2>3
<1>2. ASSUME NEW x \in Right(e) PROVE Sound(x)
  <2>1. CASE e.col < Current(e)
    <3>1. PICK row : row = e.row OBVIOUS
    <3>2. PICK col : col = e.col + 1 OBVIOUS
    <3>3. row \in 1 .. Len(e.lines) /\ col \in 0 .. e.lines[row] BY <2>1, <3>1, <3>2, CursorIs
    <3>4. x = [e EXCEPT !.col = col] BY <1>2, <2>1, <3>2 DEF Right
    <3>5. x = [e EXCEPT !.row = row, !.col = col] BY <3>1, <3>4 DEF Sound
    <3>6. QED BY <3>3, <3>5, MovedSound
  <2>2. CASE ~(e.col < Current(e)) /\ e.row = Len(e.lines) BY <1>2, <2>2 DEF Right
  <2>3. CASE ~(e.col < Current(e)) /\ e.row # Len(e.lines)
    <3>1. PICK row : row = e.row + 1 OBVIOUS
    <3>2. row \in 1 .. Len(e.lines) BY <2>3, <3>1, CursorIs
    <3>3. 0 \in 0 .. e.lines[row] BY <3>2, CursorIs
    <3>4. x = [e EXCEPT !.row = row, !.col = 0] BY <1>2, <2>3, <3>1 DEF Right
    <3>5. QED BY <3>2, <3>3, <3>4, MovedSound
  <2>4. QED BY <2>1, <2>2, <2>3
<1>3. ASSUME NEW x \in WithinLine(e) PROVE Sound(x)
  <2>1. PICK col \in 0 .. Current(e) : x = [e EXCEPT !.col = col] BY <1>3 DEF WithinLine
  <2>2. PICK row : row = e.row OBVIOUS
  <2>3. row \in 1 .. Len(e.lines) /\ col \in 0 .. e.lines[row] BY <2>2, CursorIs
  <2>4. x = [e EXCEPT !.row = row, !.col = col] BY <2>1, <2>2 DEF Sound
  <2>5. QED BY <2>3, <2>4, MovedSound
<1>4. QED BY <1>1, <1>2, <1>3

LEMMA ShowSound ==
  ASSUME NEW e, Sound(e), NEW lines \in Buffers
  PROVE  Sound(Show(e, lines))
<1>1. PICK y : y = Show(e, lines) OBVIOUS
<1>2. DOMAIN y = DOMAIN e /\ y.lines = lines /\ y.row = Len(lines) /\ y.col = lines[Len(lines)]
      /\ \A f \in DOMAIN e \ {"lines", "row", "col"} : y[f] = e[f]
  BY <1>1 DEF Show, Last, Sound
<1>3. Len(lines) \in DOMAIN lines /\ lines[Len(lines)] \in Nat BY BuffersAre
<1>4. At(y.lines, y.row, y.col) BY <1>2, <1>3 DEF At
<1>5. Placed(e, y) /\ y.undo = e.undo /\ y.redo = e.redo BY <1>2, <1>4 DEF Placed, Sound
<1>6. QED BY <1>1, <1>5, PlacedSound

LEMMA UpSound ==
  ASSUME NEW e, Sound(e)
  PROVE  \A x \in Up(e) : Sound(x)
<1>1. CASE e.row > 1
  <2>1. PICK row : row = e.row - 1 OBVIOUS
  <2>2. PICK col : col = Min({e.col, e.lines[row]}) OBVIOUS
  <2>3. row \in 1 .. Len(e.lines) BY <1>1, <2>1, CursorIs
  <2>4. e.lines[row] \in Int /\ e.col \in Int /\ e.col >= 0 /\ e.lines[row] >= 0 BY <2>3, CursorIs
  <2>5. col \in {e.col, e.lines[row]} /\ col <= e.lines[row] BY ONLY <2>2, <2>4, MinOfTwo
  <2>6. col \in 0 .. e.lines[row] BY <2>4, <2>5
  <2>7. Sound([e EXCEPT !.row = row, !.col = col]) BY <2>3, <2>6, MovedSound
  <2>8. Up(e) = {[e EXCEPT !.row = row, !.col = col]} BY <1>1, <2>1, <2>2 DEF Up
  <2>9. QED BY <2>7, <2>8
<1>2. CASE ~(e.row > 1) /\ e.historyAt = 0
  <2>1. Up(e) = {e} BY <1>2 DEF Up
  <2>2. QED BY <2>1
<1>3. CASE ~(e.row > 1) /\ e.historyAt # 0
  <2>1. PICK d : d = IF e.historyAt = Len(e.history) THEN e.lines ELSE e.draft OBVIOUS
  <2>2. PICK y : y = [e EXCEPT !.historyAt = @ - 1, !.draft = d] OBVIOUS
  <2>3. PICK entry : entry = e.history[e.historyAt] OBVIOUS
  <2>4. /\ e.history \in Seq(Buffers) /\ e.historyAt \in Nat /\ e.historyAt <= Len(e.history)
        /\ e.draft \in Buffers \cup {NoDraft} /\ (e.historyAt < Len(e.history) => e.draft # NoDraft)
        /\ Len(e.history) \in Nat /\ e.lines \in Buffers
    BY DEF Sound
  <2>5. entry \in Buffers BY <1>3, <2>3, <2>4
  <2>6. d \in Buffers
    <3>1. CASE e.historyAt = Len(e.history) BY <2>1, <2>4, <3>1
    <3>2. CASE e.historyAt # Len(e.history) BY <2>1, <2>4, <3>2
    <3>3. QED BY <3>1, <3>2
  <2>7. d # NoDraft BY <2>6, EditorAssumption DEF Buffers
  <2>8. e.historyAt - 1 \in Nat /\ e.historyAt - 1 <= Len(e.history) BY <1>3, <2>4
  <2>9. Sound(y) BY <2>2, <2>6, <2>7, <2>8 DEF Sound
  <2>10. Up(e) = {Show(y, entry)} BY <1>3, <2>1, <2>2, <2>3 DEF Up
  <2>11. QED BY <2>5, <2>9, <2>10, ShowSound
<1>4. QED BY <1>1, <1>2, <1>3

LEMMA DownSound ==
  ASSUME NEW e, Sound(e)
  PROVE  \A x \in Down(e) : Sound(x)
<1>1. CASE e.row < Len(e.lines)
  <2>1. PICK row : row = e.row + 1 OBVIOUS
  <2>2. PICK col : col = Min({e.col, e.lines[row]}) OBVIOUS
  <2>3. row \in 1 .. Len(e.lines) BY <1>1, <2>1, CursorIs
  <2>4. e.lines[row] \in Int /\ e.col \in Int /\ e.col >= 0 /\ e.lines[row] >= 0 BY <2>3, CursorIs
  <2>5. col \in {e.col, e.lines[row]} /\ col <= e.lines[row] BY ONLY <2>2, <2>4, MinOfTwo
  <2>6. col \in 0 .. e.lines[row] BY <2>4, <2>5
  <2>7. Sound([e EXCEPT !.row = row, !.col = col]) BY <2>3, <2>6, MovedSound
  <2>8. Down(e) = {[e EXCEPT !.row = row, !.col = col]} BY <1>1, <2>1, <2>2 DEF Down
  <2>9. QED BY <2>7, <2>8
<1>2. CASE ~(e.row < Len(e.lines)) /\ e.historyAt = Len(e.history)
  <2>1. Down(e) = {e} BY <1>2 DEF Down
  <2>2. QED BY <2>1
<1>3. CASE ~(e.row < Len(e.lines)) /\ e.historyAt # Len(e.history)
  <2>1. PICK to : to = e.historyAt + 1 OBVIOUS
  <2>2. PICK y : y = [e EXCEPT !.historyAt = to] OBVIOUS
  <2>3. PICK entry : entry = IF to < Len(e.history) THEN e.history[to + 1]
                             ELSE IF e.draft = NoDraft THEN Blank ELSE e.draft OBVIOUS
  <2>4. /\ e.history \in Seq(Buffers) /\ e.historyAt \in Nat /\ e.historyAt <= Len(e.history)
        /\ e.draft \in Buffers \cup {NoDraft} /\ (e.historyAt < Len(e.history) => e.draft # NoDraft)
        /\ Len(e.history) \in Nat
    BY DEF Sound
  <2>5. e.historyAt < Len(e.history) /\ to \in Nat /\ to <= Len(e.history) BY <1>3, <2>1, <2>4
  <2>6. entry \in Buffers
    <3>1. CASE to < Len(e.history)
      <4>1. to + 1 \in 1 .. Len(e.history) BY <2>4, <2>5, <3>1
      <4>2. e.history[to + 1] \in Buffers BY <2>4, <4>1
      <4>3. QED BY <2>3, <3>1, <4>2
    <3>2. CASE ~(to < Len(e.history)) BY <2>3, <2>4, <2>5, <3>2
    <3>3. QED BY <3>1, <3>2
  <2>7. Sound(y) BY <2>2, <2>5 DEF Sound
  <2>8. Down(e) = {Show(y, entry)} BY <1>3, <2>1, <2>2, <2>3 DEF Down
  <2>9. QED BY <2>6, <2>7, <2>8, ShowSound
<1>4. QED BY <1>1, <1>2, <1>3

LEMMA CompleteSound ==
  ASSUME NEW e, Sound(e), NEW length \in Nat
  PROVE  \A x \in Complete(e, length) : Sound(x)
<1>1. TAKE x \in Complete(e, length)
<1>2. PICK start \in 0 .. e.col :
        x = [e EXCEPT !.lines[e.row] = @ - (e.col - start) + length, !.col = start + length]
  BY DEF Complete
<1>3. PICK n : n = Current(e) - (e.col - start) + length OBVIOUS
<1>4. n \in Nat /\ start + length \in Nat /\ start + length <= n BY <1>3, CursorIs
<1>5. DOMAIN x = DOMAIN e /\ x.lines = [e.lines EXCEPT ![e.row] = n] /\ x.col = start + length
      /\ \A f \in DOMAIN e \ {"lines", "col"} : x[f] = e[f]
  BY <1>2, <1>3 DEF Sound, Current
<1>6. x.row = e.row /\ x.kill = e.kill /\ e.kill \in Nat BY <1>5 DEF Sound
<1>7. Placed(e, x) /\ x.undo = e.undo /\ x.redo = e.redo BY <1>4, <1>5, <1>6, LineSound
<1>8. QED BY <1>7, PlacedSound

LEMMA TabSound ==
  ASSUME NEW e, Sound(e)
  PROVE  \A x \in Tab(e) : Sound(x)
<1>1. TAKE x \in Tab(e)
<1>2. CASE x = e BY <1>2
<1>3. ASSUME NEW c \in Completions,
             x \in IF Len(c) = 1 THEN Complete(e, c[1]) ELSE {[e EXCEPT !.menu = c, !.menuAt = 0]}
      PROVE  Sound(x)
  <2>1. c \in Seq(Nat) /\ Len(c) \in Nat BY EditorAssumption
  <2>2. CASE Len(c) = 1
    <3>1. c[1] \in Nat BY <2>1, <2>2
    <3>2. QED BY <1>3, <2>2, <3>1, CompleteSound
  <2>3. CASE Len(c) # 1
    <3>1. x = [e EXCEPT !.menu = c, !.menuAt = 0] BY <1>3, <2>3
    <3>2. QED BY <2>1, <3>1 DEF Sound
  <2>4. QED BY <2>2, <2>3
<1>4. QED BY <1>2, <1>3 DEF Tab

LEMMA InMenuSound ==
  ASSUME NEW e, Sound(e), e.menu # <<>>
  PROVE  \A x \in InMenu(e) : Sound(x)
<1>1. PICK n : n = Len(e.menu) OBVIOUS
<1>2. /\ e.menu \in Seq(Nat) /\ n \in Nat \ {0} /\ e.menuAt \in Nat /\ (e.menuAt = 0 \/ e.menuAt < n)
      /\ DOMAIN e.menu = 1 .. n
  BY <1>1, EmptySeq DEF Sound
<1>3. ASSUME NEW at \in 0 .. (n - 1) PROVE Sound([e EXCEPT !.menuAt = at])
  <2>1. at \in Nat /\ at < n BY <1>2
  <2>2. QED BY <1>1, <2>1 DEF Sound
<1>4. (e.menuAt + 1) % n \in 0 .. (n - 1) BY <1>2
<1>5. (e.menuAt + n - 1) % n \in 0 .. (n - 1) BY <1>2
<1>6. e.menu[e.menuAt + 1] \in Nat
  <2>1. e.menuAt + 1 \in 1 .. n BY <1>2
  <2>2. QED BY <1>2, <2>1
<1>7. TAKE x \in InMenu(e)
<1>8. CASE x = [e EXCEPT !.menuAt = (@ + 1) % n]
  <2>1. PICK at : at = (e.menuAt + 1) % n OBVIOUS
  <2>2. at \in 0 .. (n - 1) BY <1>4, <2>1
  <2>3. x = [e EXCEPT !.menuAt = at] BY <1>8, <2>1
  <2>4. QED BY <1>3, <2>2, <2>3
<1>9. CASE x = [e EXCEPT !.menuAt = (@ + n - 1) % n]
  <2>1. PICK at : at = (e.menuAt + n - 1) % n OBVIOUS
  <2>2. at \in 0 .. (n - 1) BY <1>5, <2>1
  <2>3. x = [e EXCEPT !.menuAt = at] BY <1>9, <2>1
  <2>4. QED BY <1>3, <2>2, <2>3
<1>10. CASE x = MenuClosed(e) BY <1>10, ClosedSound
<1>11. CASE \E y \in Complete(e, e.menu[e.menuAt + 1]) : x = MenuClosed(y)
  BY <1>6, <1>11, CompleteSound, ClosedSound
<1>12. QED BY <1>1, <1>8, <1>9, <1>10, <1>11 DEF InMenu

LEMMA OpenSearchSound ==
  ASSUME NEW e, Sound(e)
  PROVE  \A x \in OpenSearch(e) : Sound(x)
<1>1. PICK found : found = [open |-> TRUE, matches |-> Len(e.history), at |-> 0] OBVIOUS
<1>2. PICK y : y = [e EXCEPT !.search = found] OBVIOUS
<1>3. found \in [open : BOOLEAN, matches : Nat, at : Nat] /\ found.at = 0 BY <1>1 DEF Sound
<1>4. Sound(y) BY <1>2, <1>3 DEF Sound
<1>5. OpenSearch(e) = {MenuClosed(y)} BY <1>1, <1>2 DEF OpenSearch
<1>6. QED BY <1>4, <1>5, ClosedSound

LEMMA InSearchSound ==
  ASSUME NEW e, Sound(e)
  PROVE  \A x \in InSearch(e) : Sound(x)
<1>1. ASSUME NEW found \in [open : BOOLEAN, matches : Nat, at : Nat],
             found.at = 0 \/ found.at < found.matches
      PROVE  Sound([e EXCEPT !.search = found])
  <2>1. PICK y : y = [e EXCEPT !.search = found] OBVIOUS
  <2>2. Sound(y) BY <1>1, <2>1 DEF Sound
  <2>3. QED BY <2>1, <2>2
<1>2. NoSearch \in [open : BOOLEAN, matches : Nat, at : Nat] /\ NoSearch.at = 0 BY DEF NoSearch
<1>3. TAKE x \in InSearch(e)
<1>4. CASE x = [e EXCEPT !.search.at = Min({@ + 1, Max({0, e.search.matches - 1})})]
  <2>1. PICK m : m = e.search.matches - 1 OBVIOUS
  <2>2. PICK top : top = Max({0, m}) OBVIOUS
  <2>3. PICK next : next = e.search.at + 1 OBVIOUS
  <2>4. PICK at : at = Min({next, top}) OBVIOUS
  <2>5. /\ e.search \in [open : BOOLEAN, matches : Nat, at : Nat]
        /\ e.search.matches \in Nat /\ e.search.at \in Nat /\ m \in Int /\ next \in Int /\ next >= 1
    BY <2>1, <2>3 DEF Sound
  <2>6. top \in {0, m} /\ top >= 0 /\ top >= m
    <3>1. 0 \in Int OBVIOUS
    <3>2. QED BY ONLY <2>2, <2>5, <3>1, MaxOfTwo
  <2>7. top \in Int BY <2>5, <2>6
  <2>8. at \in {next, top} /\ at <= next /\ at <= top BY ONLY <2>4, <2>5, <2>7, MinOfTwo
  <2>9. at \in Nat /\ (at = 0 \/ at < e.search.matches) BY <2>1, <2>5, <2>6, <2>7, <2>8
  <2>10. PICK found : found = [e.search EXCEPT !.at = at] OBVIOUS
  <2>11. /\ found \in [open : BOOLEAN, matches : Nat, at : Nat]
         /\ found.at = at /\ found.matches = e.search.matches
    BY <2>5, <2>9, <2>10
  <2>12. x = [e EXCEPT !.search = found] BY <1>4, <2>1, <2>2, <2>3, <2>4, <2>10 DEF Sound
  <2>13. QED BY <1>1, <2>9, <2>11, <2>12
<1>5. CASE x = [e EXCEPT !.search = NoSearch] BY <1>1, <1>2, <1>5
<1>6. ASSUME NEW n \in 0 .. Len(e.history),
             x = [e EXCEPT !.search = [open |-> TRUE, matches |-> n, at |-> 0]]
      PROVE  Sound(x)
  <2>1. PICK found : found = [open |-> TRUE, matches |-> n, at |-> 0] OBVIOUS
  <2>2. n \in Nat BY DEF Sound
  <2>3. found \in [open : BOOLEAN, matches : Nat, at : Nat] /\ found.at = 0 BY <2>1, <2>2
  <2>4. QED BY <1>1, <1>6, <2>1, <2>3
<1>7. ASSUME NEW i \in DOMAIN e.history, x = Show([e EXCEPT !.search = NoSearch], e.history[i])
      PROVE  Sound(x)
  <2>1. e.history[i] \in Buffers BY DEF Sound
  <2>2. Sound([e EXCEPT !.search = NoSearch]) BY <1>1, <1>2
  <2>3. QED BY <1>7, <2>1, <2>2, ShowSound
<1>8. QED BY <1>4, <1>5, <1>6, <1>7 DEF InSearch

LEMMA EndedSound ==
  ASSUME NEW e, Sound(e)
  PROVE  \A x \in Ended(e) : Sound(x)
<1>1. TAKE x \in Ended(e)
<1>2. PICK d : x = [e EXCEPT !.done = d] BY DEF Ended
<1>3. QED BY <1>2 DEF Sound

(* Whatever key is pressed. *)
LEMMA KeySound ==
  ASSUME NEW e, Sound(e)
  PROVE  \A x \in ApplyKey(e) : Sound(x)
<1>1. TAKE x \in ApplyKey(e)
<1>2. CASE e.search.open
  <2>1. x \in InSearch(e) BY <1>2 DEF ApplyKey
  <2>2. QED BY <2>1, InSearchSound
<1>3. CASE ~e.search.open
  <2> DEFINE first == IF e.menu # <<>> THEN InMenu(e) ELSE Up(e) \cup Down(e) \cup Tab(e)
  <2> DEFINE pasted == UNION {Insert(e, parts) : parts \in Pastes}
  <2> DEFINE all ==
        first \cup Ended(e) \cup pasted
        \cup Newline(e) \cup Backspace(e) \cup DeleteForward(e) \cup Kill(e) \cup Yank(e)
        \cup Left(e) \cup Right(e) \cup WithinLine(e)
        \cup Swap(e, "undo", "redo") \cup Swap(e, "redo", "undo") \cup OpenSearch(e)
  <2>1. x \in all BY <1>3 DEF ApplyKey
  <2> HIDE DEF first, pasted, all
  <2>2. \/ x \in first \/ x \in pasted
        \/ x \in Ended(e) \cup Kill(e) \cup Yank(e) \cup OpenSearch(e)
        \/ x \in Newline(e) \cup Backspace(e) \cup DeleteForward(e)
        \/ x \in Left(e) \cup Right(e) \cup WithinLine(e)
        \/ x \in Swap(e, "undo", "redo") \cup Swap(e, "redo", "undo")
    BY ONLY <2>1 DEF all
  <2>3. CASE x \in first
    <3>1. CASE e.menu # <<>> BY <2>3, <3>1, InMenuSound DEF first
    <3>2. CASE e.menu = <<>> BY <2>3, <3>2, UpSound, DownSound, TabSound DEF first
    <3>3. QED BY <3>1, <3>2
  <2>4. CASE x \in pasted
    <3>1. PICK parts \in Pastes : x \in Insert(e, parts) BY <2>4 DEF pasted
    <3>2. QED BY <3>1, InsertSound
  <2>5. CASE x \in Swap(e, "undo", "redo") \cup Swap(e, "redo", "undo") BY <2>5, SwapSound
  <2>6. CASE x \in Left(e) \cup Right(e) \cup WithinLine(e) BY <2>6, LeftRightSound
  <2>7. CASE x \in Newline(e) \cup Backspace(e) \cup DeleteForward(e)
    BY <2>7, NewlineSound, BackspaceSound, DeleteForwardSound
  <2>8. CASE x \in Kill(e) \cup Yank(e) \cup Ended(e) \cup OpenSearch(e)
    BY <2>8, KillSound, YankSound, EndedSound, OpenSearchSound
  <2>9. QED BY <2>2, <2>3, <2>4, <2>5, <2>6, <2>7, <2>8
<1>4. QED BY <1>2, <1>3

-----------------------------------------------------------------------------
(* Terminal: who holds the terminal while the editor's keys go on.             *)

(* The signal listeners are installed as long as bracketed paste is on, and the
   prompt is reached only from a loop that nobody else reads for, but for the
   interface a typed reason left behind. *)
TerminalInv ==
  /\ Sound(ed) /\ past \in Seq(Buffers)
  /\ doing \in {"prompt", "between", "turn", "menu", "reason", "leaving", "gone"}
  /\ pasteMode => doing = "prompt" /\ armed
  /\ doing = "prompt" => raw
  /\ raw => doing \in {"prompt", "menu", "gone"} \/ asker = "open"
  /\ doing = "gone" /\ armed => ~raw
  /\ readers \subseteq {"editor", "menu", "readline"}
  /\ doing \in {"prompt", "between", "turn", "reason"} => "menu" \notin readers

LEMMA FreshSound == ASSUME NEW h \in Seq(Buffers) PROVE Sound(Fresh(h))
<1>1. PICK y : y = Fresh(h) OBVIOUS
<1>2. /\ DOMAIN y = {"lines", "row", "col", "history", "historyAt", "draft", "kill", "done", "menu", "menuAt",
                     "undo", "redo", "search"}
      /\ y.lines = Blank /\ y.row = 1 /\ y.col = 0 /\ y.history = h /\ y.historyAt = Len(h)
      /\ y.draft = NoDraft /\ y.kill = 0 /\ y.menu = <<>> /\ y.menuAt = 0 /\ y.undo = <<>> /\ y.redo = <<>>
      /\ y.search = NoSearch
  BY <1>1 DEF Fresh
<1>3. Blank \in Buffers /\ At(Blank, 1, 0) BY DEF Blank, Buffers, At
<1>4. NoSearch \in [open : BOOLEAN, matches : Nat, at : Nat] /\ NoSearch.at = 0 BY DEF NoSearch
<1>5. Sound(y) BY <1>2, <1>3, <1>4 DEF Sound
<1>6. QED BY <1>1, <1>5

LEMMA TerminalStarts == TerminalInit => TerminalInv
<1>1. <<>> \in Seq(Buffers) OBVIOUS
<1>2. Sound(Fresh(<<>>)) BY <1>1, FreshSound
<1>3. QED BY <1>1, <1>2 DEF TerminalInit, TerminalInv

LEMMA TerminalStep == TerminalInv /\ [TerminalNext]_terminalVars => TerminalInv'
<1> SUFFICES ASSUME TerminalInv, [TerminalNext]_terminalVars PROVE TerminalInv' OBVIOUS
<1>1. CASE Read
  <2>1. Sound(ed') BY <1>1, FreshSound DEF Read, TerminalInv
  <2>2. QED BY <1>1, <2>1 DEF Read, TerminalInv
<1>2. CASE PressKey
  <2>1. Sound(ed') BY <1>2, KeySound DEF PressKey, TerminalInv
  <2>2. QED BY <1>2, <2>1 DEF PressKey, TerminalInv
<1>3. CASE Enter
  <2>1. past' \in Seq(Buffers)
    <3>1. past \in Seq(Buffers) /\ ed.lines \in Buffers BY DEF TerminalInv, Sound
    <3>2. Append(past, ed.lines) \in Seq(Buffers) BY ONLY <3>1, AppendProperties
    <3>3. past' \in {past, Append(past, ed.lines)} BY <1>3 DEF Enter
    <3>4. QED BY <3>1, <3>2, <3>3
  <2>2. doing' \in {"turn", "leaving", "between"} BY <1>3 DEF Enter
  <2>3. UNCHANGED ed /\ ~pasteMode' /\ ~raw' /\ readers' = readers \ {"editor"}
    BY <1>3 DEF Enter, Released
  <2>4. doing = "prompt" BY <1>3 DEF Enter
  <2>5. QED BY <2>1, <2>2, <2>3, <2>4 DEF TerminalInv
<1>4. CASE GiveUp
  <2>1. doing' \in {"between", "leaving"} BY <1>4 DEF GiveUp
  <2>2. UNCHANGED <<ed, past>> /\ ~pasteMode' /\ ~raw' /\ readers' = readers \ {"editor"} /\ doing = "prompt"
    BY <1>4 DEF GiveUp, Released
  <2>3. QED BY <2>1, <2>2 DEF TerminalInv
<1>5. CASE InputEnds BY <1>5 DEF InputEnds, Released, TerminalInv
<1>6. CASE TurnEnds BY <1>6 DEF TurnEnds, TerminalInv
<1>7. CASE Ask BY <1>7 DEF Ask, TerminalInv
<1>8. CASE Picked BY <1>8 DEF Picked, TerminalInv
<1>9. CASE PickedReason BY <1>9 DEF PickedReason, Opened, TerminalInv
<1>10. CASE Explained
  <2>1. doing = "reason" /\ doing' = "turn" /\ UNCHANGED <<pasteMode, armed, ed, past>> /\ ~pasteMode
    BY <1>10 DEF Explained, TerminalInv
  <2>2. CASE UNCHANGED <<raw, readers, asker>> BY <2>1, <2>2 DEF TerminalInv
  <2>3. CASE ClosedReadline /\ readers' = readers \ {"readline"} BY <2>1, <2>3 DEF ClosedReadline, TerminalInv
  <2>4. QED BY <1>10, <2>2, <2>3 DEF Explained
<1>11. CASE Killed BY <1>11 DEF Killed, Restored, TerminalInv
<1>12. CASE Crash BY <1>12 DEF Crash, Restored, TerminalInv
<1>13. CASE Leave BY <1>13 DEF Leave, Restored, TerminalInv
<1>14. CASE UNCHANGED terminalVars BY <1>14 DEF terminalVars, TerminalInv
<1>15. QED BY <1>1, <1>2, <1>3, <1>4, <1>5, <1>6, <1>7, <1>8, <1>9, <1>10, <1>11, <1>12, <1>13, <1>14
       DEF TerminalNext

LEMMA StoredSound == ASSUME NEW s \in Seq(Snaps), NEW x \in ToSet(s)
                     PROVE  x.row \in DOMAIN x.lines /\ x.col \in 0 .. x.lines[x.row]
<1>1. PICK i \in DOMAIN s : x = s[i] BY DEF ToSet
<1>2. x \in Snaps BY <1>1
<1>3. x.lines \in Buffers /\ x.row \in DOMAIN x.lines /\ x.col \in Nat /\ x.col <= x.lines[x.row]
  BY <1>2 DEF Snaps, At
<1>4. x.lines[x.row] \in Nat BY <1>3, BuffersAre
<1>5. QED BY <1>3, <1>4

LEMMA SoundIsKept == TerminalInv => TerminalKept
<1> SUFFICES ASSUME TerminalInv PROVE TerminalKept OBVIOUS
<1>1. Sound(ed) BY DEF TerminalInv
<1>2. ed.row \in DOMAIN ed.lines /\ ed.col \in 0 .. Current(ed) BY <1>1, CursorIs
<1>3. /\ ed.menuAt = 0 \/ ed.menuAt < Len(ed.menu)
      /\ ed.search.at = 0 \/ ed.search.at < ed.search.matches
      /\ ed.historyAt < Len(ed.history) => ed.draft # NoDraft
      /\ ed.undo \in Seq(Snaps) /\ ed.redo \in Seq(Snaps)
  BY <1>1 DEF Sound
<1>4. EditorSound(ed) BY <1>2, <1>3, StoredSound DEF EditorSound
<1>5. QED BY <1>4 DEF TerminalInv, TerminalKept, TerminalRestored, RawAccounted, CursorInBuffer

(* Terminal: over every sequence of keys, questions, signals and crashes, the line that is
   edited is sound; raw mode is on while it is edited, and at other times only for an open
   menu, for the interface that a typed reason left open, or after a signal that came
   outside the prompt; bracketed paste is off when the program is gone, and raw mode too
   but for that signal (Editor.read, applyKey, select, withReason). *)
THEOREM TheTerminalIsKept == TerminalSpec => []TerminalKept
<1>1. TerminalSpec => []TerminalInv BY TerminalStarts, TerminalStep, PTL DEF TerminalSpec
<1>2. QED BY <1>1, SoundIsKept, PTL

-----------------------------------------------------------------------------
(* Egress: for every grant, request, resolver and client, nothing is dialled  *)
(* by the proxy of a command before it is checked, each connection is counted  *)
(* once, and what the kernel sends itself is what was granted, read up to its   *)
(* limit and without a secret.                                                 *)

(* Min is the least member of a set of naturals. *)
LEMMA MinIn ==
  ASSUME NEW T, T \subseteq Nat, T # {}
  PROVE  Min(T) \in T
<1>1. \E x \in T : \A y \in T : x <= y BY LeastOf
<1>2. QED BY <1>1 DEF Min

-----------------------------------------------------------------------------
(* The proxy of a command.                                                 *)

AddressScopes == {"none"} \cup {ScopeOf[l] : l \in Literals} \cup UNION {{a[i] : i \in DOMAIN a} : a \in Answers}
Places == {"none", "head", "resolving", "hello", "dialling", "relaying", "ended"}
Handlers == [at : Places, request : Requests \cup {<<>>}, address : AddressScopes, hello : Hellos \cup {<<>>}, verdicts : Nat]

Typed ==
  /\ grant \in Grants /\ conns \in [Conns -> Handlers] /\ open \subseteq Conns
  /\ stats \in [allowed : Nat, denied : Nat] /\ proxy \in {"down", "up", "refused", "stopped"}

(* What each await of a handler leaves behind is still so after the next: the request
   was admitted, then its address was looked at, then its identity was seen. *)
Admitted(r) ==
  /\ HasTarget(r) /\ Destination(r.target, r.port)
  /\ r.method # "CONNECT" => AuthorityAgrees(r)
IsTunnel(r) == r.method = "CONNECT" /\ r.port = HttpsPort
Staged(conn) ==
  /\ conn.at \in {"resolving", "hello", "dialling", "relaying"} => Admitted(conn.request)
  /\ conn.at \in {"hello", "dialling", "relaying"} => Usable(conn.address)
  /\ conn.at \in {"dialling", "relaying"} /\ IsTunnel(conn.request)
       => SniAgrees(conn.request.target.name, conn.hello)
Vetted == \A c \in Conns : Staged(conns[c])

(* A host that is understood is the one of its name. *)
LEMMA HostIs ==
  ASSUME NEW given, NormalizeHost(given) # {}
  PROVE  /\ given.form # "malformed" /\ NormalizeHost(given) = {given.name}
         /\ (CHOOSE h \in NormalizeHost(given) : TRUE) = given.name
  BY DEF NormalizeHost

(* A destination that the policy has is a domain or a literal of the grant. *)
LEMMA DestinationIs ==
  ASSUME Typed, NEW given, NEW port, Destination(given, port)
  PROVE  /\ NormalizeHost(given) # {} /\ given.name = CHOOSE h \in NormalizeHost(given) : TRUE
         /\ given.name \in AllowList(grant) /\ given.name \in Domains \cup Literals
<1>1. NormalizeHost(given) # {} BY DEF Destination
<1>2. given.name = (CHOOSE h \in NormalizeHost(given) : TRUE) /\ given.name \in AllowList(grant)
  BY <1>1, HostIs DEF Destination, Policy
<1>3. given.name \in Domains \cup Literals BY <1>2, EgressAssumption DEF AllowList, NormalizeHost, Typed
<1>4. QED BY <1>1, <1>2, <1>3

(* What is chosen among the answers is one of them and may be dialled. *)
LEMMA ChosenUsable ==
  ASSUME NEW answers \in Answers
  PROVE  Chosen(answers) \in AddressScopes /\ (Chosen(answers) # "none" => Usable(Chosen(answers)))
<1> DEFINE I == {i \in 1..Len(answers) : Usable(answers[i])}
           first == SelectInSeq(answers, Usable)
<1>1. answers \in Seq(STRING) /\ Len(answers) \in Nat /\ DOMAIN answers = 1..Len(answers)
  BY EgressAssumption
<1>2. first = IF I # {} THEN Min(I) ELSE 0 BY DEF SelectInSeq
<1>3. first # 0 => first \in I
  <2>1. I \subseteq Nat BY <1>1
  <2> HIDE DEF I, first
  <2>2. QED BY <1>2, <2>1, MinIn
<1>4. Chosen(answers) = IF Len(answers) > MaxDnsAnswers \/ first = 0 THEN "none" ELSE answers[first] BY DEF Chosen
<1>5. first # 0 => answers[first] \in AddressScopes /\ Usable(answers[first]) BY <1>1, <1>3 DEF AddressScopes
<1> HIDE DEF first
<1>6. QED BY <1>4, <1>5 DEF AddressScopes

LEMMA HandlerAt ==
  ASSUME NEW conn \in Handlers, NEW stand \in Places, NEW n \in Nat
  PROVE  LET then == [conn EXCEPT !.at = stand, !.verdicts = n]
         IN  /\ then \in Handlers /\ then.at = stand /\ then.verdicts = n
             /\ then.request = conn.request /\ then.address = conn.address /\ then.hello = conn.hello
  BY DEF Handlers

(* A refusal is one more verdict and the end of one handler. *)
LEMMA RefuseIs ==
  ASSUME Typed, NEW c \in Conns, NEW conn \in Handlers, Refuse(c, conn)
  PROVE  /\ conns' \in [Conns -> Handlers] /\ conns'[c].at = "ended" /\ conns'[c].verdicts = conn.verdicts + 1
         /\ \A d \in Conns \ {c} : conns'[d] = conns[d]
         /\ stats' \in [allowed : Nat, denied : Nat]
         /\ stats'.allowed = stats.allowed /\ stats'.denied = stats.denied + 1
<1> DEFINE then == [conn EXCEPT !.at = "ended", !.verdicts = conn.verdicts + 1]
<1>1. conn.verdicts + 1 \in Nat /\ "ended" \in Places BY DEF Handlers, Places
<1>2. then \in Handlers /\ then.at = "ended" /\ then.verdicts = conn.verdicts + 1 BY <1>1, HandlerAt
<1>3. conns' = [conns EXCEPT ![c] = then] /\ stats' = [stats EXCEPT !.denied = @ + 1] BY DEF Refuse
<1> HIDE DEF then
<1>4. QED BY <1>2, <1>3 DEF Typed

LEMMA VettedStep ==
  ASSUME Typed, Vetted, [EgressNext]_egressVars
  PROVE  Typed' /\ Vetted'
<1>0. \A c \in Conns : conns[c] \in Handlers /\ Staged(conns[c]) BY DEF Typed, Vetted
(* one handler moves and what it has seen still holds *)
<1>1. ASSUME NEW c \in Conns, conns' \in [Conns -> Handlers], \A d \in Conns \ {c} : conns'[d] = conns[d],
             Staged(conns[c]) => Staged(conns'[c]), UNCHANGED <<grant, benchmark, proxy>>,
             open' \subseteq Conns, stats' \in [allowed : Nat, denied : Nat]
      PROVE  Typed' /\ Vetted'
  <2>1. Typed' BY <1>1 DEF Typed
  <2>2. \A d \in Conns : Staged(conns'[d])
    BY <1>0, <1>1
  <2>3. \A d \in Conns : Staged(conns[d])' <=> Staged(conns'[d])
    BY <1>1 DEF Staged, Admitted, HasTarget, Destination, Policy, AllowList, AuthorityAgrees, OneHostHeader, Usable, SniAgrees
  <2>4. QED BY <2>1, <2>2, <2>3 DEF Vetted
<1>2. ASSUME NEW c \in Conns, NEW conn \in Handlers, Refuse(c, conn), UNCHANGED <<grant, benchmark, proxy>>,
             open' \subseteq Conns
      PROVE  Typed' /\ Vetted'
  BY <1>1, <1>2, RefuseIs DEF Staged
<1>3. CASE UNCHANGED egressVars
  BY <1>3 DEF egressVars, Typed, Vetted, Staged, Admitted, HasTarget, Destination, Policy, AllowList, AuthorityAgrees,
              OneHostHeader, Usable, SniAgrees
<1>4. CASE Listen
  <2>1. UNCHANGED <<grant, benchmark, conns, open, stats>> /\ proxy' \in {"up", "refused"} BY <1>4 DEF Listen
  <2>2. Typed' BY <2>1 DEF Typed
  <2>3. Vetted'
    BY <2>1 DEF Vetted, Staged, Admitted, HasTarget, Destination, Policy, AllowList, AuthorityAgrees,
                OneHostHeader, Usable, SniAgrees
  <2>4. QED BY <2>2, <2>3
<1>5. CASE StopProxy
  <2>1. proxy' = "stopped" /\ open' = {} /\ UNCHANGED <<grant, benchmark, stats>>
        /\ conns' = [c \in Conns |-> IF conns[c].at = "none" THEN NoConn ELSE [conns[c] EXCEPT !.at = "ended"]]
    BY <1>5 DEF StopProxy
  <2>2. NoConn \in Handlers BY DEF NoConn, Handlers, Places, AddressScopes
  <2>3. \A c \in Conns : conns'[c] \in Handlers /\ conns'[c].at \in {"none", "ended"}
    BY <1>0, <2>1, <2>2 DEF Handlers, Places, NoConn
  <2>4. Typed' BY <2>1, <2>3 DEF Typed
  <2>5. Vetted' BY <2>3 DEF Vetted, Staged
  <2>6. QED BY <2>4, <2>5
<1>6. ASSUME NEW c \in Conns, Handle(c) PROVE Typed' /\ Vetted'
  <2>0. conns[c] \in Handlers /\ Staged(conns[c]) BY <1>0
  <2>1. CASE Accept(c)
    <3>1. open' \subseteq Conns /\ UNCHANGED <<grant, benchmark, proxy>> BY <2>1 DEF Accept, Settled, Typed
    <3>2. CASE Refuse(c, conns[c]) BY <1>2, <2>0, <3>1, <3>2
    <3>3. CASE Goto(c, "head") /\ UNCHANGED stats
      <4>1. conns' \in [Conns -> Handlers] /\ conns'[c].at = "head" /\ \A d \in Conns \ {c} : conns'[d] = conns[d]
        BY <2>0, <3>3 DEF Goto, Typed, Handlers, Places
      <4>2. QED BY <1>1, <3>1, <3>3, <4>1 DEF Staged, Typed
    <3>4. QED BY <2>1, <3>2, <3>3 DEF Accept
  <2>2. CASE HeadFails(c) BY <1>2, <2>0, <2>2 DEF HeadFails, Settled, Typed
  <2>3. CASE DialFails(c) BY <1>2, <2>0, <2>3 DEF DialFails, Settled, Typed
  <2>4. CASE RelayEnds(c)
    <3>1. conns' \in [Conns -> Handlers] /\ conns'[c].at = "ended" /\ \A d \in Conns \ {c} : conns'[d] = conns[d]
      BY <2>0, <2>4 DEF RelayEnds, Goto, Typed, Handlers, Places
    <3>2. QED BY <1>1, <2>4, <3>1 DEF RelayEnds, Settled, Staged, Typed
  <2>5. CASE ClientCloses(c)
    <3>1. open' \subseteq Conns /\ UNCHANGED <<grant, benchmark, proxy>> BY <2>5 DEF ClientCloses, Settled, Typed
    <3>2. CASE Refuse(c, conns[c]) BY <1>2, <2>0, <3>1, <3>2
    <3>3. CASE UNCHANGED <<conns, stats>> BY <1>1, <3>1, <3>3 DEF Typed
    <3>4. QED BY <2>5, <3>2, <3>3 DEF ClientCloses
  <2>6. CASE Connected(c)
    <3>1. /\ conns[c].at = "dialling" /\ UNCHANGED <<open, grant, benchmark, proxy>>
          /\ conns' = [conns EXCEPT ![c] = [conns[c] EXCEPT !.at = "relaying", !.verdicts = @ + 1]]
          /\ stats' = [stats EXCEPT !.allowed = @ + 1]
      BY <2>0, <2>6 DEF Connected, Settled, Typed
    <3> DEFINE then == [conns[c] EXCEPT !.at = "relaying", !.verdicts = conns[c].verdicts + 1]
    <3>2. /\ then \in Handlers /\ then.at = "relaying" /\ then.request = conns[c].request
          /\ then.address = conns[c].address /\ then.hello = conns[c].hello
      <4>1. conns[c].verdicts + 1 \in Nat /\ "relaying" \in Places BY <2>0 DEF Handlers, Places
      <4>2. PICK n \in Nat : n = conns[c].verdicts + 1 BY <4>1
      <4>3. then = [conns[c] EXCEPT !.at = "relaying", !.verdicts = n] BY <4>2
      <4> HIDE DEF then
      <4>4. QED BY <2>0, <4>1, <4>3 DEF Handlers
    <3>3. /\ conns' \in [Conns -> Handlers] /\ \A d \in Conns \ {c} : conns'[d] = conns[d]
          /\ conns'[c].at = "relaying" /\ conns'[c].request = conns[c].request
          /\ conns'[c].address = conns[c].address /\ conns'[c].hello = conns[c].hello
      <4>1. conns' = [conns EXCEPT ![c] = then] BY <3>1
      <4> HIDE DEF then
      <4>2. QED BY <3>2, <4>1 DEF Typed
    <3>4. stats' \in [allowed : Nat, denied : Nat] BY <3>1 DEF Typed
    <3>5. Staged(conns'[c]) BY <2>0, <3>1, <3>3 DEF Staged
    <3>6. QED BY <1>1, <3>1, <3>3, <3>4, <3>5 DEF Typed
  <2>7. CASE HeadArrives(c)
    <3>1. PICK r \in Requests :
            LET conn == [conns[c] EXCEPT !.request = r]
            IN  IF Framed(r) /\ (r.method = "CONNECT" \/ AuthorityAgrees(r)) /\ Destination(r.target, r.port)
                THEN Approved(c, conn) ELSE Refuse(c, conn)
      BY <2>7 DEF HeadArrives
    <3> DEFINE conn == [conns[c] EXCEPT !.request = r]
    <3>2. conn \in Handlers /\ conn.request = r BY <2>0 DEF Handlers
    <3>3. UNCHANGED <<open, grant, benchmark, proxy>> /\ open' \subseteq Conns
      BY <2>7 DEF HeadArrives, Settled, Typed
    <3> HIDE DEF conn
    <3>4. CASE Refuse(c, conn) BY <1>2, <3>2, <3>3, <3>4
    <3>5. CASE Approved(c, conn) /\ (r.method = "CONNECT" \/ AuthorityAgrees(r)) /\ Destination(r.target, r.port)
      <4>1. Admitted(r) BY <3>5 DEF Admitted, HasTarget, Destination
      <4>2. CASE conns' = [conns EXCEPT ![c] = [conn EXCEPT !.at = "resolving"]] /\ UNCHANGED stats
        <5>1. [conn EXCEPT !.at = "resolving"] \in Handlers /\ [conn EXCEPT !.at = "resolving"].at = "resolving"
              /\ [conn EXCEPT !.at = "resolving"].request = r
          BY <3>2 DEF Handlers, Places
        <5>2. conns' \in [Conns -> Handlers] /\ (\A d \in Conns \ {c} : conns'[d] = conns[d])
              /\ conns'[c].at = "resolving" /\ conns'[c].request = r
          BY <4>2, <5>1 DEF Typed
        <5>3. Staged(conns'[c]) BY <4>1, <5>2 DEF Staged
        <5>4. QED BY <1>1, <3>3, <4>2, <5>2, <5>3 DEF Typed
      <4>3. ASSUME NEW l \in Literals, l = r.target.name, Usable(ScopeOf[l]),
                   conns' = [conns EXCEPT ![c] = Onward([conn EXCEPT !.address = ScopeOf[l]])], UNCHANGED stats
            PROVE  Typed' /\ Vetted'
        <5>1. /\ [conn EXCEPT !.address = ScopeOf[l]] \in Handlers
              /\ [conn EXCEPT !.address = ScopeOf[l]].address = ScopeOf[l]
              /\ [conn EXCEPT !.address = ScopeOf[l]].request = r
          BY <3>2 DEF Handlers, AddressScopes
        <5>2. PICK there \in Handlers : there = Onward([conn EXCEPT !.address = ScopeOf[l]])
          BY <5>1 DEF Onward, Handlers, Places
        <5>3. /\ there.request = r /\ there.address = ScopeOf[l]
              /\ there.at \in {"hello", "dialling"} /\ (there.at = "dialling" => ~IsTunnel(r))
          BY <5>1, <5>2 DEF Onward, Handlers, IsTunnel
        <5>4. conns' \in [Conns -> Handlers] /\ (\A d \in Conns \ {c} : conns'[d] = conns[d]) /\ conns'[c] = there
          BY <4>3, <5>2 DEF Typed
        <5>5. Staged(conns'[c]) BY <4>1, <4>3, <5>3, <5>4 DEF Staged
        <5>6. QED BY <1>1, <3>3, <4>3, <5>4, <5>5 DEF Typed
      <4>4. r.target.name = CHOOSE h \in NormalizeHost(conn.request.target) : TRUE
        BY <3>2, <3>5, DestinationIs
      <4>5. CASE Refuse(c, conn) BY <1>2, <3>2, <3>3, <4>5
      <4>6. r.target.name \in Domains \cup Literals BY <3>5, DestinationIs
      <4>7. QED BY <3>5, <4>2, <4>3, <4>4, <4>5, <4>6 DEF Approved
    <3>6. QED BY <3>1, <3>4, <3>5 DEF conn
  <2>8. CASE Resolve(c)
    <3>1. /\ conns[c].at = "resolving" /\ UNCHANGED <<open, grant, benchmark, proxy>> /\ open' \subseteq Conns
      BY <2>8 DEF Resolve, Settled, Typed
    <3>2. PICK answers \in Answers :
            LET conn == [conns[c] EXCEPT !.address = Chosen(answers)]
            IN  IF conn.address = "none" THEN Refuse(c, conn)
                ELSE conns' = [conns EXCEPT ![c] = Onward(conn)] /\ UNCHANGED stats
      BY <2>8 DEF Resolve
    <3> DEFINE conn == [conns[c] EXCEPT !.address = Chosen(answers)]
    <3>3. /\ conn \in Handlers /\ conn.request = conns[c].request /\ conn.address = Chosen(answers)
          /\ conn.address # "none" => Usable(conn.address)
      BY <2>0, ChosenUsable DEF Handlers
    <3>4. /\ conn.address = "none" => Refuse(c, conn)
          /\ conn.address # "none" => conns' = [conns EXCEPT ![c] = Onward(conn)] /\ UNCHANGED stats
      BY <3>2
    <3> HIDE DEF conn
    <3>5. CASE conn.address = "none" BY <1>2, <3>1, <3>3, <3>4, <3>5
    <3>6. CASE conn.address # "none"
      <4>1. PICK there \in Handlers : there = Onward(conn) BY <3>3 DEF Onward, Handlers, Places
      <4>2. /\ there.request = conn.request /\ there.address = conn.address
            /\ there.at \in {"hello", "dialling"} /\ (there.at = "dialling" => ~IsTunnel(conn.request))
        BY <3>3, <4>1 DEF Onward, Handlers, IsTunnel
      <4>3. conns' \in [Conns -> Handlers] /\ (\A d \in Conns \ {c} : conns'[d] = conns[d]) /\ conns'[c] = there
        BY <3>4, <3>6, <4>1 DEF Typed
      <4>4. Staged(conns'[c]) BY <2>0, <3>1, <3>3, <3>6, <4>2, <4>3 DEF Staged
      <4>5. QED BY <1>1, <3>1, <3>4, <3>6, <4>3, <4>4 DEF Typed
    <3>7. QED BY <3>5, <3>6
  <2>9. CASE HelloArrives(c)
    <3>1. conns[c].at = "hello" /\ UNCHANGED <<open, grant, benchmark, proxy>> /\ open' \subseteq Conns
      BY <2>9 DEF HelloArrives, Settled, Typed
    <3>2. PICK hello \in Hellos :
            LET conn == [conns[c] EXCEPT !.hello = hello]
            IN  IF SniAgrees(HostOf(c), hello)
                THEN conns' = [conns EXCEPT ![c] = [conn EXCEPT !.at = "dialling"]] /\ UNCHANGED stats
                ELSE Refuse(c, conn)
      BY <2>9 DEF HelloArrives
    <3> DEFINE conn == [conns[c] EXCEPT !.hello = hello]
    <3>3. /\ conn \in Handlers /\ conn.request = conns[c].request /\ conn.address = conns[c].address
          /\ conn.hello = hello
      BY <2>0 DEF Handlers
    <3>4. \/ Refuse(c, conn)
          \/ /\ SniAgrees(HostOf(c), hello) /\ UNCHANGED stats
             /\ conns' = [conns EXCEPT ![c] = [conn EXCEPT !.at = "dialling"]]
      BY <3>2
    <3> HIDE DEF conn
    <3>5. CASE Refuse(c, conn) BY <1>2, <3>1, <3>3, <3>5
    <3>6. CASE /\ SniAgrees(HostOf(c), hello) /\ UNCHANGED stats
               /\ conns' = [conns EXCEPT ![c] = [conn EXCEPT !.at = "dialling"]]
      <4>1. PICK there \in Handlers : there = [conn EXCEPT !.at = "dialling"] BY <3>3 DEF Handlers, Places
      <4>2. /\ there.request = conn.request /\ there.address = conn.address
            /\ there.at = "dialling" /\ there.hello = hello
        BY <3>3, <4>1 DEF Handlers
      <4>3. conns' \in [Conns -> Handlers] /\ (\A d \in Conns \ {c} : conns'[d] = conns[d]) /\ conns'[c] = there
        BY <3>6, <4>1 DEF Typed
      <4>4. Admitted(conns[c].request) /\ Usable(conns[c].address) BY <2>0, <3>1 DEF Staged
      <4>5. HostOf(c) = conns[c].request.target.name BY <4>4, HostIs DEF HostOf, Admitted, HasTarget
      <4>6. Staged(conns'[c]) BY <3>3, <3>6, <4>2, <4>3, <4>4, <4>5 DEF Staged
      <4>7. QED BY <1>1, <3>1, <3>6, <4>3, <4>6 DEF Typed
    <3>7. QED BY <3>4, <3>5, <3>6
  <2>10. QED BY <1>6, <2>1, <2>2, <2>3, <2>4, <2>5, <2>6, <2>7, <2>8, <2>9 DEF Handle
<1>7. QED BY <1>3, <1>4, <1>5, <1>6 DEF EgressNext

(* Nothing is dialled but an address that may be reached, of a host that the grant names
   and whose identity was seen, whatever each connection awaited in between
   (EgressProxy.handle, resolveAndCheck and the reading of the ClientHello). *)
THEOREM DialsAreChecked == EgressInit /\ [][EgressNext]_egressVars => []DialsChecked
<1>1. EgressInit => Typed /\ Vetted
  <2>1. SUFFICES ASSUME EgressInit PROVE Typed /\ Vetted OBVIOUS
  <2>2. NoConn \in Handlers /\ NoConn.at = "none" BY DEF NoConn, Handlers, Places, AddressScopes
  <2>3. conns \in [Conns -> Handlers] /\ \A c \in Conns : conns[c].at = "none" BY <2>1, <2>2 DEF EgressInit
  <2>4. QED BY <2>1, <2>3 DEF EgressInit, Typed, Vetted, Staged
<1>2. Typed /\ Vetted /\ [EgressNext]_egressVars => Typed' /\ Vetted' BY VettedStep
<1>3. Typed /\ Vetted => DialsChecked
  <2>1. SUFFICES ASSUME Typed, Vetted, NEW c \in Conns, conns[c].at \in {"dialling", "relaying"}
                 PROVE  LET conn == conns[c]
                            host == conn.request.target.name
                        IN  /\ \E given \in grant : given.name = host
                            /\ conn.request.target.form # "malformed"
                            /\ \A given \in grant : given.form # "malformed"
                            /\ conn.request.port \in {HttpPort, HttpsPort}
                            /\ conn.address = "global" \/ (benchmark /\ conn.address = "benchmarking")
                            /\ IF conn.request.method # "CONNECT"
                               THEN conn.request.headers[1].host.name = host
                               ELSE conn.request.port = HttpsPort /\ host \in Domains =>
                                      conn.hello.kind = "sni" /\ conn.hello.name.name = host /\ ~conn.hello.encrypted
    BY DEF DialsChecked
  <2> DEFINE conn == conns[c]
             r == conn.request
  <2>2. Admitted(r) /\ Usable(conn.address) /\ (IsTunnel(r) => SniAgrees(r.target.name, conn.hello))
    BY <2>1 DEF Vetted, Staged
  <2>3. r.target.form # "malformed" /\ NormalizeHost(r.target) = {r.target.name} BY <2>2, HostIs DEF Admitted, HasTarget
  <2>4. r.target.name \in AllowList(grant) /\ r.port \in {HttpPort, HttpsPort}
    BY <2>2, <2>3 DEF Admitted, Destination, Policy
  <2>5. (\A given \in grant : given.form # "malformed") /\ \E given \in grant : given.name = r.target.name
    BY <2>4 DEF AllowList, NormalizeHost
  <2>6. r.method # "CONNECT" => r.headers[1].host.name = r.target.name
    <3>1. SUFFICES ASSUME r.method # "CONNECT" PROVE r.headers[1].host.name = r.target.name OBVIOUS
    <3>2. NormalizeHost(r.headers[1].host) = {r.target.name} BY <2>2, <2>3, <3>1 DEF Admitted, AuthorityAgrees
    <3>3. QED BY <3>2 DEF NormalizeHost
  <2>7. r.method = "CONNECT" /\ r.port = HttpsPort /\ r.target.name \in Domains
          => conn.hello.kind = "sni" /\ conn.hello.name.name = r.target.name /\ ~conn.hello.encrypted
    BY <2>2 DEF IsTunnel, SniAgrees, HelloNames, NormalizeHost
  <2>8. conn.address = "global" \/ (benchmark /\ conn.address = "benchmarking") BY <2>2 DEF Usable
  <2>9. QED BY <2>3, <2>4, <2>5, <2>6, <2>7, <2>8
<1>4. QED BY <1>1, <1>2, <1>3, PTL

(* One verdict to a connection: none while its handler works, one when it relays or has
   ended, unless the proxy was stopped, which leaves no handler at work. *)
Undecided == {"none", "head", "resolving", "hello", "dialling"}
Told(c) == conns[c].verdicts = 1
Judged ==
  /\ \A c \in Conns :
       /\ conns[c].verdicts \in {0, 1}
       /\ conns[c].at \in Undecided => ~Told(c)
       /\ conns[c].at = "relaying" \/ (proxy = "up" /\ conns[c].at = "ended") => Told(c)
       /\ proxy # "up" => conns[c].at \in {"none", "ended"}
       /\ proxy = "down" => conns[c].at = "none"
       /\ c \in open => conns[c].at # "none"
  /\ proxy # "up" => open = {}
  /\ stats.allowed + stats.denied = Cardinality({c \in Conns : Told(c)})
  /\ IsFiniteSet(open) /\ Cardinality(open) <= MaxConnections

(* The handler of one connection goes to another place, and is judged if that is an end. *)
Goes(c, stand, n) ==
  /\ conns'[c].at = stand /\ conns'[c].verdicts = conns[c].verdicts + n
  /\ \A d \in Conns \ {c} : conns'[d] = conns[d]
  /\ stats' \in [allowed : Nat, denied : Nat]
  /\ stats'.allowed + stats'.denied = stats.allowed + stats.denied + n

LEMMA GoesOn ==
  ASSUME Typed, NEW c \in Conns, NEW conn \in Handlers, conn.verdicts = conns[c].verdicts,
         conns' = [conns EXCEPT ![c] = conn], UNCHANGED stats
  PROVE  Goes(c, conn.at, 0)
<1>1. conns'[c] = conn /\ \A d \in Conns \ {c} : conns'[d] = conns[d] BY DEF Typed
<1>2. conn.verdicts = conns[c].verdicts + 0 BY DEF Handlers
<1>3. stats.allowed + stats.denied = stats.allowed + stats.denied + 0 BY DEF Typed
<1>4. QED BY <1>1, <1>2, <1>3 DEF Goes, Typed

LEMMA GoesEnded ==
  ASSUME Typed, NEW c \in Conns, NEW conn \in Handlers, conn.verdicts = conns[c].verdicts, Refuse(c, conn)
  PROVE  Goes(c, "ended", 1)
<1>1. stats.allowed \in Nat /\ stats.denied \in Nat BY DEF Typed
<1>2. /\ conns'[c].at = "ended" /\ conns'[c].verdicts = conn.verdicts + 1
      /\ \A d \in Conns \ {c} : conns'[d] = conns[d]
      /\ stats' \in [allowed : Nat, denied : Nat]
      /\ stats'.allowed = stats.allowed /\ stats'.denied = stats.denied + 1
  BY RefuseIs
<1>3. stats'.allowed + stats'.denied = stats.allowed + stats.denied + 1 BY <1>1, <1>2
<1>4. QED BY <1>2, <1>3 DEF Goes

(* Every step of a handler is one of a few moves. *)
LEMMA HandlerMoves ==
  ASSUME Typed, Judged, NEW c \in Conns, Handle(c)
  PROVE  /\ UNCHANGED proxy
         /\ \/ /\ proxy = "up" /\ conns[c].at \in Undecided
               /\ \/ Goes(c, "ended", 1) \/ Goes(c, "relaying", 1)
                  \/ \E stand \in {"head", "resolving", "hello", "dialling"} : Goes(c, stand, 0)
            \/ conns[c].at = "relaying" /\ Goes(c, "ended", 0)
            \/ UNCHANGED <<conns, stats>>
         /\ \/ open' \subseteq open
            \/ open' = open \cup {c} /\ Cardinality(open) < MaxConnections /\ proxy = "up" /\ Goes(c, "head", 0)
<1>0. conns[c] \in Handlers BY DEF Typed
<1>1. CASE Accept(c)
  <2>1. proxy = "up" /\ conns[c].at = "none" /\ UNCHANGED proxy BY <1>1 DEF Accept, Settled
  <2>2. CASE Refuse(c, conns[c]) /\ UNCHANGED open BY <1>0, <2>1, <2>2, GoesEnded DEF Undecided
  <2>3. CASE Goto(c, "head") /\ open' = open \cup {c} /\ UNCHANGED stats /\ ~(Cardinality(open) >= MaxConnections)
    <3>1. Goes(c, "head", 0)
      <4>1. PICK conn \in Handlers : conn = [conns[c] EXCEPT !.at = "head"] BY <1>0 DEF Handlers, Places
      <4>2. conn.at = "head" /\ conn.verdicts = conns[c].verdicts BY <1>0, <4>1 DEF Handlers
      <4>3. conns' = [conns EXCEPT ![c] = conn] BY <1>0, <2>3, <4>1 DEF Goto, Typed
      <4>4. QED BY <2>3, <4>2, <4>3, GoesOn
    <3>2. Cardinality(open) < MaxConnections
      <4>1. Cardinality(open) \in Nat BY FS_CardinalityType DEF Judged
      <4>2. QED BY <2>3, <4>1, EgressAssumption
    <3>3. QED BY <2>1, <2>3, <3>1, <3>2 DEF Undecided
  <2>4. QED BY <1>1, <2>2, <2>3 DEF Accept
<1>2. ASSUME conns[c].at \in Undecided \ {"none"} PROVE proxy = "up" BY <1>2 DEF Judged, Undecided
<1>3. CASE HeadFails(c) \/ DialFails(c)
  <2>1. conns[c].at \in Undecided \ {"none"} /\ Refuse(c, conns[c]) /\ UNCHANGED <<open, proxy>>
    BY <1>3 DEF HeadFails, DialFails, Settled, Undecided
  <2>2. QED BY <1>0, <1>2, <2>1, GoesEnded
<1>4. CASE HeadArrives(c)
  <2>1. conns[c].at = "head" /\ UNCHANGED <<open, proxy>> BY <1>4 DEF HeadArrives, Settled
  <2>2. PICK r \in Requests : \/ Approved(c, [conns[c] EXCEPT !.request = r]) /\ Destination(r.target, r.port)
                              \/ Refuse(c, [conns[c] EXCEPT !.request = r])
    BY <1>4 DEF HeadArrives
  <2>3. PICK conn \in Handlers : conn = [conns[c] EXCEPT !.request = r] BY <1>0 DEF Handlers
  <2>4. conn.verdicts = conns[c].verdicts /\ conn.request = r BY <1>0, <2>3 DEF Handlers
  <2>5. CASE Refuse(c, conn) BY <1>2, <2>1, <2>4, <2>5, GoesEnded DEF Undecided
  <2>6. CASE conns' = [conns EXCEPT ![c] = [conn EXCEPT !.at = "resolving"]] /\ UNCHANGED stats
    <3>1. PICK there \in Handlers : there = [conn EXCEPT !.at = "resolving"] BY DEF Handlers, Places
    <3>2. there.at = "resolving" /\ there.verdicts = conns[c].verdicts BY <2>4, <3>1 DEF Handlers
    <3>3. Goes(c, "resolving", 0) BY <2>6, <3>1, <3>2, GoesOn
    <3>4. QED BY <1>2, <2>1, <3>3 DEF Undecided
  <2>7. ASSUME NEW l \in Literals, conns' = [conns EXCEPT ![c] = Onward([conn EXCEPT !.address = ScopeOf[l]])],
               UNCHANGED stats
        PROVE  \E stand \in {"hello", "dialling"} : Goes(c, stand, 0)
    <3>1. PICK here \in Handlers : here = [conn EXCEPT !.address = ScopeOf[l]] BY DEF Handlers, AddressScopes
    <3>2. PICK there \in Handlers : there = Onward(here) BY <3>1 DEF Onward, Handlers, Places
    <3>3. there.at \in {"hello", "dialling"} /\ there.verdicts = conns[c].verdicts
      BY <2>4, <3>1, <3>2 DEF Onward, Handlers
    <3>4. Goes(c, there.at, 0) BY <2>7, <3>1, <3>2, <3>3, GoesOn
    <3>5. QED BY <3>3, <3>4
  <2>8. CASE Approved(c, conn) /\ Destination(r.target, r.port)
    <3>1. /\ r.target.name = CHOOSE h \in NormalizeHost(conn.request.target) : TRUE
          /\ r.target.name \in Domains \cup Literals
      BY <2>4, <2>8, DestinationIs
    <3>2. QED BY <1>2, <2>1, <2>5, <2>6, <2>7, <2>8, <3>1 DEF Approved, Undecided
  <2>9. QED BY <2>2, <2>3, <2>5, <2>8
<1>5. CASE Resolve(c)
  <2>1. conns[c].at = "resolving" /\ UNCHANGED <<open, proxy>> BY <1>5 DEF Resolve, Settled
  <2>2. PICK answers \in Answers :
          \/ Refuse(c, [conns[c] EXCEPT !.address = Chosen(answers)])
          \/ /\ conns' = [conns EXCEPT ![c] = Onward([conns[c] EXCEPT !.address = Chosen(answers)])]
             /\ UNCHANGED stats
    BY <1>5 DEF Resolve
  <2>3. Chosen(answers) \in AddressScopes BY ChosenUsable
  <2>4. PICK conn \in Handlers : conn = [conns[c] EXCEPT !.address = Chosen(answers)] BY <1>0, <2>3 DEF Handlers
  <2>5. conn.verdicts = conns[c].verdicts BY <1>0, <2>4 DEF Handlers
  <2>6. CASE Refuse(c, conn) BY <1>2, <2>1, <2>5, <2>6, GoesEnded DEF Undecided
  <2>7. CASE conns' = [conns EXCEPT ![c] = Onward(conn)] /\ UNCHANGED stats
    <3>1. PICK there \in Handlers : there = Onward(conn) BY DEF Onward, Handlers, Places
    <3>2. there.at \in {"hello", "dialling"} /\ there.verdicts = conns[c].verdicts
      BY <2>5, <3>1 DEF Onward, Handlers
    <3>3. Goes(c, there.at, 0) BY <2>7, <3>1, <3>2, GoesOn
    <3>4. QED BY <1>2, <2>1, <3>2, <3>3 DEF Undecided
  <2>8. QED BY <2>2, <2>4, <2>6, <2>7
<1>6. CASE HelloArrives(c)
  <2>1. conns[c].at = "hello" /\ UNCHANGED <<open, proxy>> BY <1>6 DEF HelloArrives, Settled
  <2>2. PICK hello \in Hellos :
          \/ Refuse(c, [conns[c] EXCEPT !.hello = hello])
          \/ /\ conns' = [conns EXCEPT ![c] = [[conns[c] EXCEPT !.hello = hello] EXCEPT !.at = "dialling"]]
             /\ UNCHANGED stats
    BY <1>6 DEF HelloArrives
  <2>3. PICK conn \in Handlers : conn = [conns[c] EXCEPT !.hello = hello] BY <1>0 DEF Handlers
  <2>4. conn.verdicts = conns[c].verdicts BY <1>0, <2>3 DEF Handlers
  <2>5. CASE Refuse(c, conn) BY <1>2, <2>1, <2>4, <2>5, GoesEnded DEF Undecided
  <2>6. CASE conns' = [conns EXCEPT ![c] = [conn EXCEPT !.at = "dialling"]] /\ UNCHANGED stats
    <3>1. PICK there \in Handlers : there = [conn EXCEPT !.at = "dialling"] BY DEF Handlers, Places
    <3>2. there.at = "dialling" /\ there.verdicts = conns[c].verdicts BY <2>4, <3>1 DEF Handlers
    <3>3. Goes(c, "dialling", 0) BY <2>6, <3>1, <3>2, GoesOn
    <3>4. QED BY <1>2, <2>1, <3>3 DEF Undecided
  <2>7. QED BY <2>2, <2>3, <2>5, <2>6
<1>7. CASE Connected(c)
  <2>1. /\ conns[c].at = "dialling" /\ UNCHANGED <<open, proxy>>
        /\ stats' = [stats EXCEPT !.allowed = @ + 1]
        /\ conns' = [conns EXCEPT ![c] = [conns[c] EXCEPT !.at = "relaying", !.verdicts = @ + 1]]
    BY <1>0, <1>7 DEF Connected, Settled, Typed
  <2>2. /\ conns'[c].at = "relaying" /\ conns'[c].verdicts = conns[c].verdicts + 1
        /\ \A d \in Conns \ {c} : conns'[d] = conns[d]
    BY <1>0, <2>1 DEF Typed, Handlers
  <2>3. stats' \in [allowed : Nat, denied : Nat] /\ stats'.allowed = stats.allowed + 1 /\ stats'.denied = stats.denied
    BY <2>1 DEF Typed
  <2>4. stats'.allowed + stats'.denied = stats.allowed + stats.denied + 1
    <3>1. stats.allowed \in Nat /\ stats.denied \in Nat BY DEF Typed
    <3>2. QED BY <2>3, <3>1
  <2>5. Goes(c, "relaying", 1) BY <2>2, <2>3, <2>4 DEF Goes
  <2>6. QED BY <1>2, <2>1, <2>5 DEF Undecided
<1>8. CASE RelayEnds(c)
  <2>1. conns[c].at = "relaying" /\ UNCHANGED <<open, stats, proxy>> /\ Goto(c, "ended")
    BY <1>8 DEF RelayEnds, Settled
  <2>2. PICK conn \in Handlers : conn = [conns[c] EXCEPT !.at = "ended"] BY <1>0 DEF Handlers, Places
  <2>3. conn.at = "ended" /\ conn.verdicts = conns[c].verdicts BY <1>0, <2>2 DEF Handlers
  <2>4. conns' = [conns EXCEPT ![c] = conn] BY <1>0, <2>1, <2>2 DEF Goto, Typed
  <2>5. QED BY <2>1, <2>3, <2>4, GoesOn
<1>9. CASE ClientCloses(c)
  <2>1. open' \subseteq open /\ UNCHANGED proxy BY <1>9 DEF ClientCloses, Settled
  <2>2. CASE conns[c].at \in {"head", "hello"} /\ Refuse(c, conns[c]) BY <1>0, <1>2, <2>1, <2>2, GoesEnded DEF Undecided
  <2>3. QED BY <1>9, <2>1, <2>2 DEF ClientCloses
<1>10. QED BY <1>1, <1>3, <1>4, <1>5, <1>6, <1>7, <1>8, <1>9 DEF Handle

LEMMA JudgedStep ==
  ASSUME Typed, Judged, [EgressNext]_egressVars
  PROVE  Judged'
<1> DEFINE Those == {c \in Conns : Told(c)}
<1>0. /\ IsFiniteSet(Those) /\ Cardinality(Those) \in Nat /\ IsFiniteSet(open) /\ Cardinality(open) \in Nat
      /\ MaxConnections \in Nat /\ IsFiniteSet(Conns) /\ open \subseteq Conns
  BY EgressAssumption, FS_Subset, FS_CardinalityType DEF Typed
<1>1. CASE UNCHANGED egressVars BY <1>1 DEF egressVars, Judged, Told
<1>2. CASE Listen
  <2>1. proxy = "down" /\ UNCHANGED <<conns, open, stats>> BY <1>2 DEF Listen
  <2>2. proxy' \in {"up", "refused"} BY <1>2 DEF Listen
  <2>3. QED BY <2>1, <2>2 DEF Judged, Told, Undecided
<1>3. CASE StopProxy
  <2>1. /\ proxy' = "stopped" /\ open' = {} /\ UNCHANGED stats
        /\ conns' = [c \in Conns |-> IF conns[c].at = "none" THEN NoConn ELSE [conns[c] EXCEPT !.at = "ended"]]
    BY <1>3 DEF StopProxy
  <2>2. ASSUME NEW c \in Conns
        PROVE  /\ conns'[c].verdicts = conns[c].verdicts /\ conns'[c].at \in {"none", "ended"}
               /\ conns'[c].at = "none" => conns[c].at = "none"
    <3>1. conns[c] \in Handlers BY DEF Typed
    <3>2. CASE conns[c].at = "none"
      <4>1. conns[c].verdicts = 0 BY <3>2 DEF Judged, Undecided, Told
      <4>2. QED BY <2>1, <3>2, <4>1 DEF NoConn
    <3>3. CASE conns[c].at # "none" BY <2>1, <3>1, <3>3 DEF Handlers
    <3>4. QED BY <3>2, <3>3
  <2>3. Those' = Those BY <2>2 DEF Told
  <2>4. Cardinality({}) = 0 /\ IsFiniteSet({}) BY FS_EmptySet
  <2>5. Cardinality(open') <= MaxConnections /\ IsFiniteSet(open') BY <1>0, <2>1, <2>4
  <2>6. stats'.allowed + stats'.denied = Cardinality({c \in Conns : Told(c)'}) BY <2>1, <2>3 DEF Judged
  <2>7. QED BY <2>1, <2>2, <2>5, <2>6 DEF Judged, Told, Undecided
(* one handler goes on, or is judged *)
<1>4. ASSUME NEW c \in Conns, NEW stand \in {"head", "resolving", "hello", "dialling"}, Goes(c, stand, 0),
             conns[c].at \in Undecided
      PROVE  ~Told(c) /\ ~Told(c)' /\ Those' = Those /\ stats'.allowed + stats'.denied = Cardinality(Those')
  <2>1. ~Told(c) /\ conns[c].verdicts \in {0, 1} BY <1>4 DEF Judged
  <2>2. conns'[c].verdicts = conns[c].verdicts BY <1>4, <2>1 DEF Goes
  <2>3. Those' = Those BY <1>4, <2>2 DEF Goes, Told
  <2>4. stats'.allowed + stats'.denied = stats.allowed + stats.denied BY <1>4 DEF Goes, Typed
  <2>5. QED BY <2>1, <2>2, <2>3, <2>4 DEF Judged, Told
<1>5. ASSUME NEW c \in Conns, NEW stand, Goes(c, stand, 1), conns[c].at \in Undecided
      PROVE  Told(c)' /\ stats'.allowed + stats'.denied = Cardinality(Those')
  <2>1. ~Told(c) /\ conns[c].verdicts \in {0, 1} BY <1>5 DEF Judged
  <2>2. conns'[c].verdicts = 1 BY <1>5, <2>1 DEF Goes, Told
  <2>3. Those' = Those \cup {c} BY <1>5, <2>2 DEF Goes, Told
  <2>4. Cardinality(Those \cup {c}) = Cardinality(Those) + 1 BY <1>0, <2>1, FS_AddElement
  <2>5. stats'.allowed + stats'.denied = stats.allowed + stats.denied + 1 BY <1>5 DEF Goes
  <2>6. QED BY <2>2, <2>3, <2>4, <2>5 DEF Judged, Told
<1>6. ASSUME NEW c \in Conns, Handle(c) PROVE Judged'
  <2>1. UNCHANGED proxy BY <1>6, HandlerMoves
  <2>2. IsFiniteSet(open') /\ Cardinality(open') <= MaxConnections
    <3>1. CASE open' \subseteq open
      <4>1. Cardinality(open') <= Cardinality(open) /\ IsFiniteSet(open') /\ Cardinality(open') \in Nat
        BY <1>0, <3>1, FS_Subset, FS_CardinalityType
      <4>2. QED BY <1>0, <4>1 DEF Judged
    <3>2. CASE open' = open \cup {c} /\ Cardinality(open) < MaxConnections
      <4>1. IsFiniteSet(open') /\ Cardinality(open') = IF c \in open THEN Cardinality(open) ELSE Cardinality(open) + 1
        BY <1>0, <3>2, FS_AddElement
      <4>2. QED BY <1>0, <3>2, <4>1
    <3>3. QED BY <1>6, <3>1, <3>2, HandlerMoves
  <2>3. proxy # "up" => open' = {} BY <1>6, HandlerMoves DEF Judged
  <2>4. \A d \in open' : d # c => d \in open BY <1>6, HandlerMoves
  <2>5. conns[c].verdicts \in {0, 1} BY DEF Judged
  <2>6. ASSUME NEW stand \in {"ended", "relaying"}, Goes(c, stand, 1), conns[c].at \in Undecided
        PROVE  Judged'
    <3>1. Told(c)' /\ stats'.allowed + stats'.denied = Cardinality(Those') BY <1>5, <2>6
    <3>2. conns'[c].at = stand /\ conns'[c].verdicts = 1 /\ \A d \in Conns \ {c} : conns'[d] = conns[d]
      BY <2>6, <3>1 DEF Goes, Told
    <3>3. proxy = "up" BY <1>6, <2>6, <3>2, HandlerMoves DEF Judged, Undecided, Told
    <3>4. QED BY <2>1, <2>2, <2>4, <3>1, <3>2, <3>3 DEF Judged, Told, Undecided
  <2>7. ASSUME NEW stand \in {"head", "resolving", "hello", "dialling"}, Goes(c, stand, 0), conns[c].at \in Undecided,
               proxy = "up"
        PROVE  Judged'
    <3>1. ~Told(c) /\ ~Told(c)' /\ stats'.allowed + stats'.denied = Cardinality(Those') BY <1>4, <2>7
    <3>2. conns'[c].at = stand /\ \A d \in Conns \ {c} : conns'[d] = conns[d] BY <2>7 DEF Goes
    <3>3. conns'[c].verdicts = conns[c].verdicts BY <2>5, <2>7 DEF Goes
    <3>4. QED BY <2>1, <2>2, <2>4, <2>5, <2>7, <3>1, <3>2, <3>3 DEF Judged, Told, Undecided
  <2>8. CASE conns[c].at = "relaying" /\ Goes(c, "ended", 0)
    <3>1. /\ conns'[c].at = "ended" /\ conns'[c].verdicts = conns[c].verdicts
          /\ \A d \in Conns \ {c} : conns'[d] = conns[d]
      BY <2>5, <2>8 DEF Goes
    <3>2. Those' = Those BY <3>1 DEF Told
    <3>3. stats'.allowed + stats'.denied = stats.allowed + stats.denied BY <2>8 DEF Goes, Typed
    <3>4. stats'.allowed + stats'.denied = Cardinality(Those') BY <3>2, <3>3 DEF Judged
    <3>5. Told(c) /\ proxy = "up" BY <2>8 DEF Judged
    <3>6. QED BY <2>1, <2>2, <2>4, <2>5, <3>1, <3>4, <3>5 DEF Judged, Told, Undecided
  <2>9. CASE UNCHANGED <<conns, stats>>
    <3>1. Those' = Those BY <2>9 DEF Told
    <3>2. c \in open' => c \in open \/ conns'[c].at = "head" BY <1>6, HandlerMoves DEF Goes
    <3>3. stats'.allowed + stats'.denied = Cardinality(Those') BY <2>9, <3>1 DEF Judged
    <3>4. QED BY <2>1, <2>2, <2>3, <2>4, <2>9, <3>2, <3>3 DEF Judged, Told, Undecided
  <2>10. QED BY <1>6, <2>6, <2>7, <2>8, <2>9, HandlerMoves
<1>7. QED BY <1>1, <1>2, <1>3, <1>6 DEF EgressNext

(* Every connection is counted once, by one verdict, however it ends, and no more clients
   are served than the limit (EgressProxy.finish and its callers; the summary of an execution). *)
THEOREM TheSummaryAddsUp == EgressInit /\ [][EgressNext]_egressVars => []VerdictsAddUp
<1>1. EgressInit => Typed /\ Vetted /\ Judged
  <2>1. SUFFICES ASSUME EgressInit PROVE Typed /\ Vetted /\ Judged OBVIOUS
  <2>2. NoConn \in Handlers /\ NoConn.at = "none" /\ NoConn.verdicts = 0 BY DEF NoConn, Handlers, Places, AddressScopes
  <2>3. conns \in [Conns -> Handlers] /\ \A c \in Conns : conns[c].at = "none" /\ conns[c].verdicts = 0
    BY <2>1, <2>2 DEF EgressInit
  <2>4. Typed /\ Vetted BY <2>1, <2>3 DEF EgressInit, Typed, Vetted, Staged
  <2>5. {c \in Conns : Told(c)} = {} BY <2>3 DEF Told
  <2>6. IsFiniteSet({}) /\ Cardinality({}) = 0 BY FS_EmptySet
  <2>7. stats.allowed + stats.denied = Cardinality({c \in Conns : Told(c)}) BY <2>1, <2>5, <2>6 DEF EgressInit
  <2>8. Cardinality(open) <= MaxConnections BY <2>1, <2>6, EgressAssumption DEF EgressInit
  <2>9. QED BY <2>1, <2>3, <2>4, <2>6, <2>7, <2>8 DEF EgressInit, Judged, Told, Undecided
<1>2. Typed /\ Vetted /\ [EgressNext]_egressVars => Typed' /\ Vetted' BY VettedStep
<1>3. Typed /\ Judged /\ [EgressNext]_egressVars => Judged' BY JudgedStep
<1>4. Typed /\ Judged => VerdictsAddUp
  <2>1. SUFFICES ASSUME Typed, Judged PROVE VerdictsAddUp OBVIOUS
  <2>2. \A c \in Conns : conns[c].verdicts <= 1 BY <2>1 DEF Judged
  <2>3. proxy = "up" => \A c \in Conns : conns[c].verdicts = 1 <=> conns[c].at \in {"relaying", "ended"}
    BY <2>1 DEF Judged, Told, Typed, Handlers, Places, Undecided
  <2>4. QED BY <2>1, <2>2, <2>3 DEF VerdictsAddUp, Judged, Told
<1>5. QED BY <1>1, <1>2, <1>3, <1>4, PTL

-----------------------------------------------------------------------------
(* The kernel's own requests.                                              *)

Sendable(u) == u.scheme # "other" /\ u.host \in WebHosts
Granted == network \cap {url.host, "*"} # {}
Looked == Reachable(url.host, checked) /\ (LoopbackName(url.host) \/ url.host \in DOMAIN Scoped => checked = NoAnswer)
Sent == Granted /\ Looked /\ url.host \in WebHosts /\ (url.scheme = "https" \/ LoopbackName(url.host)) /\ audits = 1

(* What each wait of a fetch leaves behind is still so after the next. *)
Fetching ==
  /\ FetchTypeOK /\ got <= WireLimit
  /\ step \in {"asked", "granted", "resolving", "checked"} => outcome = "none" /\ audits = 0
  /\ step \in {"idle", "sent", "reading"} => outcome = "none"
  /\ step = "resolving" => Granted
  /\ step = "checked" => Granted /\ Looked
  /\ step \in {"sent", "reading"} \/ outcome \in {"page", "cut", "redirected"} => Sent

LEMMA FetchingStep ==
  ASSUME Fetching, [FetchNext]_fetchVars
  PROVE  Fetching'
<1> USE FetchAssumption
<1> DEFINE Where == <<url, network, checked, benchmarks>>
<1>0. /\ step \in {"idle", "asked", "granted", "resolving", "checked", "sent", "reading", "told"}
      /\ url \in Urls /\ got \in Nat /\ cancelled \in BOOLEAN /\ audits \in Nat /\ WireLimit \in Nat
  BY DEF Fetching, FetchTypeOK
<1>1. CASE UNCHANGED fetchVars
  BY <1>1 DEF fetchVars, Fetching, FetchTypeOK, Granted, Looked, Sent, Reachable, Public
<1>2. CASE FetchCalled
  <2>1. url' \in Urls /\ got' = 0 /\ cancelled' = FALSE /\ audits' = 0 BY <1>2 DEF FetchCalled
  <2>2. \/ step' = "asked" /\ outcome' = "none"
        \/ step' = "told" /\ outcome' \in {"NETWORK_DENIED", "TOOL_INVALID_ARGS"}
    BY <1>2 DEF FetchCalled, TellModel
  <2>3. cancelled' \in BOOLEAN BY <2>1
  <2>4. got' <= WireLimit /\ got' \in Nat /\ audits' \in Nat BY <1>0, <2>1
  <2>5. QED BY <2>1, <2>2, <2>3, <2>4 DEF Fetching, FetchTypeOK
(* told something else than a page *)
<1>3. ASSUME step' = "told", outcome' \in {"CANCELLED", "NETWORK_DENIED", "REMOTE_UNAVAILABLE", "TOOL_INVALID_ARGS", "thrown"},
             UNCHANGED <<url, got, cancelled>>, audits' \in Nat
      PROVE  Fetching'
  BY <1>0, <1>3 DEF Fetching, FetchTypeOK
(* what was so stays so *)
<1>4. ASSUME UNCHANGED Where
      PROVE  (Granted' <=> Granted) /\ (Looked' <=> Looked) /\ (UNCHANGED audits => (Sent' <=> Sent))
  BY <1>4 DEF Granted, Looked, Sent, Reachable, Public
<1>5. CASE FetchGranted
  BY <1>0, <1>5 DEF FetchGranted, Fetching, FetchTypeOK
<1>6. CASE FetchCancelled
  <2>1. UNCHANGED <<step, url, network, checked, got, outcome, benchmarks, audits>> /\ cancelled' = TRUE
    BY <1>6 DEF FetchCancelled
  <2>2. (Granted' <=> Granted) /\ (Looked' <=> Looked) /\ (Sent' <=> Sent) BY <1>4, <2>1
  <2>3. QED BY <2>1, <2>2 DEF Fetching, FetchTypeOK
<1>7. CASE ExecuteFetch
  <2>1. step = "granted" /\ UNCHANGED <<url, network, checked, got, cancelled, benchmarks, audits>> BY <1>7 DEF ExecuteFetch
  <2>2. CASE TellModel("CANCELLED") \/ TellModel("NETWORK_DENIED") BY <1>0, <1>3, <2>1, <2>2 DEF TellModel
  <2>3. CASE Granted /\ step' = "resolving" /\ UNCHANGED outcome
    <3>1. Granted' BY <1>4, <2>1, <2>3
    <3>2. QED BY <2>1, <2>3, <3>1 DEF Fetching, FetchTypeOK
  <2>4. QED BY <1>7, <2>2, <2>3 DEF ExecuteFetch, Granted
<1>8. CASE LookedUp
  <2>1. step = "resolving" /\ UNCHANGED <<url, network, got, cancelled, benchmarks, audits>> BY <1>8 DEF LookedUp
  <2>2. CASE TellModel("NETWORK_DENIED") BY <1>0, <1>3, <2>1, <2>2 DEF TellModel
  <2>3. CASE Reachable(url.host, checked') /\ step' = "checked" /\ UNCHANGED outcome
    <3>1. LoopbackName(url.host) \/ url.host \in DOMAIN Scoped => checked' = NoAnswer BY <1>8 DEF LookedUp
    <3>2. Looked' BY <2>1, <2>3, <3>1 DEF Looked, Reachable, Public, LoopbackName
    <3>3. Granted' BY <2>1 DEF Fetching, Granted
    <3>4. QED BY <2>1, <2>3, <3>2, <3>3 DEF Fetching, FetchTypeOK
  <2>4. QED BY <1>8, <2>2, <2>3 DEF LookedUp
<1>9. CASE SendFetch
  <2>1. /\ step = "checked" /\ UNCHANGED <<url, network, checked, got, cancelled, benchmarks>>
        /\ audits' = audits + 1 /\ audits = 0 /\ audits' = 1 /\ audits' \in Nat
    BY <1>9 DEF SendFetch, Fetching
  <2>2. CASE TellModel("NETWORK_DENIED") \/ TellModel("CANCELLED") \/ TellModel("REMOTE_UNAVAILABLE")
    BY <1>0, <1>3, <2>1, <2>2 DEF TellModel
  <2>3. CASE /\ TransportAllowed("web", url.scheme, url.host) /\ url.host \in WebHosts
             /\ step' = "sent" /\ UNCHANGED outcome
    <3>1. Granted' /\ Looked' BY <1>4, <2>1 DEF Fetching
    <3>2. url.scheme = "https" \/ LoopbackName(url.host) BY <2>3 DEF TransportAllowed, RequiresTls
    <3>3. Sent' BY <2>1, <2>3, <3>1, <3>2 DEF Sent
    <3>4. QED BY <2>1, <2>3, <3>3 DEF Fetching, FetchTypeOK
  <2>4. QED BY <1>9, <2>2, <2>3 DEF SendFetch
(* the fetch goes on, or ends, with what was sent *)
<1>10. ASSUME step \in {"sent", "reading"}, UNCHANGED Where, UNCHANGED <<cancelled, audits>>, got' \in Nat, got' <= WireLimit,
              (step' = "reading" /\ outcome' = outcome) \/ step' = "told"
       PROVE  Fetching'
  <2>1. Sent' BY <1>4, <1>10 DEF Fetching
  <2>2. QED BY <1>0, <1>10, <2>1 DEF Fetching, FetchTypeOK
<1>11. CASE FetchAnswered \/ BodyOver
  BY <1>0, <1>10, <1>11 DEF FetchAnswered, BodyOver, TellModel, Fetching
<1>12. CASE ReadChunk
  <2>1. step = "reading" /\ UNCHANGED <<url, network, checked, cancelled, benchmarks, audits>> BY <1>12 DEF ReadChunk
  <2>2. PICK n \in Chunks : IF got + n > WireLimit THEN got' = WireLimit /\ TellModel("cut")
                            ELSE got' = got + n /\ UNCHANGED <<step, outcome>>
    BY <1>12 DEF ReadChunk
  <2>3. got' \in Nat /\ got' <= WireLimit BY <1>0, <2>2
  <2>4. QED BY <1>10, <2>1, <2>2, <2>3 DEF TellModel
<1>13. CASE Post
  <2>1. UNCHANGED <<step, url, network, checked, got, outcome, cancelled, benchmarks, audits>> BY <1>13 DEF Post
  <2>2. (Granted' <=> Granted) /\ (Looked' <=> Looked) /\ (Sent' <=> Sent) BY <1>4, <2>1
  <2>3. QED BY <2>1, <2>2 DEF Fetching, FetchTypeOK
<1>14. QED BY <1>1, <1>2, <1>5, <1>6, <1>7, <1>8, <1>9, <1>11, <1>12, <1>13 DEF FetchNext

(* A body that may leave has no known secret in it, nothing that looks like one unless
   bodies of its kind are redacted, and no field where only metadata may leave. *)
LEMMA InspectedClean ==
  ASSUME NEW kind, NEW body, NEW b \in Inspected(kind, body)
  PROVE  "known" \notin b /\ (~Redacts(kind) => "shape" \notin b) /\ (MetadataOnly(kind) => "field" \notin b)
  BY DEF Inspected, Redacted, Redacts, MetadataOnly

LEMMA CleanStep ==
  ASSUME SentClean, [FetchNext]_fetchVars
  PROVE  SentClean'
<1>1. CASE Post
  <2>1. PICK kind \in GateKinds \ {"web"}, scheme \in {"https", "http"}, secret \in BOOLEAN,
             body \in SUBSET {"known", "shape", "field"}, headers \in SUBSET {"authorization", "other"} :
               /\ HeadersClean(headers)
               /\ \E b \in Inspected(kind, body) :
                    posted' = {[kind |-> kind, scheme |-> scheme, secret |-> secret, body |-> b, headers |-> headers]}
    BY <1>1 DEF Post
  <2>2. PICK b \in Inspected(kind, body) :
          posted' = {[kind |-> kind, scheme |-> scheme, secret |-> secret, body |-> b, headers |-> headers]}
    BY <2>1
  <2>3. "known" \notin b /\ (~Redacts(kind) => "shape" \notin b) /\ (MetadataOnly(kind) => "field" \notin b)
    BY <2>2, InspectedClean
  <2>4. headers \subseteq {"authorization"} BY <2>1 DEF HeadersClean
  <2>5. ASSUME NEW p \in posted' PROVE p.kind = kind /\ p.body = b /\ p.headers = headers BY <2>2, <2>5
  <2>6. QED BY <2>3, <2>4, <2>5 DEF SentClean
<1>2. CASE FetchCalled BY <1>2 DEF FetchCalled, SentClean
<1>3. CASE UNCHANGED posted BY <1>3 DEF SentClean
<1>4. QED
  BY <1>1, <1>2, <1>3 DEF FetchNext, fetchVars, FetchGranted, FetchCancelled, ExecuteFetch, LookedUp, SendFetch,
                          FetchAnswered, ReadChunk, BodyOver

(* A fetch of the model goes to a host that was configured and granted, over TLS unless
   it stays on the machine, to a name none of whose addresses was private when it was
   looked at, and no more of the answer is read than the limit; another request has no
   known secret in its body or in a header but `authorization`, what looks like one only
   where bodies are redacted, and no content where only metadata may go (web-fetch.ts,
   resolve.ts and EgressGate.send). Nothing is said of what is in a url: the gate does
   not look into it. *)
THEOREM TheGateKeeps == FetchSpec => []GateKept
<1>1. FetchInit => Fetching /\ SentClean
  <2>1. SUFFICES ASSUME FetchInit PROVE Fetching /\ SentClean OBVIOUS
  <2>2. FetchTypeOK BY <2>1, FetchAssumption DEF FetchInit, FetchTypeOK, Urls, NoUrl
  <2>3. QED BY <2>1, <2>2, FetchAssumption DEF FetchInit, Fetching, SentClean
<1>2. Fetching /\ [FetchNext]_fetchVars => Fetching' BY FetchingStep
<1>3. SentClean /\ [FetchNext]_fetchVars => SentClean' BY CleanStep
<1>4. Fetching /\ SentClean => GateKept
  <2>1. SUFFICES ASSUME Fetching, SentClean PROVE FetchKept BY DEF GateKept
  <2>2. Sent /\ checked # NoAnswer => \A class \in ToSet(checked) : Public(class)
    BY DEF Sent, Looked, Reachable
  <2>3. QED BY <2>1, <2>2 DEF Fetching, FetchKept, Sent, Granted
<1>5. QED BY <1>1, <1>2, <1>3, <1>4, PTL DEF FetchSpec

-----------------------------------------------------------------------------
(* Viewport: the rows of a line.                                           *)

(* What InputsAssumption says of an input, and a width with room for two more columns
   than any prompt has. *)
Edited(e) ==
  /\ e.lines \in Seq(Nat) /\ e.row \in 1 .. Len(e.lines) /\ e.col \in 0 .. e.lines[e.row]
  /\ e.menu \in Nat /\ (e.menu > 0 => e.menuAt \in 0 .. e.menu - 1) /\ e.menuAt \in Nat /\ e.item \in Nat
  /\ e.width \in {1, 2} /\ e.prompt \in Prompts /\ e.search \in BOOLEAN /\ e.found \in Nat

Roomy(columns) == columns \in Nat /\ columns >= Continuation + 2 /\ \A p \in Prompts : columns >= p + 2

LEMMA LineFits ==
  ASSUME NEW n \in Nat, NEW prefix \in Nat, NEW columns \in Nat, NEW width \in {1, 2}, columns >= prefix + 2
  PROVE  LET first == OnFirst(n, prefix, columns, width)
             per   == OnRest(columns, width)
         IN /\ first \in 0 .. n /\ prefix + first * width <= columns
            /\ per \in Nat /\ per >= 1 /\ per * width <= columns
BY DEF OnFirst, OnRest, Least, Most

LEMMA NarrowFits ==
  ASSUME NEW n \in Nat, NEW prefix \in Nat, NEW columns \in Nat, columns >= prefix + 2
  PROVE  /\ OnRest(columns, 1) = columns
         /\ OnFirst(n, prefix, columns, 1) = IF n <= columns - prefix THEN n ELSE columns - prefix
BY DEF OnFirst, OnRest, Least, Most

LEMMA RoundedIs ==
  ASSUME NEW n \in Nat, NEW d \in Nat, d >= 1
  PROVE  /\ RoundedUp(n, d) \in Nat /\ (n > 0 => RoundedUp(n, d) >= 1)
         /\ n <= RoundedUp(n, d) * d /\ (RoundedUp(n, d) - 1) * d < n
BY DEF RoundedUp

LEMMA RowsOfIs ==
  ASSUME NEW n \in Nat, NEW prefix \in Nat, NEW columns \in Nat, NEW width \in {1, 2}, columns >= prefix + 2
  PROVE  RowsOf(n, prefix, columns, width) \in Nat /\ RowsOf(n, prefix, columns, width) >= 1
<1> DEFINE first == OnFirst(n, prefix, columns, width)
           per   == OnRest(columns, width)
<1>1. first \in 0 .. n /\ per \in Nat /\ per >= 1 BY LineFits
<1>2. n - first \in Nat /\ RoundedUp(n - first, per) \in Nat
  <2> HIDE DEF first, per
  <2>1. n - first \in Nat BY <1>1
  <2>2. QED BY <1>1, <2>1, RoundedIs
<1>3. QED BY <1>2 DEF RowsOf

(* How many whole rows lie before a cursor that is no further than its line's end. *)
LEMMA WholeRows ==
  ASSUME NEW rest \in Nat, NEW rounded \in Nat, NEW per \in Nat, NEW width \in {1, 2}, NEW columns \in Nat,
         NEW k \in Nat, rounded >= 1, per >= 1, per * width <= columns, columns >= 1,
         (rounded - 1) * per < rest, rest <= rounded * per, k * columns <= rest * width
  PROVE  IF (rest - (rounded - 1) * per) * width >= columns THEN k <= rounded ELSE k < rounded
<1>1. PICK q \in Nat : q = rounded - 1 /\ rounded = q + 1 OBVIOUS
<1>2. q * per \in Nat /\ (q + 1) * per = q * per + per OBVIOUS
<1>3. PICK t \in Nat : rest = q * per + t /\ t <= per BY <1>1, <1>2
<1>4. rest - (rounded - 1) * per = t BY <1>1, <1>2, <1>3
<1>5. rest * width = q * (per * width) + t * width
  <2>1. (q * per + t) * width = (q * per) * width + t * width BY <1>2
  <2>2. (q * per) * width = q * (per * width) OBVIOUS
  <2>3. QED BY <1>3, <2>1, <2>2
<1>6. per * width \in Nat /\ t * width \in Nat /\ t * width <= per * width BY <1>3
<1>7. q * (per * width) <= q * columns BY <1>6
<1>8. q * columns \in Nat /\ q * (per * width) \in Nat /\ k * columns \in Nat BY <1>6
<1>9. k * columns <= q * columns + t * width BY <1>5, <1>6, <1>7, <1>8
<1>10. CASE t * width >= columns
  <2>1. k * columns <= q * columns + columns BY <1>6, <1>8, <1>9
  <2>2. (k - q - 1) * columns <= 0
    <3>1. (k - q - 1) * columns = k * columns - q * columns - columns OBVIOUS
    <3>2. QED BY <1>8, <2>1, <3>1
  <2>3. k <= q + 1 BY <2>2
  <2>4. QED BY <1>1, <1>4, <1>10, <2>3
<1>11. CASE t * width < columns
  <2>1. k * columns < q * columns + columns BY <1>6, <1>8, <1>9, <1>11
  <2>2. (k - q - 1) * columns < 0
    <3>1. (k - q - 1) * columns = k * columns - q * columns - columns OBVIOUS
    <3>2. QED BY <1>8, <2>1, <3>1
  <2>3. k < q + 1 BY <2>2
  <2>4. QED BY <1>1, <1>4, <1>6, <1>11, <2>3
<1>12. QED BY <1>6, <1>10, <1>11

(* The cursor is on a row of its line. *)
LEMMA CursorInLine ==
  ASSUME NEW n \in Nat, NEW prefix \in Nat, NEW columns \in Nat, NEW width \in {1, 2}, columns >= prefix + 2,
         NEW col \in 0 .. n, NEW upto, upto = prefix + col * width, upto >= columns
  PROVE  (upto - columns) \div columns \in Nat /\ 1 + (upto - columns) \div columns < RowsOf(n, prefix, columns, width)
<1>1. PICK first, per :
        /\ first = OnFirst(n, prefix, columns, width) /\ per = OnRest(columns, width)
        /\ first \in 0 .. n /\ per \in Nat
        /\ prefix + first * width <= columns /\ per >= 1 /\ per * width <= columns
  <2>1. /\ OnFirst(n, prefix, columns, width) \in 0 .. n /\ OnRest(columns, width) \in Nat
        /\ prefix + OnFirst(n, prefix, columns, width) * width <= columns
        /\ OnRest(columns, width) >= 1 /\ OnRest(columns, width) * width <= columns
    BY LineFits
  <2>2. QED BY <2>1
<1>2. PICK rest \in Nat : rest = n - first /\ n = first + rest BY <1>1
<1>3. PICK rounded \in Nat :
        /\ rounded = RoundedUp(rest, per) /\ (rest > 0 => rounded >= 1)
        /\ rest <= rounded * per /\ ((rounded - 1) * per < rest \/ rest = 0)
  BY <1>1, RoundedIs
<1>4. PICK last : last = IF rest = 0 THEN prefix + first * width ELSE (rest - (rounded - 1) * per) * width OBVIOUS
<1>5. RowsOf(n, prefix, columns, width) = 1 + rounded + (IF last >= columns THEN 1 ELSE 0)
  BY <1>1, <1>2, <1>3, <1>4 DEF RowsOf
<1>6. PICK excess \in Nat : excess = upto - columns /\ excess = prefix + col * width - columns OBVIOUS
<1>7. PICK k \in Nat : k = excess \div columns /\ k * columns <= excess BY <1>6
<1>8. first * width \in Nat /\ rest * width \in Nat /\ col * width \in Nat /\ col * width <= first * width + rest * width
  BY <1>1, <1>2
<1>9. excess <= rest * width BY <1>1, <1>6, <1>8
<1>10. CASE rest = 0
  <2>1. excess = 0 /\ prefix + first * width >= columns BY <1>1, <1>6, <1>8, <1>9, <1>10
  <2>2. k = 0 /\ last >= columns BY <1>4, <1>7, <1>10, <2>1
  <2>3. QED BY <1>3, <1>5, <1>6, <1>7, <2>2
<1>11. CASE rest > 0
  <2>1. k * columns <= rest * width BY <1>7, <1>8, <1>9
  <2>2. (rounded - 1) * per < rest /\ rounded >= 1 /\ columns >= 1 BY <1>3, <1>11
  <2>3. IF last >= columns THEN k <= rounded ELSE k < rounded
    <3>1. per \in Nat /\ per >= 1 /\ per * width <= columns /\ rest <= rounded * per BY <1>1, <1>3
    <3>2. IF (rest - (rounded - 1) * per) * width >= columns THEN k <= rounded ELSE k < rounded
      BY <1>2, <1>3, <1>7, <2>1, <2>2, <3>1, WholeRows, Zenon
    <3>3. last = (rest - (rounded - 1) * per) * width BY <1>4, <1>11
    <3>4. QED BY <3>2, <3>3, Zenon
  <2>4. QED BY <1>5, <1>6, <1>7, <2>3
<1>12. QED BY <1>10, <1>11

-----------------------------------------------------------------------------
(* Lines below one another.                                                *)

TopBy(g, h, N) == g[0] = 0 /\ \A n \in 1 .. N : g[n] = g[n - 1] + h[n]

LEMMA TopIs ==
  ASSUME NEW N \in Nat, NEW h \in [1 .. N -> Nat], NEW i \in 1 .. N + 1
  PROVE  \E g \in [0 .. i - 1 -> Nat] : TopBy(g, h, i - 1) /\ Top(h, i) = g[i - 1]
<1>1. PICK M \in Nat : M = i - 1 /\ M <= N OBVIOUS
<1> DEFINE Rec(g) == [n \in 0 .. (i - 1) |-> IF n = 0 THEN 0 ELSE g[n - 1] + h[n]]
           sum == CHOOSE g : g = Rec(g)
           move == [n \in 1 .. M |-> [r \in Nat |-> r + h[n]]]
<1>2. \A n \in 1 .. M : h[n] \in Nat BY <1>1
<1>3. move \in [1 .. M -> [Nat -> Nat]] BY <1>2
<1>4. PICK g \in [0 .. M -> Nat] : Iterates(g, M, 0, move)
  <2> HIDE DEF move
  <2> QED BY <1>1, <1>3, IterationExists
<1>5. g[0] = 0 BY <1>4 DEF Iterates
<1>6. ASSUME NEW n \in 1 .. M PROVE g[n] = g[n - 1] + h[n]
  <2>1. g[n - 1] \in Nat BY <1>1, <1>4
  <2>2. QED BY <1>2, <1>4, <2>1 DEF Iterates
<1>7. g = Rec(g)
  <2>1. ASSUME NEW n \in 0 .. M PROVE g[n] = Rec(g)[n]
    <3>1. CASE n = 0 BY <1>1, <1>5, <3>1
    <3>2. CASE n # 0
      <4>1. n \in 1 .. M BY <1>1, <3>2
      <4>2. QED BY <1>1, <1>6, <3>2, <4>1
    <3>3. QED BY <3>1, <3>2
  <2>2. QED BY <1>1, <1>4, <2>1
<1>8. sum = Rec(sum) BY <1>7
<1>9. Top(h, i) = sum[i - 1] BY DEF Top
<1>10. sum[0] = 0
  <2>1. 0 \in 0 .. (i - 1) BY <1>1
  <2>2. Rec(sum)[0] = 0 BY <2>1
  <2>3. QED BY <1>8, <2>2
<1>11. ASSUME NEW n \in 1 .. M PROVE sum[n] = sum[n - 1] + h[n]
  <2>1. n \in 0 .. (i - 1) /\ n # 0 BY <1>1
  <2>2. QED BY <1>8, <2>1
<1>12. sum[M] = g[M]
  <2> HIDE DEF sum
  <2> DEFINE T == {n \in 0 .. M : sum[n] = g[n]}
  <2>1. 0 \in T BY <1>1, <1>5, <1>10
  <2>2. ASSUME NEW n \in 1 .. M, n - 1 \in T PROVE n \in T BY <1>1, <1>6, <1>11, <2>2
  <2>3. \A n \in 0 .. M : n \in T
    <3> HIDE DEF T
    <3> QED BY <1>1, <2>1, <2>2, UpTo
  <2>4. QED BY <1>1, <2>3
<1>13. TopBy(g, h, M) BY <1>5, <1>6 DEF TopBy
<1>14. QED BY <1>1, <1>4, <1>9, <1>12, <1>13

(* One line more is its rows more. *)
LEMMA TopSteps ==
  ASSUME NEW N \in Nat, NEW h \in [1 .. N -> Nat]
  PROVE  /\ Top(h, 1) = 0
         /\ \A n \in 1 .. N : Top(h, n) \in Nat /\ Top(h, n + 1) = Top(h, n) + h[n]
<1>1. Top(h, 1) = 0
  <2>1. PICK i \in 1 .. N + 1 : i = 1 /\ i - 1 = 0 OBVIOUS
  <2>2. PICK g \in [0 .. i - 1 -> Nat] : TopBy(g, h, i - 1) /\ Top(h, i) = g[i - 1] BY TopIs
  <2>3. QED BY <2>1, <2>2 DEF TopBy
<1>2. ASSUME NEW n \in 1 .. N PROVE Top(h, n) \in Nat /\ Top(h, n + 1) = Top(h, n) + h[n]
  <2>1. n \in 1 .. N + 1 /\ n \in Nat OBVIOUS
  <2>2. PICK g \in [0 .. n - 1 -> Nat] : TopBy(g, h, n - 1) /\ Top(h, n) = g[n - 1] BY <2>1, TopIs
  <2>3. PICK f \in [0 .. n -> Nat] : TopBy(f, h, n) /\ Top(h, n + 1) = f[n]
    <3>1. PICK i \in 1 .. N + 1 : i = n + 1 /\ i - 1 = n OBVIOUS
    <3>2. \E f \in [0 .. i - 1 -> Nat] : TopBy(f, h, i - 1) /\ Top(h, i) = f[i - 1] BY TopIs
    <3>3. QED BY <3>1, <3>2
  <2>4. f[n - 1] = g[n - 1]
    <3> DEFINE T == {m \in 0 .. n - 1 : f[m] = g[m]}
    <3>1. 0 \in T BY <2>2, <2>3 DEF TopBy
    <3>2. ASSUME NEW m \in 1 .. n - 1, m - 1 \in T PROVE m \in T
      <4>1. m \in 1 .. n /\ m \in 0 .. n - 1 /\ f[m - 1] = g[m - 1] BY <3>2
      <4>2. QED BY <2>2, <2>3, <4>1 DEF TopBy
    <3>3. \A m \in 0 .. n - 1 : m \in T
      <4> HIDE DEF T
      <4>1. n - 1 \in Nat OBVIOUS
      <4>2. QED BY <3>1, <3>2, <4>1, UpTo
    <3>4. QED BY <3>3
  <2>5. g[n - 1] \in Nat BY <2>2
  <2>6. f[n] = f[n - 1] + h[n] BY <2>3 DEF TopBy
  <2>7. QED BY <2>2, <2>3, <2>4, <2>5, <2>6
<1>3. QED BY <1>1, <1>2

(* Lines of one row at least: each begins as many rows below as there are lines
   between, or further down; as many exactly when each has one row. *)
LEMMA TopGrows ==
  ASSUME NEW N \in Nat, NEW h \in [1 .. N -> Nat], \A n \in 1 .. N : h[n] >= 1
  PROVE  \A i, j \in 1 .. N + 1 : i <= j =>
           /\ Top(h, i) \in Nat /\ Top(h, j) \in Nat /\ Top(h, j) >= Top(h, i) + (j - i)
           /\ (\A n \in 1 .. N : h[n] = 1) => Top(h, j) = Top(h, i) + (j - i)
<1> DEFINE top(n) == Top(h, n)
           Ones == \A n \in 1 .. N : h[n] = 1
<1>1. top(1) = 0 /\ \A n \in 1 .. N : top(n) \in Nat /\ top(n + 1) = top(n) + h[n] BY TopSteps
<1>2. \A n \in 1 .. N : h[n] \in Nat /\ h[n] >= 1 /\ (Ones => h[n] = 1) OBVIOUS
<1> SUFFICES ASSUME NEW i \in 1 .. N + 1, NEW j \in 1 .. N + 1, i <= j
             PROVE  /\ top(i) \in Nat /\ top(j) \in Nat /\ top(j) >= top(i) + (j - i)
                    /\ Ones => top(j) = top(i) + (j - i)
  BY DEF top, Ones
<1>3. i \in Nat /\ j \in Nat /\ j - i \in Nat OBVIOUS
<1> HIDE DEF top, Ones
<1>4. top(i) \in Nat
  <2>1. CASE i \in 1 .. N BY <1>1, <2>1
  <2>2. CASE i = N + 1 /\ N = 0 BY <1>1, <2>2
  <2>3. CASE i = N + 1 /\ N # 0
    <3>1. N \in 1 .. N BY <2>3
    <3>2. QED BY <1>1, <1>2, <2>3, <3>1
  <2>4. QED BY <2>1, <2>2, <2>3
<1> DEFINE T == {m \in 0 .. j - i : /\ top(i + m) \in Nat /\ top(i + m) >= top(i) + m
                                    /\ Ones => top(i + m) = top(i) + m}
<1>5. 0 \in T
  <2>1. i + 0 = i BY <1>3
  <2>2. QED BY <1>3, <1>4, <2>1
<1>6. ASSUME NEW m \in 1 .. j - i, m - 1 \in T PROVE m \in T
  <2>1. PICK n \in 1 .. N : n = i + (m - 1) /\ n + 1 = i + m BY <1>3
  <2>2. PICK a \in Nat, b \in Nat, c \in Nat :
          a = top(i) /\ b = top(n) /\ c = h[n] /\ c >= 1 /\ (Ones => c = 1) /\ top(n + 1) = b + c
    BY <1>1, <1>2, <1>4
  <2>3. b >= a + (m - 1) /\ (Ones => b = a + (m - 1)) BY <1>6, <2>1, <2>2
  <2>4. top(i + m) = b + c BY <2>1, <2>2
  <2>5. m \in Int OBVIOUS
  <2>6. b + c \in Nat /\ b + c >= a + m
    <3>1. c >= 1 /\ b >= a + (m - 1) BY <2>2, <2>3
    <3>2. QED BY <2>5, <3>1
  <2>7. ASSUME Ones PROVE b + c = a + m
    <3>1. c = 1 /\ b = a + (m - 1) BY <2>2, <2>3, <2>7
    <3>2. QED BY <2>5, <3>1
  <2>8. QED BY <2>2, <2>4, <2>6, <2>7
<1>7. \A m \in 0 .. j - i : m \in T
  <2> HIDE DEF T
  <2> QED BY <1>3, <1>5, <1>6, UpTo
<1>8. j - i \in T /\ i + (j - i) = j BY <1>3, <1>7
<1>9. QED BY <1>4, <1>8

(* Each row above the end is one of a line. *)
LEMMA LineOfRow ==
  ASSUME NEW N \in Nat, NEW h \in [1 .. N -> Nat], NEW r \in Nat, r < Top(h, N + 1)
  PROVE  \E i \in 1 .. N : Top(h, i) <= r /\ r < Top(h, i + 1)
<1> DEFINE top(n) == Top(h, n)
<1>1. top(1) = 0 /\ \A n \in 1 .. N : top(n) \in Nat /\ top(n + 1) = top(n) + h[n] BY TopSteps
<1>2. \A n \in 1 .. N : top(n + 1) \in Nat BY <1>1
<1>3. r < top(N + 1) OBVIOUS
<1> HIDE DEF top
<1> SUFFICES \E i \in 1 .. N : top(i) <= r /\ r < top(i + 1) BY DEF top
<1> DEFINE T == {m \in 0 .. N : r < top(m + 1) => \E i \in 1 .. N : top(i) <= r /\ r < top(i + 1)}
<1>4. 0 \in T BY <1>1
<1>5. ASSUME NEW m \in 1 .. N, m - 1 \in T PROVE m \in T
  <2>1. m - 1 + 1 = m OBVIOUS
  <2>2. r < top(m) => \E i \in 1 .. N : top(i) <= r /\ r < top(i + 1) BY <1>5, <2>1
  <2>3. top(m) \in Nat BY <1>1
  <2>4. QED BY <2>2, <2>3
<1>6. \A m \in 0 .. N : m \in T
  <2> HIDE DEF T
  <2> QED BY <1>4, <1>5, UpTo
<1>7. N \in T BY <1>6
<1>8. QED BY <1>3, <1>7

-----------------------------------------------------------------------------
(* The rows of the input.                                                  *)

LEMMA RowsOfLine ==
  ASSUME NEW e, Edited(e), NEW columns, Roomy(columns), NEW n \in 1 .. Len(e.lines)
  PROVE  /\ e.lines[n] \in Nat /\ Prefix(e, n) \in Nat /\ columns >= Prefix(e, n) + 2 /\ e.width \in {1, 2}
         /\ RowsOf(e.lines[n], Prefix(e, n), columns, e.width) \in Nat
         /\ RowsOf(e.lines[n], Prefix(e, n), columns, e.width) >= 1
<1>1. e.lines[n] \in Nat /\ e.width \in {1, 2}
  <2>1. e.lines \in Seq(Nat) /\ e.width \in {1, 2} BY DEF Edited
  <2>2. QED BY <2>1
<1>2. Prefix(e, n) \in Nat /\ columns >= Prefix(e, n) + 2 /\ columns \in Nat
  <2>1. e.prompt \in Prompts /\ Prompts \subseteq Nat /\ Continuation \in Nat BY WindowsAssumption DEF Edited
  <2>2. e.prompt \in Nat /\ columns >= e.prompt + 2 BY <2>1 DEF Roomy
  <2>3. QED BY <2>1, <2>2 DEF Prefix, Roomy
<1>3. QED BY <1>1, <1>2, RowsOfIs

LEMMA HeightsOfLines ==
  ASSUME NEW e, Edited(e), NEW columns, Roomy(columns)
  PROVE  \E h \in [1 .. Len(e.lines) -> Nat] :
           /\ \A n \in 1 .. Len(e.lines) : h[n] = RowsOf(e.lines[n], Prefix(e, n), columns, e.width) /\ h[n] >= 1
           /\ \A i : RowsBefore(e, i, columns) = Top(h, i)
<1> DEFINE h == [n \in 1 .. Len(e.lines) |-> RowsOf(e.lines[n], Prefix(e, n), columns, e.width)]
<1>1. \A n \in 1 .. Len(e.lines) : h[n] = RowsOf(e.lines[n], Prefix(e, n), columns, e.width) /\ h[n] \in Nat /\ h[n] >= 1
  BY RowsOfLine
<1>2. h \in [1 .. Len(e.lines) -> Nat] BY <1>1
<1>3. \A i : RowsBefore(e, i, columns) = Top(h, i) BY DEF RowsBefore
<1>4. QED BY <1>1, <1>2, <1>3

LEMMA RowsBeforeSteps ==
  ASSUME NEW e, Edited(e), NEW columns, Roomy(columns), NEW n \in 1 .. Len(e.lines)
  PROVE  /\ RowsBefore(e, n, columns) \in Nat
         /\ RowsBefore(e, n + 1, columns) =
              RowsBefore(e, n, columns) + RowsOf(e.lines[n], Prefix(e, n), columns, e.width)
<1>1. Len(e.lines) \in Nat BY DEF Edited
<1>2. PICK h \in [1 .. Len(e.lines) -> Nat] :
        /\ \A m \in 1 .. Len(e.lines) : h[m] = RowsOf(e.lines[m], Prefix(e, m), columns, e.width) /\ h[m] >= 1
        /\ \A i : RowsBefore(e, i, columns) = Top(h, i)
  BY HeightsOfLines
<1>3. Top(h, n) \in Nat /\ Top(h, n + 1) = Top(h, n) + h[n] BY <1>1, TopSteps
<1>4. QED BY <1>2, <1>3

(* No line begins below the last row. *)
LEMMA RowsGrow ==
  ASSUME NEW e, Edited(e), NEW columns, Roomy(columns)
  PROVE  \A n \in 1 .. Len(e.lines) :
           /\ RowsBefore(e, n + 1, columns) \in Nat
           /\ RowsBefore(e, n + 1, columns) <= RowsBefore(e, Len(e.lines) + 1, columns)
<1>1. PICK N \in Nat : N = Len(e.lines) BY DEF Edited
<1>2. PICK h \in [1 .. N -> Nat] :
        /\ \A m \in 1 .. N : h[m] >= 1
        /\ \A i : RowsBefore(e, i, columns) = Top(h, i)
  BY <1>1, HeightsOfLines
<1>3. ASSUME NEW n \in 1 .. N
      PROVE  Top(h, n + 1) \in Nat /\ Top(h, n + 1) <= Top(h, N + 1)
  <2>1. n + 1 \in 1 .. N + 1 /\ N + 1 \in 1 .. N + 1 /\ n + 1 <= N + 1 BY <1>1
  <2>2. Top(h, n + 1) \in Nat /\ Top(h, N + 1) \in Nat /\ Top(h, N + 1) >= Top(h, n + 1) + ((N + 1) - (n + 1))
    BY <1>2, <2>1, TopGrows
  <2>3. QED BY <2>2
<1>4. QED BY <1>1, <1>2, <1>3

(* Every row of the input is so many columns wide. *)
LEMMA RowIsWide ==
  ASSUME NEW e, Edited(e), NEW columns, Roomy(columns),
         NEW r \in Nat, r < RowsBefore(e, Len(e.lines) + 1, columns)
  PROVE  RowWidth(e, r, columns) \in Int
<1>1. PICK N \in Nat : N = Len(e.lines) BY DEF Edited
<1>2. PICK h \in [1 .. N -> Nat] :
        /\ \A m \in 1 .. N : h[m] >= 1
        /\ \A i : RowsBefore(e, i, columns) = Top(h, i)
  BY <1>1, HeightsOfLines
<1>3. \E i \in 1 .. N : Top(h, i) <= r /\ r < Top(h, i + 1) BY <1>1, <1>2, LineOfRow
<1> DEFINE at == CHOOSE l \in 1 .. Len(e.lines) : RowsBefore(e, l, columns) <= r /\ r < RowsBefore(e, l + 1, columns)
<1>4. at \in 1 .. Len(e.lines) BY <1>1, <1>2, <1>3
<1>5. RowWidth(e, r, columns) = WidthOf(e.lines[at], Prefix(e, at), columns, e.width, r - RowsBefore(e, at, columns))
  BY DEF RowWidth
<1> HIDE DEF at
<1>6. /\ e.lines[at] \in Nat /\ Prefix(e, at) \in Nat /\ columns >= Prefix(e, at) + 2 /\ e.width \in {1, 2} /\ columns \in Nat
  BY <1>4, RowsOfLine DEF Roomy
<1>7. RowsBefore(e, at, columns) \in Nat BY <1>4, RowsBeforeSteps
<1>8. PICK n, prefix, k, first, per :
        /\ n = e.lines[at] /\ prefix = Prefix(e, at) /\ k = r - RowsBefore(e, at, columns)
        /\ first = OnFirst(n, prefix, columns, e.width) /\ per = OnRest(columns, e.width)
  OBVIOUS
<1>9. n \in Nat /\ prefix \in Nat /\ k \in Int BY <1>6, <1>7, <1>8
<1>10. first \in Nat /\ per \in Nat
  <2>1. OnFirst(n, prefix, columns, e.width) \in 0 .. n /\ OnRest(columns, e.width) \in Nat
    BY <1>6, <1>8, LineFits
  <2>2. QED BY <1>8, <1>9, <2>1
<1>11. prefix + first * e.width \in Int BY <1>6, <1>9, <1>10
<1>12. Least(per, n - first - (k - 1) * per) * e.width \in Int
  <2>1. (k - 1) * per \in Int BY <1>9, <1>10
  <2>2. PICK x \in Int : x = n - first - (k - 1) * per BY <1>9, <1>10, <2>1
  <2>3. Least(per, x) \in Int BY <1>10 DEF Least
  <2>4. QED BY <1>6, <2>2, <2>3
<1>13. WidthOf(n, prefix, columns, e.width, k) \in Int BY <1>8, <1>11, <1>12 DEF WidthOf
<1>14. QED BY <1>5, <1>8, <1>13

LEMMA CursorPlaced ==
  ASSUME NEW e, NEW columns, NEW before, NEW upto,
         before = RowsBefore(e, e.row, columns), upto = Prefix(e, e.row) + e.col * e.width
  PROVE  /\ upto < columns => Cursor(e, columns) = [row |-> before, col |-> upto]
         /\ ~(upto < columns) =>
              Cursor(e, columns) = [row |-> before + 1 + (upto - columns) \div columns, col |-> (upto - columns) % columns]
BY DEF Cursor

(* The cursor is on one of the rows. *)
LEMMA CursorOnRow ==
  ASSUME NEW e, Edited(e), NEW columns, Roomy(columns)
  PROVE  /\ Cursor(e, columns).row \in Nat /\ RowsBefore(e, Len(e.lines) + 1, columns) \in Nat
         /\ Cursor(e, columns).row < RowsBefore(e, Len(e.lines) + 1, columns)
<1>1. PICK before, upto, rows :
        /\ before = RowsBefore(e, e.row, columns)
        /\ upto = Prefix(e, e.row) + e.col * e.width
        /\ rows = RowsOf(e.lines[e.row], Prefix(e, e.row), columns, e.width)
  OBVIOUS
<1>2. e.row \in 1 .. Len(e.lines) /\ Len(e.lines) \in Nat /\ e.col \in 0 .. e.lines[e.row] BY DEF Edited
<1>3. /\ e.lines[e.row] \in Nat /\ Prefix(e, e.row) \in Nat /\ columns >= Prefix(e, e.row) + 2 /\ columns \in Nat
      /\ e.width \in {1, 2} /\ rows \in Nat /\ rows >= 1
  BY <1>1, <1>2, RowsOfLine DEF Roomy
<1>4. before \in Nat /\ RowsBefore(e, e.row + 1, columns) = before + rows BY <1>1, <1>2, RowsBeforeSteps
<1>5. /\ RowsBefore(e, e.row + 1, columns) <= RowsBefore(e, Len(e.lines) + 1, columns)
      /\ RowsBefore(e, Len(e.lines) + 1, columns) \in Nat
  <2>1. \A n \in 1 .. Len(e.lines) :
          /\ RowsBefore(e, n + 1, columns) \in Nat
          /\ RowsBefore(e, n + 1, columns) <= RowsBefore(e, Len(e.lines) + 1, columns)
    BY RowsGrow
  <2>2. Len(e.lines) \in 1 .. Len(e.lines) BY <1>2
  <2>3. QED BY <1>2, <2>1, <2>2
<1>6. upto \in Nat BY <1>1, <1>2, <1>3
<1>7. CASE upto < columns
  <2>1. Cursor(e, columns).row = before BY <1>1, <1>7 DEF Cursor
  <2>2. QED BY <1>3, <1>4, <1>5, <2>1
<1>8. CASE upto >= columns
  <2>1. PICK k \in Nat : k = (upto - columns) \div columns /\ 1 + k < rows
    BY <1>1, <1>2, <1>3, <1>8, CursorInLine
  <2>2. Cursor(e, columns).row = before + 1 + k
    <3>1. Cursor(e, columns) =
            [row |-> before + 1 + (upto - columns) \div columns, col |-> (upto - columns) % columns]
      BY <1>1, <1>3, <1>6, <1>8, CursorPlaced
    <3>2. Cursor(e, columns) = [row |-> before + 1 + k, col |-> (upto - columns) % columns] BY <2>1, <3>1, Zenon
    <3>3. QED BY <3>2
  <2>3. QED BY <1>3, <1>4, <1>5, <2>1, <2>2
<1>9. QED BY <1>3, <1>6, <1>7, <1>8

-----------------------------------------------------------------------------
(* What of it is drawn.                                                    *)

(* A slice that has `here` in it. *)
LEMMA SliceIs ==
  ASSUME NEW all \in Nat, NEW here \in 0 .. all - 1, NEW share \in 1 .. all
  PROVE  /\ Slice(here, share, all) \in Nat /\ Slice(here, share, all) + share <= all
         /\ here - Slice(here, share, all) \in 0 .. share - 1
BY DEF Slice, Least, Most

LEMMA WindowIs ==
  ASSUME NEW w \in Windows
  PROVE  /\ Columns(w) \in Nat /\ HeaderRows(w) \in Nat /\ FooterRows(w) \in Nat
         /\ Chrome(w) = HeaderRows(w) + FooterRows(w)
         /\ ForContent(w) \in Nat /\ ForContent(w) >= 1
         /\ ToldRows(w) \in Nat /\ ToldColumns(w) \in Nat /\ ForContent(w) = ToldRows(w) - 1 - Chrome(w)
<1>1. /\ w.columns \in Nat /\ w.rows \in Nat /\ w.chrome \in {"none", "rule", "box"} /\ Gutter \in Nat
  BY WindowsAssumption
<1>2. ToldColumns(w) \in Nat /\ ToldRows(w) \in Nat /\ ToldRows(w) > 4 BY <1>1 DEF ToldColumns, ToldRows
<1>3. /\ HeaderRows(w) \in {0, 1} /\ FooterRows(w) \in {0, 1} /\ Chrome(w) = HeaderRows(w) + FooterRows(w)
  BY DEF HeaderRows, FooterRows, Chrome
<1>4. Columns(w) \in Nat BY <1>1, <1>2 DEF Columns, Most
<1>5. QED BY <1>2, <1>3, <1>4 DEF ForContent, Most

ViewIs(e, w) ==
  LET v == View(e, w)
  IN /\ v.first \in Nat /\ v.first + v.buffer <= RowsBefore(e, Len(e.lines) + 1, Columns(w))
     /\ v.buffer \in Nat /\ v.menu \in Nat /\ v.cursorRow \in Nat /\ v.total = v.buffer + v.menu + Chrome(w)
     /\ v.cursorRow - HeaderRows(w) \in 0 .. v.buffer - 1
     /\ v.menu > 0 => v.menuSelected \in 0 .. v.menu - 1
     /\ v.total < ToldRows(w)

LEMMA ViewFits ==
  ASSUME NEW e, Edited(e), NEW w \in Windows, Roomy(Columns(w))
  PROVE  ViewIs(e, w)
<1>1. PICK rows, cursor, content :
        /\ rows = RowsBefore(e, Len(e.lines) + 1, Columns(w)) /\ cursor = Cursor(e, Columns(w)).row
        /\ content = ForContent(w)
  OBVIOUS
<1>2. rows \in Nat /\ cursor \in Nat /\ cursor < rows BY <1>1, CursorOnRow
<1>3. content \in Nat /\ content >= 1 BY <1>1, WindowIs
<1>4. e.menu \in Nat /\ (e.menu > 0 => e.menuAt \in 0 .. e.menu - 1) BY DEF Edited
<1>5. PICK wanted : wanted = Least(e.menu, content \div 2) OBVIOUS
<1>6. wanted \in Nat /\ wanted <= content \div 2 BY <1>3, <1>4, <1>5 DEF Least
<1>7. wanted < content /\ content - wanted \in Nat BY <1>3, <1>6
<1>8. PICK buffer : buffer = Most(1, Least(rows, content - wanted)) OBVIOUS
<1>9. buffer \in 1 .. rows /\ buffer <= content BY <1>2, <1>3, <1>6, <1>7, <1>8 DEF Most, Least
<1>10. PICK menu : menu = Least(e.menu, Most(0, content - buffer)) OBVIOUS
<1>11. menu \in 0 .. e.menu /\ menu <= content - buffer BY <1>3, <1>4, <1>9, <1>10 DEF Most, Least
<1>12. PICK v : v = View(e, w) OBVIOUS
<1>13. /\ v.first = Slice(cursor, buffer, rows)
       /\ v.buffer = buffer /\ v.menu = menu /\ v.menuSelected = e.menuAt - Slice(e.menuAt, menu, e.menu)
       /\ v.cursorRow = cursor - Slice(cursor, buffer, rows) + HeaderRows(w)
       /\ v.total = buffer + menu + Chrome(w)
  BY <1>1, <1>5, <1>8, <1>10, <1>12, Zenon DEF View
<1>14. /\ Slice(cursor, buffer, rows) \in Nat /\ Slice(cursor, buffer, rows) + buffer <= rows
       /\ cursor - Slice(cursor, buffer, rows) \in 0 .. buffer - 1
  <2>1. cursor \in 0 .. rows - 1 BY <1>2
  <2>2. QED BY <1>2, <1>9, <2>1, SliceIs
<1>15. HeaderRows(w) \in Nat /\ Chrome(w) \in Nat BY WindowIs
<1>16. v.cursorRow \in Nat /\ v.cursorRow - HeaderRows(w) \in 0 .. buffer - 1 BY <1>9, <1>13, <1>14, <1>15
<1>17. ASSUME menu > 0 PROVE v.menuSelected \in 0 .. menu - 1
  <2>1. e.menuAt \in 0 .. e.menu - 1 /\ menu \in 1 .. e.menu BY <1>4, <1>11, <1>17
  <2>2. e.menuAt - Slice(e.menuAt, menu, e.menu) \in 0 .. menu - 1 BY <1>4, <2>1, SliceIs
  <2>3. QED BY <1>13, <2>2
<1>18. v.total < ToldRows(w)
  <2>1. content = ToldRows(w) - 1 - Chrome(w) /\ ToldRows(w) \in Nat BY <1>1, WindowIs
  <2>2. QED BY <1>9, <1>11, <1>13, <1>15, <2>1
<1>19. QED BY <1>1, <1>9, <1>11, <1>12, <1>13, <1>14, <1>15, <1>16, <1>17, <1>18 DEF ViewIs

LEMMA PaintedIs ==
  ASSUME NEW e, Edited(e), NEW w \in Windows, Roomy(Columns(w))
  PROVE  /\ Painted(e, w) \in Seq(Int) /\ Len(Painted(e, w)) = RenderedRows(e, w)
         /\ CursorRowOf(e, w) \in 0 .. Len(Painted(e, w)) - 1
<1>1. CASE e.search
  <2>1. PICK x : x = SearchLabel + Least(e.found, Most(8, ToldColumns(w) - SearchLabel - 1)) OBVIOUS
  <2>2. e.found \in Nat /\ SearchLabel \in Nat /\ ToldColumns(w) \in Nat BY WindowsAssumption, WindowIs DEF Edited
  <2>3. x \in Int BY <2>1, <2>2 DEF Least, Most
  <2>4. Painted(e, w) = <<x>> /\ RenderedRows(e, w) = 1 /\ CursorRowOf(e, w) = 0
    BY <1>1, <2>1 DEF Painted, RenderedRows, CursorRowOf
  <2>5. QED BY <2>3, <2>4
<1>2. CASE ~e.search
  <2>1. PICK v : v = View(e, w) OBVIOUS
  <2>2. Painted(e, w) = Drawing(e, w, v) /\ RenderedRows(e, w) = v.total /\ CursorRowOf(e, w) = v.cursorRow
    BY <1>2, <2>1 DEF Painted, RenderedRows, CursorRowOf
  <2>3. /\ HeaderRows(w) \in Nat /\ FooterRows(w) \in Nat /\ Chrome(w) = HeaderRows(w) + FooterRows(w)
        /\ ToldColumns(w) \in Nat
    BY WindowIs
  <2>4. ViewIs(e, w) BY ViewFits
  <2>5. /\ v.first \in Nat /\ v.first + v.buffer <= RowsBefore(e, Len(e.lines) + 1, Columns(w))
        /\ v.buffer \in Nat /\ v.menu \in Nat /\ v.cursorRow \in Nat /\ v.total = v.buffer + v.menu + Chrome(w)
        /\ v.cursorRow - HeaderRows(w) \in 0 .. v.buffer - 1
    BY <2>1, <2>4 DEF ViewIs
  <2>6. v.total \in Nat /\ v.cursorRow \in 0 .. v.total - 1
    <3>1. PICK c \in Nat, b \in Nat, m \in Nat, top \in Nat, foot \in Nat :
            /\ c = v.cursorRow /\ b = v.buffer /\ m = v.menu /\ top = HeaderRows(w) /\ foot = FooterRows(w)
            /\ v.total = b + m + (top + foot) /\ c - top <= b - 1
      <4>1. HeaderRows(w) \in Nat /\ FooterRows(w) \in Nat /\ v.total = v.buffer + v.menu + (HeaderRows(w) + FooterRows(w))
        BY <2>3, <2>5
      <4>2. v.cursorRow - HeaderRows(w) <= v.buffer - 1 BY <2>3, <2>5
      <4>3. QED BY <2>5, <4>1, <4>2
    <3>2. b + m + (top + foot) \in Nat /\ c <= b + m + (top + foot) - 1 BY <3>1
    <3>3. QED BY <3>1, <3>2
  <2>7. RowsBefore(e, Len(e.lines) + 1, Columns(w)) \in Nat BY CursorOnRow
  <2>8. ASSUME NEW n \in 1 .. v.total, n <= v.buffer PROVE RowWidth(e, v.first + n - 1, Columns(w)) \in Int
    <3>1. PICK r \in Nat : r = v.first + n - 1 /\ r < RowsBefore(e, Len(e.lines) + 1, Columns(w))
      <4>1. PICK f \in Nat, b \in Nat, all \in Nat :
              f = v.first /\ b = v.buffer /\ all = RowsBefore(e, Len(e.lines) + 1, Columns(w)) /\ f + b <= all
        BY <2>5, <2>7
      <4>2. n \in Nat /\ n >= 1 /\ n <= b BY <2>6, <2>8, <4>1
      <4>3. f + n - 1 \in Nat /\ f + n - 1 < all BY <4>1, <4>2
      <4>4. QED BY <4>1, <4>3
    <3>2. QED BY <3>1, RowIsWide
  <2>9. e.item \in Nat BY DEF Edited
  <2>10. ASSUME NEW n \in 1 .. v.total PROVE Drawing(e, w, v)[n] \in Int
    BY <2>3, <2>8, <2>9 DEF Drawing
  <2>11. Drawing(e, w, v) \in [1 .. v.total -> Int]
    <3>1. DOMAIN Drawing(e, w, v) = 1 .. v.total BY DEF Drawing
    <3>2. Drawing(e, w, v) = [n \in 1 .. v.total |-> Drawing(e, w, v)[n]] BY DEF Drawing
    <3>3. QED BY <2>10, <3>2
  <2>12. Drawing(e, w, v) \in Seq(Int) /\ Len(Drawing(e, w, v)) = v.total
    <3> DEFINE d == Drawing(e, w, v)
    <3>1. d \in [1 .. v.total -> Int] BY <2>11
    <3> HIDE DEF d
    <3>2. d \in Seq(Int) /\ Len(d) = v.total BY <2>6, <3>1
    <3>3. QED BY <3>2 DEF d
  <2>13. QED BY <2>2, <2>6, <2>12
<1>3. QED BY <1>1, <1>2

LEMMA ColumnIs ==
  ASSUME NEW e, Edited(e), NEW w \in Windows, Roomy(Columns(w))
  PROVE  CursorColumn(e, w) \in Nat
<1>1. PICK columns \in Nat : columns = Columns(w) /\ columns >= 2 BY WindowIs, WindowsAssumption DEF Roomy
<1>2. PICK upto, before : upto = Prefix(e, e.row) + e.col * e.width /\ before = RowsBefore(e, e.row, columns) OBVIOUS
<1>3. e.row \in 1 .. Len(e.lines) /\ e.col \in 0 .. e.lines[e.row] BY DEF Edited
<1>4. Prefix(e, e.row) \in Nat /\ e.width \in {1, 2} /\ e.lines[e.row] \in Nat BY <1>1, <1>3, RowsOfLine
<1>5. upto \in Nat BY <1>2, <1>3, <1>4
<1>6. Cursor(e, columns).col \in Nat
  <2>1. CASE upto < columns
    <3>1. Cursor(e, columns) = [row |-> before, col |-> upto] BY <1>2, <2>1, CursorPlaced
    <3>2. QED BY <1>5, <3>1
  <2>2. CASE ~(upto < columns)
    <3>1. Cursor(e, columns) = [row |-> before + 1 + (upto - columns) \div columns, col |-> (upto - columns) % columns]
      BY <1>2, <2>2, CursorPlaced
    <3>2. (upto - columns) % columns \in Nat BY <1>1, <1>5, <2>2
    <3>3. QED BY <3>1, <3>2
  <2>3. QED BY <2>1, <2>2
<1>7. SearchLabel \in Nat /\ Gutter \in Nat BY WindowsAssumption
<1>8. Gutter \div 2 \in Nat BY <1>7
<1>9. QED BY <1>1, <1>6, <1>7, <1>8 DEF CursorColumn

LEMMA HeightsAre ==
  ASSUME NEW widths \in Seq(Int), NEW columns \in Nat, columns >= 1
  PROVE  /\ Heights(widths, columns) \in [1 .. Len(widths) -> Nat]
         /\ \A n \in 1 .. Len(widths) : Heights(widths, columns)[n] >= 1
         /\ (\A n \in 1 .. Len(widths) : widths[n] <= columns)
              => \A n \in 1 .. Len(widths) : Heights(widths, columns)[n] = 1
<1> DEFINE height(u) == Most(1, RoundedUp(u, columns))
<1>1. ASSUME NEW u \in Int PROVE height(u) \in Nat /\ height(u) >= 1 /\ (u <= columns => height(u) = 1)
  <2>1. PICK x \in Int : x = RoundedUp(u, columns) /\ (u <= columns => x <= 1)
    <3>1. PICK y \in Int : y = u + columns - 1 OBVIOUS
    <3>2. y \div columns \in Int OBVIOUS
    <3>3. u <= columns => y < 2 * columns BY <3>1
    <3>4. u <= columns => y \div columns < 2 BY <3>3
    <3>5. QED BY <3>1, <3>2, <3>4 DEF RoundedUp
  <2>2. QED BY <2>1 DEF Most
<1>2. \A n \in 1 .. Len(widths) : widths[n] \in Int OBVIOUS
<1>3. Heights(widths, columns) = [n \in 1 .. Len(widths) |-> height(widths[n])] BY DEF Heights
<1>4. PICK N \in Nat : N = Len(widths) OBVIOUS
<1> HIDE DEF height
<1>5. PICK h : h = Heights(widths, columns) /\ h = [n \in 1 .. N |-> height(widths[n])] BY <1>3, <1>4
<1>6. ASSUME NEW n \in 1 .. N PROVE h[n] \in Nat /\ h[n] >= 1 /\ (widths[n] <= columns => h[n] = 1)
  <2>1. widths[n] \in Int /\ h[n] = height(widths[n]) BY <1>2, <1>4, <1>5
  <2>2. QED BY <1>1, <2>1
<1>7. h \in [1 .. N -> Nat] BY <1>5, <1>6
<1>8. QED BY <1>4, <1>5, <1>6, <1>7

(* The numbers a draw is made of. *)
GoesUp(up, N, at, rows) ==
  /\ up = Least(Most(0, N - 1 - at), rows - 1) /\ up <= N - 1 - at
  /\ N <= rows => up = N - 1 - at

LEMMA UpIs ==
  ASSUME NEW N \in Nat, NEW at \in Nat, at < N, NEW rows \in Nat, rows >= 1
  PROVE  \E up \in Nat : GoesUp(up, N, at, rows)
<1>1. PICK m \in Nat, x \in Nat : m = N - 1 - at /\ x = rows - 1 /\ (N <= rows => m <= x) OBVIOUS
<1>2. Most(0, m) = m BY DEF Most
<1>3. Least(m, x) \in Nat /\ Least(m, x) <= m /\ (N <= rows => Least(m, x) = m) BY <1>1 DEF Least
<1>4. QED BY <1>1, <1>2, <1>3 DEF GoesUp

LEMMA OffsetIs ==
  ASSUME NEW row \in Nat, NEW top \in Nat, top <= row, NEW columns \in Nat, columns >= 1, NEW col \in Nat
  PROVE  (row - top) * columns + Least(col, columns - 1) \in Nat
<1>1. PICK d \in Nat, c \in Nat : d = row - top /\ c = Least(col, columns - 1) BY DEF Least
<1>2. d * columns \in Nat OBVIOUS
<1>3. d * columns + c \in Nat BY <1>2
<1>4. QED BY <1>1, <1>3

LEMMA WholeIs ==
  ASSUME NEW o \in Nat, NEW columns \in Nat, columns >= 1
  PROVE  o \div columns \in Nat /\ (o < columns => o \div columns = 0)
<1>1. PICK k \in Nat : k = o \div columns /\ k * columns <= o OBVIOUS
<1>2. ASSUME o < columns PROVE k = 0
  <2>1. SUFFICES ASSUME k >= 1 PROVE FALSE OBVIOUS
  <2>2. (k - 1) * columns >= 0 BY <2>1
  <2>3. (k - 1) * columns = k * columns - columns OBVIOUS
  <2>4. k * columns \in Nat OBVIOUS
  <2>5. QED BY <1>1, <1>2, <2>2, <2>3, <2>4
<1>3. QED BY <1>1, <1>2

(* Up from the last of lines of one row at least, and the cell that is there. *)
EndsOn(row, line, h, N, at, up) ==
  /\ row = Top(h, N + 1) - 1 - up /\ row < Top(h, N + 1) /\ row >= line - 1 /\ line >= at + 1
  /\ line = CHOOSE i \in 1 .. N : Top(h, i) <= row /\ row < Top(h, i + 1)
  /\ Top(h, line) \in Nat /\ Top(h, line) <= row
  /\ (\A n \in 1 .. N : h[n] = 1) /\ up = N - 1 - at => row = at /\ line = at + 1

LEMMA UpFromLast ==
  ASSUME NEW N \in Nat, NEW h \in [1 .. N -> Nat], \A n \in 1 .. N : h[n] >= 1,
         NEW at \in Nat, at < N, NEW up \in Nat, up <= N - 1 - at
  PROVE  \E row \in Nat, line \in 1 .. N : EndsOn(row, line, h, N, at, up)
<1> DEFINE Ones == \A n \in 1 .. N : h[n] = 1
<1>1. \A i, j \in 1 .. N + 1 : i <= j =>
        /\ Top(h, i) \in Nat /\ Top(h, j) \in Nat /\ Top(h, j) >= Top(h, i) + (j - i)
        /\ Ones => Top(h, j) = Top(h, i) + (j - i)
  BY TopGrows
<1>2. Top(h, 1) = 0 BY TopSteps
<1> HIDE DEF Ones
<1>3. PICK a \in Nat, b \in Nat : /\ a = Top(h, at + 1) /\ b = Top(h, N + 1) /\ b >= a + (N - at)
                                  /\ Ones => a = at /\ b = N
  <2>1. at + 1 \in 1 .. N + 1 /\ N + 1 \in 1 .. N + 1 /\ at + 1 <= N + 1 /\ 1 \in 1 .. N + 1 /\ 1 <= at + 1
        /\ (N + 1) - (at + 1) = N - at /\ (at + 1) - 1 = at /\ (N + 1) - 1 = N /\ 1 <= N + 1
    OBVIOUS
  <2>2. /\ Top(h, at + 1) \in Nat /\ Top(h, N + 1) \in Nat
        /\ Top(h, N + 1) >= Top(h, at + 1) + ((N + 1) - (at + 1))
    BY <1>1, <2>1
  <2>3. Ones => Top(h, at + 1) = Top(h, 1) + ((at + 1) - 1) /\ Top(h, N + 1) = Top(h, 1) + ((N + 1) - 1)
    BY <1>1, <2>1
  <2>4. QED BY <1>2, <2>1, <2>2, <2>3
<1>4. PICK row \in Nat : row = b - 1 - up /\ row >= a /\ row < b
  <2>1. b - 1 - up \in Int /\ b - 1 - up >= a /\ b - 1 - up < b
    <3>1. up <= N - 1 - at /\ b >= a + (N - at) /\ up >= 0 BY <1>3
    <3>2. QED BY <3>1
  <2>2. b - 1 - up \in Nat BY <2>1
  <2>3. QED BY <2>1, <2>2
<1>5. row = Top(h, N + 1) - 1 - up /\ row < Top(h, N + 1) BY <1>3, <1>4
<1>6. PICK line \in 1 .. N : /\ line = CHOOSE i \in 1 .. N : Top(h, i) <= row /\ row < Top(h, i + 1)
                             /\ Top(h, line) <= row /\ row < Top(h, line + 1)
  <2>1. \E i \in 1 .. N : Top(h, i) <= row /\ row < Top(h, i + 1) BY <1>5, LineOfRow
  <2>2. QED BY <2>1
<1>7. PICK top \in Nat : top = Top(h, line) /\ top <= row /\ top >= line - 1 /\ (Ones => top = line - 1)
  <2>1. line \in 1 .. N + 1 /\ 1 \in 1 .. N + 1 /\ 1 <= line OBVIOUS
  <2>2. /\ Top(h, line) \in Nat /\ Top(h, line) >= Top(h, 1) + (line - 1)
        /\ Ones => Top(h, line) = Top(h, 1) + (line - 1)
    BY <1>1, <2>1
  <2>3. PICK top \in Nat : top = Top(h, line) BY <2>2
  <2>4. top >= line - 1 /\ (Ones => top = line - 1) BY <1>2, <2>2, <2>3
  <2>5. top <= row BY <1>6, <2>3
  <2>6. QED BY <2>3, <2>4, <2>5
<1>8. line >= at + 1
  <2>1. SUFFICES ASSUME line <= at PROVE FALSE OBVIOUS
  <2>2. line + 1 \in 1 .. N + 1 /\ at + 1 \in 1 .. N + 1 /\ line + 1 <= at + 1 BY <2>1
  <2>3. Top(h, at + 1) >= Top(h, line + 1) + ((at + 1) - (line + 1)) /\ Top(h, line + 1) \in Nat BY <1>1, <2>2
  <2>4. PICK t \in Nat : t = Top(h, line + 1) /\ a >= t + ((at + 1) - (line + 1)) BY <1>3, <2>3
  <2>5. a >= t BY <2>1, <2>4
  <2>6. row < t BY <1>6, <2>4
  <2>7. QED BY <1>4, <2>5, <2>6
<1>9. ASSUME Ones, up = N - 1 - at PROVE row = at /\ line = at + 1
  <2>1. b = N /\ top = line - 1 BY <1>3, <1>7, <1>9
  <2>2. row = at BY <1>4, <1>9, <2>1
  <2>3. QED BY <1>7, <1>8, <2>1, <2>2
<1>10. row >= line - 1 BY <1>7
<1>11. EndsOn(row, line, h, N, at, up) BY <1>5, <1>6, <1>7, <1>8, <1>9, <1>10 DEF Ones, EndsOn
<1>12. QED BY <1>11

(* Where a draw leaves the cursor: on the row that is kept when all of it fits, on a
   later line at most when not. *)
LandsOn(row, cell, widths, at, w, col) ==
  /\ row = Parked(widths, at, w) /\ cell = CellOn(widths, w.columns, row, col)
  /\ cell.line \in at + 1 .. Len(widths) /\ cell.offset \in Nat /\ row >= cell.line - 1
  /\ (\A n \in 1 .. Len(widths) : widths[n] <= w.columns) /\ Len(widths) <= w.rows
       => row = at /\ cell.line = at + 1

LEMMA Landed ==
  ASSUME NEW widths \in Seq(Int), NEW at \in 0 .. Len(widths) - 1, NEW w \in Windows, NEW col \in Nat
  PROVE  \E row \in Nat : \E cell : LandsOn(row, cell, widths, at, w, col)
<1>1. PICK N \in Nat : N = Len(widths) /\ N >= 1 /\ at \in Nat /\ at < N OBVIOUS
<1>2. PICK columns \in Nat, rows \in Nat : columns = w.columns /\ rows = w.rows /\ columns >= 1 /\ rows >= 1
  BY WindowsAssumption
<1>3. PICK h \in [1 .. N -> Nat] :
        /\ h = Heights(widths, columns) /\ \A n \in 1 .. N : h[n] >= 1
        /\ (\A n \in 1 .. N : widths[n] <= columns) => \A n \in 1 .. N : h[n] = 1
  BY <1>1, <1>2, HeightsAre
<1>4. PICK up \in Nat : GoesUp(up, N, at, rows)
  <2>1. at \in Nat /\ at < N /\ rows >= 1 BY <1>1, <1>2
  <2>2. QED BY <2>1, UpIs, Zenon
<1>5. PICK row \in Nat, line \in 1 .. N : EndsOn(row, line, h, N, at, up)
  <2>1. at \in Nat /\ at < N /\ up <= N - 1 - at BY <1>1, <1>4 DEF GoesUp
  <2>2. \A n \in 1 .. N : h[n] >= 1 BY <1>3
  <2>3. QED BY <2>1, <2>2, UpFromLast, Zenon
<1>6. row = Parked(widths, at, w) BY <1>1, <1>2, <1>3, <1>4, <1>5 DEF Parked, GoesUp, EndsOn
<1>7. PICK offset \in Nat : offset = (row - Top(h, line)) * columns + Least(col, columns - 1)
  BY <1>2, <1>5, OffsetIs DEF EndsOn
<1>8. PICK cell : cell = [line |-> line, offset |-> offset] OBVIOUS
<1>9. cell = CellOn(widths, w.columns, row, col)
  BY <1>1, <1>2, <1>3, <1>5, <1>7, <1>8, Zenon DEF CellOn, EndsOn
<1>10. cell.line = line /\ cell.offset = offset BY <1>8
<1>11. line \in at + 1 .. Len(widths) /\ row >= line - 1 BY <1>1, <1>5 DEF EndsOn
<1>12. ASSUME \A n \in 1 .. Len(widths) : widths[n] <= w.columns, Len(widths) <= w.rows
       PROVE  row = at /\ line = at + 1
  <2>1. (\A n \in 1 .. N : widths[n] <= columns) /\ N <= rows BY <1>1, <1>2, <1>12
  <2>2. (\A n \in 1 .. N : h[n] = 1) /\ up = N - 1 - at BY <1>3, <1>4, <2>1 DEF GoesUp
  <2>3. QED BY <1>5, <2>2 DEF EndsOn
<1>13. LandsOn(row, cell, widths, at, w, col) BY <1>6, <1>9, <1>10, <1>11, <1>12 DEF LandsOn
<1>14. QED BY <1>13

(* A cell's row is no higher than its line, and its line when all fits. *)
LEMMA RowOfIs ==
  ASSUME NEW widths \in Seq(Int), NEW columns \in Nat, columns >= 1, NEW cell,
         cell.line \in 1 .. Len(widths), cell.offset \in Nat
  PROVE  /\ RowOf(widths, cell, columns) \in Nat /\ RowOf(widths, cell, columns) >= cell.line - 1
         /\ (\A n \in 1 .. Len(widths) : widths[n] <= columns) /\ cell.offset < columns
              => RowOf(widths, cell, columns) = cell.line - 1
<1>1. PICK N \in Nat : N = Len(widths) OBVIOUS
<1>2. PICK h \in [1 .. N -> Nat] :
        /\ h = Heights(widths, columns) /\ \A n \in 1 .. N : h[n] >= 1
        /\ (\A n \in 1 .. N : widths[n] <= columns) => \A n \in 1 .. N : h[n] = 1
  BY <1>1, HeightsAre
<1>3. PICK o \in Nat, k \in Nat : o = cell.offset /\ k = o \div columns /\ (o < columns => k = 0)
  <2>1. PICK o \in Nat : o = cell.offset OBVIOUS
  <2>2. o \div columns \in Nat /\ (o < columns => o \div columns = 0) BY WholeIs
  <2>3. QED BY <2>1, <2>2
<1>4. PICK line \in 1 .. N : line = cell.line BY <1>1
<1>5. Top(h, 1) = 0 BY TopSteps
<1>6. PICK top \in Nat : /\ top = Top(h, line) /\ top >= line - 1
                         /\ (\A n \in 1 .. N : h[n] = 1) => top = line - 1
  <2>1. line \in 1 .. N + 1 /\ 1 \in 1 .. N + 1 /\ 1 <= line OBVIOUS
  <2>2. /\ Top(h, line) \in Nat /\ Top(h, line) >= Top(h, 1) + (line - 1)
        /\ (\A n \in 1 .. N : h[n] = 1) => Top(h, line) = Top(h, 1) + (line - 1)
    BY <1>2, <2>1, TopGrows
  <2>3. QED BY <1>5, <2>2
<1>7. RowOf(widths, cell, columns) = top + k BY <1>2, <1>3, <1>4, <1>6 DEF RowOf
<1>8. top + k \in Nat /\ top + k >= line - 1 BY <1>6
<1>9. ASSUME \A n \in 1 .. N : widths[n] <= columns, o < columns PROVE top + k = line - 1
  <2>1. \A n \in 1 .. N : h[n] = 1 BY <1>2, <1>9
  <2>2. QED BY <1>3, <1>6, <1>9, <2>1
<1>10. QED BY <1>1, <1>3, <1>4, <1>7, <1>8, <1>9

(* Characters of one column each are drawn where the terminal has the cursor. *)
LEMMA OnText ==
  ASSUME NEW e, Edited(e), NEW columns, Roomy(columns), e.width = 1, e.col < e.lines[e.row]
  PROVE  Cursor(e, columns) =
           IF e.col < OnFirst(e.lines[e.row], Prefix(e, e.row), columns, 1)
           THEN [row |-> RowsBefore(e, e.row, columns), col |-> Prefix(e, e.row) + e.col * 1]
           ELSE [row |-> RowsBefore(e, e.row, columns) + 1
                           + (e.col - OnFirst(e.lines[e.row], Prefix(e, e.row), columns, 1)) \div OnRest(columns, 1),
                 col |-> ((e.col - OnFirst(e.lines[e.row], Prefix(e, e.row), columns, 1)) % OnRest(columns, 1)) * 1]
<1>1. PICK n, prefix, col : n = e.lines[e.row] /\ prefix = Prefix(e, e.row) /\ col = e.col OBVIOUS
<1>2. PICK first, per : first = OnFirst(n, prefix, columns, 1) /\ per = OnRest(columns, 1) OBVIOUS
<1>3. e.row \in 1 .. Len(e.lines) /\ col \in 0 .. n /\ col < n BY <1>1 DEF Edited
<1>4. n \in Nat /\ prefix \in Nat /\ columns \in Nat /\ columns >= prefix + 2 BY <1>1, <1>3, RowsOfLine DEF Roomy
<1>5. per = columns /\ first = IF n <= columns - prefix THEN n ELSE columns - prefix
  <2>1. /\ OnRest(columns, 1) = columns
        /\ OnFirst(n, prefix, columns, 1) = IF n <= columns - prefix THEN n ELSE columns - prefix
    BY <1>4, NarrowFits
  <2>2. QED BY <1>2, <2>1
<1>6. e.col * e.width = col /\ e.col * 1 = col BY <1>1, <1>3
<1>7. CASE col < first
  <2>1. prefix + col < columns BY <1>3, <1>4, <1>5, <1>7
  <2>2. Cursor(e, columns) = [row |-> RowsBefore(e, e.row, columns), col |-> prefix + col]
    BY <1>1, <1>6, <2>1 DEF Cursor
  <2>3. QED BY <1>1, <1>2, <1>6, <1>7, <2>2
<1>8. CASE ~(col < first)
  <2>1. ~(prefix + col < columns) /\ prefix + col - columns = col - first /\ col - first \in Nat
    BY <1>3, <1>4, <1>5, <1>8
  <2>2. PICK over : over = col - first /\ over = prefix + col - columns /\ over \in Nat BY <2>1
  <2>3. Cursor(e, columns) =
          [row |-> RowsBefore(e, e.row, columns) + 1 + over \div columns, col |-> over % columns]
    <3>1. PICK before, upto : before = RowsBefore(e, e.row, columns) /\ upto = Prefix(e, e.row) + e.col * e.width OBVIOUS
    <3>2. ~(upto < columns) /\ upto - columns = over
      <4>1. upto = prefix + col BY <1>1, <1>6, <3>1
      <4>2. QED BY <1>3, <1>4, <2>1, <2>2, <4>1
    <3>3. Cursor(e, columns) =
            [row |-> before + 1 + (upto - columns) \div columns, col |-> (upto - columns) % columns]
      BY <3>1, <3>2, CursorPlaced
    <3>4. QED BY <3>1, <3>2, <3>3, Zenon
  <2>4. over % columns \in Nat BY <1>4, <2>2
  <2>5. (over % per) * 1 = over % columns BY <1>5, <2>4
  <2>6. ~(e.col < OnFirst(e.lines[e.row], Prefix(e, e.row), columns, 1)) BY <1>1, <1>2, <1>8, Zenon
  <2>7. e.col - OnFirst(e.lines[e.row], Prefix(e, e.row), columns, 1) = over /\ OnRest(columns, 1) = per
    BY <1>1, <1>2, <2>2, Zenon
  <2>8. QED BY <1>5, <2>3, <2>5, <2>6, <2>7, Zenon
<1>9. QED BY <1>7, <1>8

-----------------------------------------------------------------------------
(* The block.                                                              *)

ViewportInv ==
  /\ input \in Inputs /\ window \in Windows /\ drawnIn \in Windows /\ strayed >= 0
  /\ kept # Undrawn =>
       /\ painted \in Seq(Int) /\ kept \in 0 .. Len(painted) - 1
       /\ spot.line \in kept + 1 .. Len(painted) /\ spot.offset \in Nat
       /\ parked \in Nat /\ parked >= spot.line - 1
       /\ Fitting(drawnIn.columns) /\ Len(painted) <= drawnIn.rows =>
            /\ spot.line = kept + 1
            /\ ~window.reflows \/ Fitting(window.columns) => parked = kept

(* What a draw makes of the block. *)
LEMMA DrawStep ==
  ASSUME NEW e \in Inputs, Edited(e), window \in Windows, Roomy(Columns(window)),
         input' = e, window' = window, Draw(e, window), kept' = CursorRowOf(e, window), strayed' >= 0
  PROVE  ViewportInv'
<1>1. PICK lines \in Seq(Int) : lines = Painted(e, window) /\ CursorRowOf(e, window) \in 0 .. Len(lines) - 1
  BY PaintedIs
<1>2. PICK col \in Nat : col = CursorColumn(e, window) BY ColumnIs
<1>3. PICK at \in 0 .. Len(lines) - 1 : at = CursorRowOf(e, window) BY <1>1
<1>4. PICK row \in Nat : \E cell : LandsOn(row, cell, lines, at, window, col)
  BY <1>1, <1>2, <1>3, Landed, Zenon
<1>5. PICK cell : LandsOn(row, cell, lines, at, window, col) BY <1>4
<1>6. painted' = lines /\ drawnIn' = window /\ parked' = row /\ spot' = cell BY <1>1, <1>2, <1>3, <1>5 DEF Draw, LandsOn
<1>7. Fitting(drawnIn.columns)' => \A n \in 1 .. Len(lines) : lines[n] <= window.columns BY <1>6 DEF Fitting
<1>8. kept' = at BY <1>3
<1>9. QED BY <1>1, <1>3, <1>5, <1>6, <1>7, <1>8 DEF ViewportInv, LandsOn

(* A redraw never begins above the block, whatever is typed, with or without a menu or a
   search, however the window was resized in between, of a terminal that reflows and of
   one that does not; it begins at its first row as long as all that is drawn fits the
   window. The cursor is on a row of the input that is drawn (layout, viewport,
   renderEditor). The editor must be told two columns more than its prompts take. *)
THEOREM TheBlockIsKnown ==
  (\A w \in Windows : Roomy(Columns(w))) => (ViewSpec => []BlockKnown)
<1> SUFFICES ASSUME \A w \in Windows : Roomy(Columns(w)) PROVE ViewSpec => []BlockKnown OBVIOUS
<1>1. \A e \in Inputs : Edited(e) BY InputsAssumption DEF Edited
<1>2. ViewInit => ViewportInv BY DEF ViewInit, ViewportInv, Undrawn
<1>3. ViewportInv /\ [ViewNext]_viewVars => ViewportInv'
  <2> SUFFICES ASSUME ViewportInv, [ViewNext]_viewVars PROVE ViewportInv' OBVIOUS
  <2>0. input \in Inputs /\ window \in Windows /\ Roomy(Columns(window)) BY DEF ViewportInv
  <2>1. kept # Undrawn => From(Most(0, kept)) >= 0
    <3>1. SUFFICES ASSUME kept # Undrawn PROVE From(Most(0, kept)) >= 0 OBVIOUS
    <3>2. kept \in Nat /\ parked \in Nat /\ kept <= parked
      <4>1. /\ kept \in 0 .. Len(painted) - 1 /\ painted \in Seq(Int) /\ spot.line \in kept + 1 .. Len(painted)
            /\ parked \in Nat /\ parked >= spot.line - 1
        BY <3>1 DEF ViewportInv
      <4>2. QED BY <4>1
    <3>3. window.rows \in Nat \ {0} BY <2>0, WindowsAssumption
    <3>4. QED BY <3>2, <3>3 DEF From, Least, Most
  <2>2. CASE Begins BY <1>1, <2>0, <2>2, DrawStep DEF Begins, DrawnAnew
  <2>3. CASE KeyPressed BY <1>1, <2>0, <2>1, <2>3, DrawStep DEF KeyPressed, Redrawn
  <2>4. CASE ClearScreen BY <1>1, <2>0, <2>4, DrawStep DEF ClearScreen, DrawnAnew
  <2>5. CASE ModeCycled
    <3>1. kept # Undrawn /\ input' \in Inputs /\ window' = window /\ (Redrawn(input') \/ DrawnAnew(input'))
      BY <2>5 DEF ModeCycled
    <3>2. Draw(input', window) /\ kept' = CursorRowOf(input', window) /\ strayed' >= 0
      BY <2>1, <3>1 DEF Redrawn, DrawnAnew
    <3>3. QED BY <1>1, <2>0, <3>1, <3>2, DrawStep
  <2>6. CASE Resized
    <3>1. /\ window' \in Windows /\ window'.reflows = window.reflows
          /\ UNCHANGED <<input, painted, drawnIn, spot, kept, strayed>>
          /\ parked' = IF window.reflows /\ kept # Undrawn THEN RowOf(painted, spot, window'.columns) ELSE parked
      BY <2>6 DEF Resized
    <3>2. CASE kept = Undrawn BY <3>1, <3>2 DEF ViewportInv
    <3>3. CASE kept # Undrawn /\ ~window.reflows BY <3>1, <3>3 DEF ViewportInv, Fitting
    <3>4. CASE kept # Undrawn /\ window.reflows
      <4>1. window'.columns \in Nat /\ window'.columns >= 1 BY <3>1, WindowsAssumption
      <4>2. /\ painted \in Seq(Int) /\ kept \in 0 .. Len(painted) - 1
            /\ spot.line \in kept + 1 .. Len(painted) /\ spot.offset \in Nat
        BY <3>4 DEF ViewportInv
      <4>3. spot.line \in 1 .. Len(painted) BY <4>2
      <4>4. /\ parked' \in Nat /\ parked' >= spot.line - 1
            /\ (\A n \in 1 .. Len(painted) : painted[n] <= window'.columns) /\ spot.offset < window'.columns
                 => parked' = spot.line - 1
        BY <3>1, <3>4, <4>1, <4>2, <4>3, RowOfIs
      <4>5. Fitting(window.columns)' => parked' = spot.line - 1 BY <3>1, <4>4 DEF Fitting
      <4>6. Fitting(drawnIn.columns)' <=> Fitting(drawnIn.columns) BY <3>1 DEF Fitting
      <4>7. Fitting(drawnIn.columns) /\ Len(painted) <= drawnIn.rows => spot.line = kept + 1 BY <3>4 DEF ViewportInv
      <4>8. QED BY <3>1, <3>4, <4>2, <4>4, <4>5, <4>6, <4>7 DEF ViewportInv
    <3>5. QED BY <2>0, <3>2, <3>3, <3>4
  <2>7. CASE TakeDown BY <2>0, <2>7 DEF ViewportInv, TakeDown
  <2>8. CASE UNCHANGED viewVars BY <2>8 DEF ViewportInv, viewVars, Fitting
  <2>9. QED BY <2>2, <2>3, <2>4, <2>5, <2>6, <2>7, <2>8 DEF ViewNext
<1>4. ViewportInv => BlockKnown
  <2> SUFFICES ASSUME ViewportInv, kept # Undrawn PROVE BlockKnown BY DEF BlockKnown, ViewportInv
  <2>1. Edited(input) /\ window \in Windows /\ Roomy(Columns(window)) BY <1>1 DEF ViewportInv
  <2>2. ViewIs(input, window) BY <2>1, ViewFits
  <2>3. input.width = 1 => CursorOnText
    <3> SUFFICES ASSUME input.width = 1, input.col < input.lines[input.row] PROVE CursorOnText BY DEF CursorOnText
    <3>1. QED BY <2>1, OnText DEF CursorOnText
  <2>4. /\ painted \in Seq(Int) /\ kept \in 0 .. Len(painted) - 1 /\ spot.line \in kept + 1 .. Len(painted)
        /\ parked \in Nat /\ parked >= spot.line - 1 /\ strayed >= 0
        /\ Fitting(drawnIn.columns) /\ Len(painted) <= drawnIn.rows /\ Fitting(window.columns) => parked = kept
    BY DEF ViewportInv
  <2>5. kept < Len(painted) /\ kept <= parked BY <2>4
  <2>6. QED BY <2>2, <2>3, <2>4, <2>5 DEF BlockKnown, ViewIs
<1>5. QED BY <1>2, <1>3, <1>4, PTL DEF ViewSpec

-----------------------------------------------------------------------------

(* Screen. A sequence lists a set when it has each member once, in order.      *)

Lists(s, S) ==
  /\ {s[i] : i \in 1 .. Len(s)} = S
  /\ \A i, j \in 1 .. Len(s) : i < j => s[i] < s[j]

LEMMA ListsMore ==
  ASSUME NEW s \in Seq(Nat), NEW S, Lists(s, S), NEW n \in Nat, \A x \in S : x < n
  PROVE  Append(s, n) \in Seq(Nat) /\ Lists(Append(s, n), S \cup {n})
<1> DEFINE t == Append(s, n)
<1>1. t \in Seq(Nat) /\ Len(t) = Len(s) + 1 /\ t[Len(s) + 1] = n OBVIOUS
<1>2. \A i \in 1 .. Len(s) : t[i] = s[i] OBVIOUS
<1>3. Len(s) \in Nat /\ \A i \in 1 .. Len(s) : s[i] \in Nat OBVIOUS
<1> HIDE DEF t
<1>4. {t[i] : i \in 1 .. Len(t)} = S \cup {n}
  <2>1. ASSUME NEW i \in 1 .. Len(t) PROVE t[i] \in S \cup {n}
    <3>1. CASE i = Len(s) + 1 BY <1>1, <3>1
    <3>2. CASE i \in 1 .. Len(s) BY <1>2, <3>2 DEF Lists
    <3>3. QED BY <1>1, <1>3, <3>1, <3>2
  <2>2. ASSUME NEW x \in S \cup {n} PROVE x \in {t[i] : i \in 1 .. Len(t)}
    <3>1. CASE x = n
      <4>1. Len(s) + 1 \in 1 .. Len(t) BY <1>1, <1>3
      <4>2. QED BY <1>1, <3>1, <4>1
    <3>2. CASE x \in S
      <4>1. PICK i \in 1 .. Len(s) : x = s[i] BY <3>2 DEF Lists
      <4>2. i \in 1 .. Len(t) BY <1>1, <1>3
      <4>3. QED BY <1>2, <4>1, <4>2
    <3>3. QED BY <3>1, <3>2
  <2>3. QED BY <2>1, <2>2
<1>5. ASSUME NEW i \in 1 .. Len(t), NEW j \in 1 .. Len(t), i < j PROVE t[i] < t[j]
  <2>1. i \in 1 .. Len(s) BY <1>1, <1>3, <1>5
  <2>2. t[i] = s[i] /\ s[i] \in S BY <1>2, <2>1 DEF Lists
  <2>3. CASE j = Len(s) + 1 BY <1>1, <2>2, <2>3
  <2>4. CASE j \in 1 .. Len(s) BY <1>2, <1>5, <2>1, <2>4 DEF Lists
  <2>5. QED BY <1>1, <1>3, <2>3, <2>4
<1>6. QED BY <1>1, <1>4, <1>5 DEF Lists, t

(* Without its end it lists what is not in the end. *)
LEMMA ListsLess ==
  ASSUME NEW s \in Seq(Nat), NEW t \in Seq(Nat), NEW S, Lists(s \o t, S)
  PROVE  /\ Lists(s, S \ {t[i] : i \in 1 .. Len(t)})
         /\ {t[i] : i \in 1 .. Len(t)} \subseteq S
<1> DEFINE u == s \o t
<1>1. u \in Seq(Nat) /\ Len(u) = Len(s) + Len(t) OBVIOUS
<1>2. \A i \in 1 .. Len(s) : u[i] = s[i] /\ s[i] \in Nat OBVIOUS
<1>3. \A i \in 1 .. Len(t) : u[Len(s) + i] = t[i] /\ t[i] \in Nat OBVIOUS
<1>4. Len(s) \in Nat /\ Len(t) \in Nat OBVIOUS
<1>0. Lists(u, S) OBVIOUS
<1> HIDE DEF u
<1>5. \A i \in 1 .. Len(s) : i \in 1 .. Len(u) BY <1>1, <1>4
<1>6. \A i \in 1 .. Len(t) : Len(s) + i \in 1 .. Len(u) BY <1>1, <1>4
<1>7. ASSUME NEW i \in 1 .. Len(t) PROVE t[i] \in S BY <1>0, <1>3, <1>6 DEF Lists
<1>8. ASSUME NEW i \in 1 .. Len(s) PROVE s[i] \in S \ {t[j] : j \in 1 .. Len(t)}
  <2>1. s[i] \in S BY <1>0, <1>2, <1>5 DEF Lists
  <2>2. ASSUME NEW j \in 1 .. Len(t) PROVE s[i] # t[j]
    <3>1. i < Len(s) + j BY <1>4
    <3>2. u[i] < u[Len(s) + j] BY <1>0, <1>5, <1>6, <3>1 DEF Lists
    <3>3. QED BY <1>2, <1>3, <3>2
  <2>3. QED BY <2>1, <2>2
<1>9. ASSUME NEW x \in S \ {t[j] : j \in 1 .. Len(t)} PROVE x \in {s[i] : i \in 1 .. Len(s)}
  <2>1. PICK k \in 1 .. Len(u) : x = u[k] BY <1>0 DEF Lists
  <2>2. CASE k \in 1 .. Len(s) BY <1>2, <2>1, <2>2
  <2>3. CASE k \notin 1 .. Len(s)
    <3>1. PICK j \in 1 .. Len(t) : k = Len(s) + j
      <4>1. k - Len(s) \in 1 .. Len(t) /\ k = Len(s) + (k - Len(s)) BY <1>1, <1>4, <2>3
      <4>2. QED BY <4>1
    <3>2. x = t[j] BY <1>3, <2>1, <3>1
    <3>3. QED BY <1>9, <3>2
  <2>4. QED BY <2>2, <2>3
<1>10. \A i, j \in 1 .. Len(s) : i < j => s[i] < s[j] BY <1>0, <1>2, <1>5 DEF Lists
<1>11. QED BY <1>7, <1>8, <1>9, <1>10 DEF Lists

-----------------------------------------------------------------------------
(* The markdown stream: what it is, and that what is printed and what it holds  *)
(* are the lines so far.                                                       *)

Streams ==
  [line : Nat \ {0}, text : Nat, of : Nat, emitted : Nat, raw : BOOLEAN, code : BOOLEAN,
   candidate : Seq(Nat), table : Seq(Nat), wrote : BOOLEAN, echo : BOOLEAN, dropped : SUBSET Nat]

LinesOf(m) == (1 .. (m.line - 1)) \ m.dropped

Streaming(m, sh) ==
  /\ m \in Streams /\ sh \in Seq(Nat)
  /\ m.candidate = <<>> \/ m.table = <<>>
  /\ m.code => m.candidate = <<>> /\ m.table = <<>>
  /\ \A x \in m.dropped : x < m.line
  /\ Lists(sh \o Held(m), LinesOf(m))

(* What a line, a flush or a delta leaves as it was. *)
Follows(n, m) ==
  /\ n.echo = m.echo /\ m.dropped \subseteq n.dropped

LEMMA HeldIs ==
  ASSUME NEW m \in Streams
  PROVE  /\ Held(m) \in Seq(Nat)
         /\ m.table = <<>> => Held(m) = m.candidate
         /\ m.candidate = <<>> => Held(m) = m.table
         /\ Held(m) = <<>> <=> m.table = <<>> /\ m.candidate = <<>>
<1>1. m.table \in Seq(Nat) /\ m.candidate \in Seq(Nat) BY DEF Streams
<1>2. PICK t, c : t = m.table /\ c = m.candidate OBVIOUS
<1>3. t \in Seq(Nat) /\ c \in Seq(Nat) /\ Held(m) = t \o c BY <1>1, <1>2 DEF Held
<1>4. t \o c \in Seq(Nat) /\ Len(t \o c) = Len(t) + Len(c) BY <1>3
<1>5. t = <<>> => t \o c = c BY <1>3
<1>6. c = <<>> => t \o c = t BY <1>3
<1>7. ASSUME t \o c = <<>> PROVE t = <<>> /\ c = <<>>
  <2>1. Len(t) + Len(c) = 0 BY <1>4, <1>7
  <2>2. Len(t) \in Nat /\ Len(c) \in Nat BY <1>3
  <2>3. Len(t) = 0 /\ Len(c) = 0 BY <2>1, <2>2
  <2>4. QED BY <1>3, <2>3, EmptySeq
<1>8. QED BY <1>2, <1>3, <1>4, <1>5, <1>6, <1>7

(* A table is closed: its lines come out, or nothing is made of it. *)
LEMMA ClosedTable ==
  ASSUME NEW m, NEW sh, Streaming(m, sh), NEW fits \in BOOLEAN
  PROVE  /\ Closing(m, fits) \in Seq(Nat)
         /\ Streaming(CloseTable(m, fits), sh \o Closing(m, fits))
         /\ Held(CloseTable(m, fits)) = <<>>
         /\ CloseTable(m, fits).text = m.text /\ CloseTable(m, fits).of = m.of
         /\ CloseTable(m, fits).emitted = m.emitted /\ CloseTable(m, fits).line = m.line
         /\ Follows(CloseTable(m, fits), m)
         /\ Closing(m, fits) = <<>> => Held(m) = <<>> \/ CloseTable(m, fits).dropped # {}
<1>1. PICK c : c = CloseTable(m, fits) OBVIOUS
<1>2. PICK out : out = Closing(m, fits) OBVIOUS
<1>3. /\ m \in Streams /\ sh \in Seq(Nat) /\ Held(m) \in Seq(Nat)
      /\ Lists(sh \o Held(m), LinesOf(m)) /\ \A x \in m.dropped : x < m.line
      /\ m.candidate = <<>> \/ m.table = <<>>
  BY HeldIs DEF Streaming
<1>4. m.line \in Nat \ {0} /\ m.dropped \subseteq Nat /\ m.table \in Seq(Nat) BY <1>3 DEF Streams
<1>5. PICK cells \in SUBSET Nat : cells = {m.table[i] : i \in 1 .. Len(m.table)}
  <2>1. \A i \in 1 .. Len(m.table) : m.table[i] \in Nat BY <1>4
  <2>2. {m.table[i] : i \in 1 .. Len(m.table)} \subseteq Nat BY <2>1
  <2>3. QED BY <2>2
<1>6. PICK gone \in SUBSET Nat : gone = IF ~fits /\ Len(m.table) = 2 THEN m.dropped \cup cells ELSE m.dropped
  BY <1>4, <1>5
<1>7. c = [m EXCEPT !.table = <<>>, !.candidate = <<>>, !.dropped = gone]
  BY <1>1, <1>3, <1>5, <1>6 DEF CloseTable, Streams
<1>8. /\ c \in Streams /\ c.table = <<>> /\ c.candidate = <<>> /\ c.dropped = gone /\ c.line = m.line
      /\ c.text = m.text /\ c.of = m.of /\ c.emitted = m.emitted /\ c.echo = m.echo
  BY <1>3, <1>6, <1>7 DEF Streams
<1>9. Held(c) = <<>> BY <1>8, HeldIs
<1>10. /\ out \in Seq(Nat) /\ Lists(sh \o out, (1 .. (m.line - 1)) \ gone) /\ \A x \in gone : x < m.line
       /\ out = <<>> => Held(m) = <<>> \/ gone # {}
  <2>1. CASE ~fits /\ Len(m.table) = 2
    <3>1. m.candidate = <<>>
      <4>1. m.table # <<>> BY <2>1
      <4>2. QED BY <1>3, <4>1
    <3>2. Held(m) = m.table BY <1>3, <3>1, HeldIs
    <3>3. out = <<>> /\ gone = m.dropped \cup cells BY <1>2, <1>6, <2>1 DEF Closing
    <3>4. Lists(sh, LinesOf(m) \ cells) /\ cells \subseteq LinesOf(m)
      <4>1. PICK t \in Seq(Nat) : t = m.table BY <1>4
      <4>2. Lists(sh \o t, LinesOf(m)) BY <1>3, <3>2, <4>1, Zenon
      <4>3. cells = {t[i] : i \in 1 .. Len(t)} BY <1>5, <4>1, Zenon
      <4>4. sh \in Seq(Nat) BY <1>3
      <4>5. QED BY <4>1, <4>2, <4>3, <4>4, ListsLess, Zenon
    <3>5. LinesOf(m) \ cells = (1 .. (m.line - 1)) \ gone BY <3>3 DEF LinesOf
    <3>6. \A x \in cells : x < m.line BY <1>4, <3>4 DEF LinesOf
    <3>7. sh \o out = sh BY <1>3, <3>3
    <3>8. m.table[1] \in cells BY <1>4, <1>5, <2>1
    <3>9. Lists(sh \o out, (1 .. (m.line - 1)) \ gone) BY <3>4, <3>5, <3>7
    <3>10. gone # {} /\ \A x \in gone : x < m.line BY <1>3, <3>3, <3>6, <3>8
    <3>11. out \in Seq(Nat) BY <3>3
    <3>12. QED BY <3>9, <3>10, <3>11
  <2>2. CASE ~(~fits /\ Len(m.table) = 2)
    <3>1. out = Held(m) /\ gone = m.dropped BY <1>2, <1>6, <2>2 DEF Closing
    <3>2. QED BY <1>3, <3>1 DEF LinesOf
  <2>3. QED BY <2>1, <2>2
<1>11. sh \o out \in Seq(Nat) /\ (sh \o out) \o Held(c) = sh \o out
  <2>1. sh \o out \in Seq(Nat) BY <1>3, <1>10
  <2>2. QED BY <1>9, <2>1
<1>12. Streaming(c, sh \o out) BY <1>8, <1>10, <1>11 DEF Streaming, LinesOf
<1>13. m.dropped \subseteq gone BY <1>6
<1>14. Follows(c, m) BY <1>8, <1>13 DEF Follows
<1>15. QED BY <1>1, <1>2, <1>8, <1>9, <1>10, <1>12, <1>14

(* The stream after a line, by what that changes. *)
After(m, l, code, table, candidate, gone) ==
  [m EXCEPT !.line = l, !.text = 0, !.code = code, !.table = table, !.candidate = candidate, !.dropped = gone]

IsAfter(n, m, l, k, t, c, g) ==
  /\ n \in Streams /\ n.line = l /\ n.text = 0 /\ n.code = k /\ n.table = t /\ n.candidate = c
  /\ n.dropped = g /\ n.of = m.of /\ n.emitted = m.emitted /\ n.echo = m.echo

LEMMA AfterIs ==
  ASSUME NEW m \in Streams, NEW l \in Nat \ {0}, NEW k \in BOOLEAN, NEW t \in Seq(Nat), NEW c \in Seq(Nat),
         NEW g \in SUBSET Nat
  PROVE  IsAfter(After(m, l, k, t, c, g), m, l, k, t, c, g)
BY DEF Streams, After, IsAfter

LEMMA Appended ==
  ASSUME NEW s \in Seq(Nat), NEW n \in Nat
  PROVE  Append(s, n) \in Seq(Nat) /\ Append(s, n) # <<>> /\ s \o <<>> = s
<1>1. Append(s, n) \in Seq(Nat) /\ Len(Append(s, n)) = Len(s) + 1 /\ Len(s) \in Nat OBVIOUS
<1>2. Append(s, n) # <<>>
  <2>1. Len(Append(s, n)) # 0 BY <1>1
  <2>2. QED BY <2>1
<1>3. s \o <<>> = s OBVIOUS
<1>4. QED BY <1>1, <1>2, <1>3

LEMMA AppendedLast ==
  ASSUME NEW s \in Seq(Nat), NEW t \in Seq(Nat), NEW n \in Nat
  PROVE  s \o Append(t, n) = Append(s \o t, n)
OBVIOUS

LEMMA AppendedAlone == ASSUME NEW n, NEW t, t = <<>> PROVE Append(t, n) = <<n>>
OBVIOUS

(* Which lines are held and which come out. *)
RenderedAs(m, kind, l, cells, gone, rest, one) ==
  /\ m.code =>
       \E k \in BOOLEAN : one = [md |-> After(m, l, k, m.table, m.candidate, m.dropped), out |-> <<m.line>>]
  /\ ~m.code /\ m.table # <<>> /\ cells =>
       one = [md |-> After(m, l, m.code, Append(m.table, m.line), m.candidate, m.dropped), out |-> <<>>]
  /\ ~m.code /\ m.table = <<>> /\ m.candidate # <<>> /\ kind = "rule" =>
       one = [md |-> After(m, l, m.code, Append(m.candidate, m.line), <<>>, m.dropped), out |-> <<>>]
  /\ ~m.code /\ Held(m) = <<>> /\ cells =>
       one = [md |-> After(m, l, m.code, m.table, <<m.line>>, m.dropped), out |-> <<>>]
  /\ ~(m.code \/ (m.table # <<>> /\ cells) \/ (Held(m) = <<>> /\ cells)
         \/ (m.table = <<>> /\ m.candidate # <<>> /\ kind = "rule")) =>
       \E k \in BOOLEAN : one = [md |-> After(m, l, k, <<>>, <<>>, gone), out |-> Append(rest, m.line)]

LEMMA RenderedIs ==
  ASSUME NEW m \in Streams, NEW kind \in LineKinds, NEW fits \in BOOLEAN, NEW l, l = m.line + 1,
         NEW cells, cells = (kind \in {"row", "rule"}), NEW gone, gone = CloseTable(m, fits).dropped,
         NEW rest, rest = Closing(m, fits), NEW one, one = Rendered(m, kind, fits)
  PROVE  RenderedAs(m, kind, l, cells, gone, rest, one)
<1>1. PICK next : next = [m EXCEPT !.line = l, !.text = 0] OBVIOUS
<1>2. next.table = m.table /\ next.code = m.code /\ next.candidate = m.candidate /\ next.dropped = m.dropped
  BY <1>1 DEF Streams
<1>3. m.code \in BOOLEAN /\ (m.table = <<>> \/ m.table # <<>>) BY DEF Streams
<1>4. Held(m) = <<>> => m.table = <<>> /\ m.candidate = <<>> BY HeldIs
<1>5. next = [m EXCEPT !.line = @ + 1, !.text = 0] BY <1>1
<1>6. CASE m.code
  <2>1. one = [md |-> [next EXCEPT !.code = kind # "fence"], out |-> <<m.line>>] BY <1>5, <1>6 DEF Rendered
  <2>2. PICK k \in BOOLEAN : k = (kind # "fence") OBVIOUS
  <2>3. [next EXCEPT !.code = k] = After(m, l, k, m.table, m.candidate, m.dropped) BY <1>1 DEF After, Streams
  <2>4. QED BY <1>6, <2>1, <2>2, <2>3 DEF RenderedAs
<1>7. CASE ~m.code /\ m.table # <<>> /\ cells
  <2>1. PICK t : t = Append(m.table, m.line) OBVIOUS
  <2>2. one = [md |-> [next EXCEPT !.table = t], out |-> <<>>]
    <3>1. [next EXCEPT !.table = Append(@, m.line)] = [next EXCEPT !.table = t] BY <1>2, <2>1
    <3>2. one = [md |-> [next EXCEPT !.table = Append(@, m.line)], out |-> <<>>]
      BY <1>4, <1>5, <1>7 DEF Rendered
    <3>3. QED BY <3>1, <3>2
  <2>3. [next EXCEPT !.table = t] = After(m, l, m.code, t, m.candidate, m.dropped) BY <1>1 DEF After, Streams
  <2>4. QED BY <1>4, <1>7, <2>1, <2>2, <2>3 DEF RenderedAs
<1>8. CASE ~m.code /\ m.table = <<>> /\ m.candidate # <<>> /\ kind = "rule"
  <2>1. PICK t : t = Append(m.candidate, m.line) OBVIOUS
  <2>2. one = [md |-> [next EXCEPT !.table = t, !.candidate = <<>>], out |-> <<>>]
    BY <1>4, <1>5, <1>8, <2>1 DEF Rendered
  <2>3. [next EXCEPT !.table = t, !.candidate = <<>>] = After(m, l, m.code, t, <<>>, m.dropped)
    BY <1>1 DEF After, Streams
  <2>4. QED BY <1>4, <1>8, <2>1, <2>2, <2>3 DEF RenderedAs
<1>9. CASE ~m.code /\ Held(m) = <<>> /\ cells
  <2>1. m.table = <<>> /\ m.candidate = <<>> BY <1>4, <1>9
  <2>2. one = [md |-> [next EXCEPT !.candidate = <<m.line>>], out |-> <<>>] BY <1>5, <1>9, <2>1 DEF Rendered
  <2>3. PICK t : t = <<m.line>> OBVIOUS
  <2>4. [next EXCEPT !.candidate = t] = After(m, l, m.code, m.table, t, m.dropped) BY <1>1 DEF After, Streams
  <2>5. QED BY <1>9, <2>1, <2>2, <2>3, <2>4 DEF RenderedAs
<1>10. CASE ~(m.code \/ (m.table # <<>> /\ cells) \/ (Held(m) = <<>> /\ cells)
                \/ (m.table = <<>> /\ m.candidate # <<>> /\ kind = "rule"))
  <2>1. one = [md |-> [CloseTable(next, fits) EXCEPT !.code = kind = "fence"], out |-> Append(rest, m.line)]
    BY <1>5, <1>10 DEF Rendered
  <2>2. PICK k \in BOOLEAN : k = (kind = "fence") OBVIOUS
  <2>3. PICK g : g = IF ~fits /\ Len(m.table) = 2
                     THEN m.dropped \cup {m.table[i] : i \in 1 .. Len(m.table)} ELSE m.dropped
    OBVIOUS
  <2>4. CloseTable(next, fits) = [next EXCEPT !.table = <<>>, !.candidate = <<>>, !.dropped = g]
    BY <1>1, <1>2, <2>3 DEF CloseTable, Streams
  <2>5. CloseTable(m, fits) = [m EXCEPT !.table = <<>>, !.candidate = <<>>, !.dropped = g]
    BY <2>3 DEF CloseTable, Streams
  <2>6. gone = g BY <2>5 DEF Streams
  <2>7. [CloseTable(next, fits) EXCEPT !.code = k] = After(m, l, k, <<>>, <<>>, g)
    BY <1>1, <2>4 DEF After, Streams
  <2>8. QED BY <1>10, <2>1, <2>2, <2>6, <2>7 DEF RenderedAs
<1>11. QED BY <1>3, <1>6, <1>7, <1>8, <1>9, <1>10 DEF RenderedAs

(* A line: it comes out after what was held, or is held itself. *)
LEMMA RenderedLine ==
  ASSUME NEW m, NEW sh, Streaming(m, sh), NEW kind \in LineKinds, NEW fits \in BOOLEAN,
         NEW one, one = Rendered(m, kind, fits)
  PROVE  /\ one.out \in Seq(Nat) /\ Streaming(one.md, sh \o one.out)
         /\ one.md.text = 0 /\ one.md.of = m.of /\ one.md.emitted = m.emitted
         /\ Follows(one.md, m)
         /\ one.out = <<>> => one.md.dropped = m.dropped /\ Held(one.md) # <<>>
<1>1. m \in Streams BY DEF Streaming
<1>2. sh \in Seq(Nat) /\ <<>> \in Seq(Nat) BY DEF Streaming
<1>3. Lists(sh \o Held(m), LinesOf(m)) BY DEF Streaming
<1>4. /\ \A x \in m.dropped : x < m.line
      /\ m.candidate = <<>> \/ m.table = <<>>
      /\ m.code => m.candidate = <<>> /\ m.table = <<>>
  BY DEF Streaming
<1>5. m.line \in Nat \ {0} /\ m.dropped \in SUBSET Nat /\ m.code \in BOOLEAN BY <1>1 DEF Streams
<1>6. m.table \in Seq(Nat) /\ m.candidate \in Seq(Nat) BY <1>1 DEF Streams
<1>7. PICK p \in Nat : p = m.line BY <1>5
<1>8. PICK l \in Nat \ {0} : l = m.line + 1 /\ l = p + 1 BY <1>7
<1>9. PICK held \in Seq(Nat) : held = Held(m) BY <1>1, HeldIs
<1>10. PICK cells : cells = (kind \in {"row", "rule"}) OBVIOUS
<1>11. PICK c : c = CloseTable(m, fits) OBVIOUS
<1>12. PICK rest : rest = Closing(m, fits) OBVIOUS
<1>13. Streaming(c, sh \o rest) /\ Held(c) = <<>> /\ Follows(c, m) /\ c.line = p
  BY <1>7, <1>11, <1>12, ClosedTable
<1>14. rest \in Seq(Nat) BY <1>12, ClosedTable
<1>15. PICK gone \in SUBSET Nat : gone = c.dropped BY <1>13 DEF Streaming, Streams
<1>16. m.dropped \subseteq gone /\ \A x \in gone : x < p BY <1>13, <1>15 DEF Follows, Streaming
<1>28. RenderedAs(m, kind, l, cells, gone, rest, one)
  BY <1>1, <1>8, <1>10, <1>11, <1>12, <1>15, RenderedIs, Zenon
(* All that matters of the new stream is what it lists. *)
<1>17. ASSUME NEW n, n \in Streams, n.line = l, n.echo = m.echo,
              NEW g \in SUBSET Nat, n.dropped = g, m.dropped \subseteq g, \A x \in g : x < p,
              n.candidate = <<>> \/ n.table = <<>>, n.code => n.candidate = <<>> /\ n.table = <<>>,
              NEW lines \in Seq(Nat), Lists(lines, (1 .. (p - 1)) \ g), NEW out \in Seq(Nat),
              NEW all, all = (sh \o out) \o Held(n), all = Append(lines, p)
       PROVE  Streaming(n, sh \o out) /\ Follows(n, m)
  <2>1. PICK S : S = (1 .. (p - 1)) \ g OBVIOUS
  <2>2. \A x \in S : x < p BY <2>1
  <2>3. Lists(lines, S) BY <1>17, <2>1
  <2>4. Lists(all, S \cup {p})
    <3>1. Lists(Append(lines, p), S \cup {p}) BY <2>2, <2>3, ListsMore, Zenon
    <3>2. QED BY <1>17, <3>1, Zenon
  <2>5. \A x \in g : x < p /\ x \in Nat BY <1>17
  <2>6. S \cup {p} = (1 .. (l - 1)) \ g
    <3>1. p \notin g BY <2>5
    <3>2. 1 .. (l - 1) = (1 .. (p - 1)) \cup {p}
      <4>1. p \in Nat /\ p # 0 BY <1>5, <1>7
      <4>2. l - 1 = p BY <1>8, <4>1
      <4>3. QED BY <4>1, <4>2
    <3>3. QED BY <2>1, <3>1, <3>2
  <2>7. n.line = l /\ n.dropped = g /\ n.echo = m.echo /\ m.dropped \subseteq g BY <1>17
  <2>8. S \cup {p} = LinesOf(n) BY <2>6, <2>7 DEF LinesOf
  <2>9. ASSUME NEW x \in n.dropped PROVE x < n.line
    <3>1. x \in Nat /\ x < p BY <2>5, <2>7, <2>9
    <3>2. n.line = p + 1 BY <1>8, <2>7
    <3>3. x < p + 1 BY <1>7, <3>1
    <3>4. QED BY <3>2, <3>3
  <2>10. sh \o out \in Seq(Nat) BY <1>2, <1>17
  <2>11. Lists((sh \o out) \o Held(n), LinesOf(n)) BY <1>17, <2>4, <2>8, Zenon
  <2>12. n \in Streams /\ (n.candidate = <<>> \/ n.table = <<>>) /\ (n.code => n.candidate = <<>> /\ n.table = <<>>)
    BY <1>17
  <2>13. Streaming(n, sh \o out) BY <2>9, <2>10, <2>11, <2>12, Zenon DEF Streaming
  <2>14. QED BY <2>7, <2>13 DEF Follows
<1>18. PICK before \in Seq(Nat) : before = sh \o held
  <2>1. sh \o held \in Seq(Nat) BY <1>2, <1>9
  <2>2. QED BY <2>1, Zenon
<1>19. Lists(before, (1 .. (p - 1)) \ m.dropped)
  <2>1. LinesOf(m) = (1 .. (p - 1)) \ m.dropped BY <1>7 DEF LinesOf
  <2>2. QED BY <1>3, <1>9, <1>18, <2>1, Zenon
<1>20. sh \o Append(held, p) = Append(before, p) /\ sh \o <<>> = sh /\ Append(held, p) # <<>>
  <2>1. sh \o Append(held, p) = Append(sh \o held, p) BY <1>2, AppendedLast, Zenon
  <2>2. sh \o <<>> = sh /\ Append(held, p) # <<>> BY <1>2, Appended, Zenon
  <2>3. QED BY <1>18, <2>1, <2>2, Zenon
(* It is held after what was. *)
<1>21. ASSUME ~m.code, NEW n, n \in Streams, n.line = l, n.echo = m.echo, n.code = m.code,
              n.dropped = m.dropped, n.candidate = <<>> \/ n.table = <<>>, Held(n) = Append(held, p)
       PROVE  Streaming(n, sh \o <<>>) /\ Follows(n, m) /\ Held(n) # <<>>
  <2>1. (sh \o <<>>) \o Held(n) = Append(before, p) BY <1>20, <1>21, Zenon
  <2>2. m.dropped \subseteq m.dropped /\ \A x \in m.dropped : x < p BY <1>4, <1>7
  <2>3. n.code => n.candidate = <<>> /\ n.table = <<>> BY <1>21
  <2>4. Streaming(n, sh \o <<>>) /\ Follows(n, m)
    BY <1>2, <1>5, <1>17, <1>19, <1>21, <2>1, <2>2, <2>3, Zenon
  <2>5. QED BY <1>20, <1>21, <2>4, Zenon
<1>22. CASE m.code
  <2>1. PICK k \in BOOLEAN : one = [md |-> After(m, l, k, m.table, m.candidate, m.dropped), out |-> <<m.line>>]
    BY <1>22, <1>28 DEF RenderedAs
  <2>2. PICK n : n = After(m, l, k, m.table, m.candidate, m.dropped) OBVIOUS
  <2>3. /\ n \in Streams /\ n.line = l /\ n.text = 0 /\ n.table = m.table /\ n.candidate = m.candidate
        /\ n.dropped = m.dropped /\ n.of = m.of /\ n.emitted = m.emitted /\ n.echo = m.echo
    <3>1. IsAfter(n, m, l, k, m.table, m.candidate, m.dropped)
      BY <1>1, <1>5, <1>6, <2>2, AfterIs, Zenon
    <3>2. QED BY <3>1 DEF IsAfter
  <2>4. Held(n) = <<>> /\ held = <<>> BY <1>1, <1>4, <1>9, <1>22, <2>3, HeldIs
  <2>5. PICK out \in Seq(Nat) : out = <<p>> /\ out = Append(held, p) /\ out # <<>>
    <3>1. Append(held, p) \in Seq(Nat) /\ Append(held, p) = <<p>> BY <2>4, Appended, AppendedAlone, Zenon
    <3>2. QED BY <1>20, <3>1
  <2>6. one.md = n /\ one.out = out BY <1>7, <2>1, <2>2, <2>5
  <2>7. (sh \o out) \o Held(n) = Append(before, p)
    <3>1. sh \o out \in Seq(Nat) BY <1>2
    <3>2. (sh \o out) \o <<>> = sh \o out BY <3>1, Appended, Zenon
    <3>3. QED BY <1>20, <2>4, <2>5, <3>2, Zenon
  <2>8. m.dropped \subseteq m.dropped /\ \A x \in m.dropped : x < p BY <1>4, <1>7
  <2>9. n.candidate = <<>> /\ n.table = <<>> BY <1>4, <1>22, <2>3
  <2>10. Streaming(n, sh \o out) /\ Follows(n, m) BY <1>5, <1>17, <1>19, <2>3, <2>7, <2>8, <2>9, Zenon
  <2>11. QED BY <2>3, <2>5, <2>6, <2>10, Zenon
<1>23. CASE ~m.code /\ m.table # <<>> /\ cells
  <2>1. PICK t \in Seq(Nat) : t = Append(m.table, m.line) BY <1>6, <1>7, Appended, Zenon
  <2>2. PICK n : n = After(m, l, m.code, t, m.candidate, m.dropped) OBVIOUS
  <2>3. one.md = n /\ one.out = <<>>
    <3>1. one = [md |-> n, out |-> <<>>] BY <1>23, <1>28, <2>1, <2>2 DEF RenderedAs
    <3>2. QED BY <3>1
  <2>4. /\ n \in Streams /\ n.line = l /\ n.text = 0 /\ n.table = t /\ n.candidate = m.candidate
        /\ n.dropped = m.dropped /\ n.of = m.of /\ n.emitted = m.emitted /\ n.echo = m.echo /\ n.code = m.code
    <3>1. IsAfter(n, m, l, m.code, t, m.candidate, m.dropped)
      BY <1>1, <1>5, <1>6, <2>2, AfterIs, Zenon
    <3>2. QED BY <3>1 DEF IsAfter
  <2>5. m.candidate = <<>> /\ n.candidate = <<>> BY <1>4, <1>23, <2>4
  <2>6. Held(n) = Append(held, p)
    <3>1. Held(n) = n.table /\ held = m.table BY <1>1, <1>9, <2>4, <2>5, HeldIs
    <3>2. QED BY <1>7, <2>1, <2>4, <3>1
  <2>7. Streaming(n, sh \o <<>>) /\ Follows(n, m) /\ Held(n) # <<>> BY <1>21, <1>23, <2>4, <2>5, <2>6, Zenon
  <2>8. QED BY <1>2, <2>3, <2>4, <2>7, Zenon
<1>24. CASE ~m.code /\ m.table = <<>> /\ m.candidate # <<>> /\ kind = "rule"
  <2>1. PICK t \in Seq(Nat) : t = Append(m.candidate, m.line) BY <1>6, <1>7, Appended, Zenon
  <2>2. PICK n : n = After(m, l, m.code, t, <<>>, m.dropped) OBVIOUS
  <2>3. one.md = n /\ one.out = <<>>
    <3>1. one = [md |-> n, out |-> <<>>] BY <1>24, <1>28, <2>1, <2>2 DEF RenderedAs
    <3>2. QED BY <3>1
  <2>4. /\ n \in Streams /\ n.line = l /\ n.text = 0 /\ n.table = t /\ n.candidate = <<>>
        /\ n.dropped = m.dropped /\ n.of = m.of /\ n.emitted = m.emitted /\ n.echo = m.echo /\ n.code = m.code
    <3>1. IsAfter(n, m, l, m.code, t, <<>>, m.dropped)
      BY <1>1, <1>2, <1>5, <1>6, <2>2, AfterIs, Zenon
    <3>2. QED BY <3>1 DEF IsAfter
  <2>5. Held(n) = Append(held, p)
    <3>1. Held(n) = n.table /\ held = m.candidate BY <1>1, <1>9, <1>24, <2>4, HeldIs
    <3>2. QED BY <1>7, <2>1, <2>4, <3>1
  <2>6. Streaming(n, sh \o <<>>) /\ Follows(n, m) /\ Held(n) # <<>> BY <1>21, <1>24, <2>4, <2>5, Zenon
  <2>7. QED BY <1>2, <2>3, <2>4, <2>6, Zenon
<1>25. CASE ~m.code /\ Held(m) = <<>> /\ cells
  <2>1. m.table = <<>> /\ m.candidate = <<>> /\ held = <<>> BY <1>1, <1>9, <1>25, HeldIs
  <2>2. PICK t \in Seq(Nat) : t = <<m.line>> /\ t = Append(held, p)
    <3>1. Append(held, p) \in Seq(Nat) /\ Append(held, p) = <<p>> BY <2>1, Appended, AppendedAlone, Zenon
    <3>2. QED BY <1>7, <3>1
  <2>3. PICK n : n = After(m, l, m.code, m.table, t, m.dropped) OBVIOUS
  <2>4. one.md = n /\ one.out = <<>>
    <3>1. one = [md |-> n, out |-> <<>>] BY <1>25, <1>28, <2>2, <2>3 DEF RenderedAs
    <3>2. QED BY <3>1
  <2>5. /\ n \in Streams /\ n.line = l /\ n.text = 0 /\ n.table = m.table /\ n.candidate = t
        /\ n.dropped = m.dropped /\ n.of = m.of /\ n.emitted = m.emitted /\ n.echo = m.echo /\ n.code = m.code
    <3>1. IsAfter(n, m, l, m.code, m.table, t, m.dropped) BY <1>1, <1>5, <1>6, <2>3, AfterIs, Zenon
    <3>2. QED BY <3>1 DEF IsAfter
  <2>6. n.table = <<>> BY <2>1, <2>5
  <2>7. Held(n) = Append(held, p) BY <2>2, <2>5, <2>6, HeldIs
  <2>8. Streaming(n, sh \o <<>>) /\ Follows(n, m) /\ Held(n) # <<>> BY <1>21, <1>25, <2>5, <2>6, <2>7, Zenon
  <2>9. QED BY <1>2, <2>4, <2>5, <2>8, Zenon
<1>26. CASE ~(m.code \/ (m.table # <<>> /\ cells) \/ (Held(m) = <<>> /\ cells)
                \/ (m.table = <<>> /\ m.candidate # <<>> /\ kind = "rule"))
  <2>1. PICK out \in Seq(Nat) : out = Append(rest, m.line) /\ out # <<>> BY <1>7, <1>14, Appended, Zenon
  <2>2. PICK k \in BOOLEAN : one = [md |-> After(m, l, k, <<>>, <<>>, gone), out |-> out]
    BY <1>26, <1>28, <2>1 DEF RenderedAs
  <2>3. PICK n : n = After(m, l, k, <<>>, <<>>, gone) OBVIOUS
  <2>4. one.md = n /\ one.out = out BY <2>2, <2>3
  <2>5. /\ n \in Streams /\ n.line = l /\ n.text = 0 /\ n.table = <<>> /\ n.candidate = <<>>
        /\ n.dropped = gone /\ n.of = m.of /\ n.emitted = m.emitted /\ n.echo = m.echo
    <3>1. IsAfter(n, m, l, k, <<>>, <<>>, gone) BY <1>1, <1>2, <2>3, AfterIs, Zenon
    <3>2. QED BY <3>1 DEF IsAfter
  <2>6. Held(n) = <<>> BY <2>5, HeldIs
  <2>7. PICK lines \in Seq(Nat) : lines = sh \o rest
    <3>1. sh \o rest \in Seq(Nat) BY <1>2, <1>14
    <3>2. QED BY <3>1, Zenon
  <2>8. Lists(lines, (1 .. (p - 1)) \ gone)
    <3>1. lines \o Held(c) = lines BY <1>13, Appended, Zenon
    <3>2. Lists(lines \o Held(c), LinesOf(c)) BY <1>13, <2>7 DEF Streaming
    <3>3. LinesOf(c) = (1 .. (p - 1)) \ gone BY <1>13, <1>15 DEF LinesOf
    <3>4. QED BY <3>1, <3>2, <3>3, Zenon
  <2>9. (sh \o out) \o Held(n) = Append(lines, p)
    <3>1. sh \o Append(rest, p) = Append(sh \o rest, p) BY <1>2, <1>14, AppendedLast, Zenon
    <3>2. sh \o out \in Seq(Nat) BY <1>2
    <3>3. (sh \o out) \o <<>> = sh \o out BY <3>2, Appended, Zenon
    <3>4. QED BY <1>7, <2>1, <2>6, <2>7, <3>1, <3>3, Zenon
  <2>10. Streaming(n, sh \o out) /\ Follows(n, m) BY <1>16, <1>17, <2>5, <2>8, <2>9, Zenon
  <2>11. QED BY <2>1, <2>4, <2>5, <2>10, Zenon
<1>27. QED BY <1>10, <1>22, <1>23, <1>24, <1>25, <1>26, Zenon

(* Only these of its fields say what a stream lists. *)
LEMMA StreamingOn ==
  ASSUME NEW m, NEW sh, Streaming(m, sh), NEW n \in Streams, n.line = m.line, n.dropped = m.dropped,
         n.table = m.table, n.candidate = m.candidate, n.code = m.code
  PROVE  Streaming(n, sh) /\ Held(n) = Held(m)
<1>1. Held(n) = Held(m) BY Zenon DEF Held
<1>2. LinesOf(n) = LinesOf(m) BY Zenon DEF LinesOf
<1>3. Lists(sh \o Held(n), LinesOf(n)) BY <1>1, <1>2, Zenon DEF Streaming
<1>4. QED BY <1>1, <1>3, Zenon DEF Streaming

-----------------------------------------------------------------------------
(* The row: unless a table was dropped, a piece of the answer is on it only    *)
(* while the stream knows, and nothing was drawn over one.                     *)

Screens == [spinner : BOOLEAN, row : {"clean", "answer", "spinner"}, over : BOOLEAN, trace : BOOLEAN]

Apart(m, s) ==
  m.dropped = {} => ~s.over /\ m.emitted <= m.text /\ (s.row = "answer" => m.emitted > 0)

LEMMA RowsAre ==
  ASSUME NEW s \in Screens
  PROVE  /\ Cleared(s) \in Screens /\ Cleared(s).spinner = s.spinner /\ Cleared(s).over = s.over
         /\ Cleared(s).row = "clean"
         /\ Lines(s) \in Screens /\ Lines(s).spinner = s.spinner /\ Lines(s).row = "clean"
         /\ (s.row # "answer" => Lines(s).over = s.over)
         /\ Echoed(s) \in Screens /\ Echoed(s).spinner = s.spinner /\ Echoed(s).row = "answer"
         /\ Echoed(s).over = s.over
         /\ Stopped(s) \in Screens /\ ~Stopped(s).spinner /\ Stopped(s).row = "clean" /\ Stopped(s).over = s.over
         /\ Drawn(s) \in Screens /\ Drawn(s).spinner = s.spinner /\ Drawn(s).row = "spinner"
         /\ (s.row # "answer" => Drawn(s).over = s.over)
         /\ Spinning(s) \in Screens /\ Spinning(s).spinner
         /\ ~s.spinner => Spinning(s).row = "spinner"
         /\ s.row # "answer" => Spinning(s).over = s.over /\ Spinning(s).row # "answer"
         /\ s.spinner => Spinning(s) = s
<1>1. Cleared(s) \in Screens /\ Cleared(s).spinner = s.spinner /\ Cleared(s).over = s.over
      /\ Cleared(s).row = "clean"
  BY DEF Cleared, Screens
<1>2. Lines(s) \in Screens /\ Lines(s).spinner = s.spinner /\ Lines(s).row = "clean"
      /\ (s.row # "answer" => Lines(s).over = s.over)
  BY DEF Lines, Screens
<1>3. Echoed(s) \in Screens /\ Echoed(s).spinner = s.spinner /\ Echoed(s).row = "answer" /\ Echoed(s).over = s.over
  BY DEF Echoed, Screens
<1>4. Stopped(s) \in Screens /\ ~Stopped(s).spinner /\ Stopped(s).row = "clean" /\ Stopped(s).over = s.over
  BY DEF Stopped, Screens
<1>5. Drawn(s) \in Screens /\ Drawn(s).spinner = s.spinner /\ Drawn(s).row = "spinner"
      /\ (s.row # "answer" => Drawn(s).over = s.over)
  BY DEF Drawn, Screens
<1>6. /\ Spinning(s) \in Screens /\ Spinning(s).spinner
      /\ ~s.spinner => Spinning(s).row = "spinner"
      /\ s.row # "answer" => Spinning(s).over = s.over /\ Spinning(s).row # "answer"
      /\ s.spinner => Spinning(s) = s
  BY DEF Spinning, Drawn, Screens
<1>7. QED BY <1>1, <1>2, <1>3, <1>4, <1>5, <1>6

(* A flush lets go of all there is. *)
LEMMA FlushedIs ==
  ASSUME NEW m, NEW sh, Streaming(m, sh), NEW s \in Screens, Apart(m, s),
         NEW kind \in LineKinds, NEW fits \in BOOLEAN,
         NEW done, done = Flushed(m, s, sh, kind, fits)
  PROVE  /\ Streaming(done.md, done.shown) /\ Held(done.md) = <<>> /\ done.md.text = 0
         /\ done.screen \in Screens /\ done.screen.spinner = s.spinner
         /\ done.md.dropped = {} => ~done.screen.over /\ done.screen.row # "answer" /\ done.md.emitted = 0
<1>1. m \in Streams /\ sh \in Seq(Nat) BY DEF Streaming
<1>2. PICK one : one = IF m.text = 0 THEN [md |-> m, out |-> <<>>] ELSE Rendered(m, kind, fits) OBVIOUS
<1>3. /\ one.out \in Seq(Nat) /\ Streaming(one.md, sh \o one.out) /\ one.md.text = 0
      /\ one.md.emitted = m.emitted /\ Follows(one.md, m)
      /\ one.out = <<>> => m.text = 0 \/ Held(one.md) # <<>>
  <2>1. CASE m.text = 0
    <3>1. one.md = m /\ one.out = <<>> BY <1>2, <2>1
    <3>2. sh \o one.out = sh /\ one.out \in Seq(Nat) BY <1>1, <3>1
    <3>3. Follows(m, m) BY DEF Follows
    <3>4. QED BY <2>1, <3>1, <3>2, <3>3
  <2>2. CASE m.text # 0
    <3>1. one = Rendered(m, kind, fits) BY <1>2, <2>2
    <3>2. QED BY <3>1, RenderedLine
  <2>3. QED BY <2>1, <2>2
<1>4. PICK c : c = CloseTable(one.md, fits) OBVIOUS
<1>5. PICK rest : rest = Closing(one.md, fits) OBVIOUS
<1>6. PICK before : before = sh \o one.out OBVIOUS
<1>7. rest \in Seq(Nat) /\ Streaming(c, before \o rest) /\ Held(c) = <<>> /\ c.text = 0 /\ c.emitted = m.emitted
  BY <1>3, <1>4, <1>5, <1>6, ClosedTable
<1>8. Follows(c, one.md) /\ (rest = <<>> => Held(one.md) = <<>> \/ c.dropped # {})
  BY <1>3, <1>4, <1>5, ClosedTable
<1>9. m.dropped \subseteq c.dropped BY <1>3, <1>8 DEF Follows
<1>10. PICK at : at = IF m.emitted > 0 THEN Cleared(s) ELSE s OBVIOUS
<1>11. at \in Screens /\ at.spinner = s.spinner /\ at.over = s.over /\ (m.emitted > 0 => at.row = "clean")
       /\ at.row \in {"clean", s.row}
  BY <1>10, RowsAre
<1>12. PICK out : out = one.out \o rest OBVIOUS
<1>13. c \in Streams BY <1>7 DEF Streaming
<1>14. c.dropped = {} => m.dropped = {} BY <1>9
<1>15. m.emitted \in Nat /\ m.text \in Nat BY <1>1 DEF Streams
<1>16. CASE out = <<>>
  <2>1. done = [md |-> c, screen |-> s, shown |-> sh] BY <1>2, <1>4, <1>5, <1>12, <1>16 DEF Flushed
  <2>2. one.out = <<>> /\ rest = <<>>
    <3>1. Len(out) = Len(one.out) + Len(rest) /\ Len(one.out) \in Nat /\ Len(rest) \in Nat BY <1>3, <1>7, <1>12
    <3>2. Len(out) = 0 BY <1>16
    <3>3. Len(one.out) = 0 /\ Len(rest) = 0
      <4>1. PICK j \in Nat, k \in Nat : j = Len(one.out) /\ k = Len(rest) BY <3>1
      <4>2. j + k = 0 BY <3>1, <3>2, <4>1
      <4>3. j = 0 /\ k = 0 BY <4>2
      <4>4. QED BY <4>1, <4>3
    <3>4. QED BY <1>3, <1>7, <3>3, EmptySeq
  <2>3. before \o rest = sh
    <3>1. before = sh BY <1>1, <1>6, <2>2
    <3>2. QED BY <1>1, <2>2, <3>1
  <2>4. done.md = c /\ done.screen = s /\ done.shown = sh BY <2>1
  <2>5. Streaming(done.md, done.shown) BY <1>7, <2>3, <2>4, Zenon
  <2>6. ASSUME c.dropped = {} PROVE ~s.over /\ s.row # "answer" /\ c.emitted = 0
    <3>1. Held(one.md) = <<>> BY <1>8, <2>2, <2>6
    <3>2. m.text = 0 BY <1>3, <2>2, <3>1
    <3>3. m.dropped = {} BY <1>14, <2>6
    <3>4. m.emitted <= m.text /\ ~s.over /\ (s.row = "answer" => m.emitted > 0) BY <3>3 DEF Apart
    <3>5. m.emitted = 0 BY <1>15, <3>2, <3>4
    <3>6. QED BY <1>7, <3>4, <3>5
  <2>7. QED BY <1>7, <2>4, <2>5, <2>6
<1>17. CASE out # <<>>
  <2>1. PICK n : n = [c EXCEPT !.emitted = 0, !.raw = TRUE, !.wrote = TRUE] OBVIOUS
  <2>2. PICK to : to = IF m.echo THEN Lines(at) ELSE at OBVIOUS
  <2>3. done = [md |-> n, screen |-> to, shown |-> before \o rest]
    BY <1>2, <1>4, <1>5, <1>6, <1>10, <1>12, <1>17, <2>1, <2>2 DEF Flushed
  <2>4. done.md = n /\ done.screen = to /\ done.shown = before \o rest BY <2>3
  <2>5. /\ n \in Streams /\ n.line = c.line /\ n.dropped = c.dropped /\ n.table = c.table /\ n.text = c.text
        /\ n.candidate = c.candidate /\ n.code = c.code /\ n.emitted = 0
    BY <1>13, <2>1 DEF Streams
  <2>6. Streaming(n, before \o rest) /\ Held(n) = <<>> BY <1>7, <2>5, StreamingOn
  <2>7. to \in Screens /\ to.spinner = s.spinner BY <1>11, <2>2, RowsAre
  <2>8. ASSUME c.dropped = {} PROVE ~to.over /\ to.row # "answer"
    <3>1. m.dropped = {} BY <1>14, <2>8
    <3>2. ~s.over /\ (s.row = "answer" => m.emitted > 0) BY <3>1 DEF Apart
    <3>3. at.row # "answer" /\ ~at.over BY <1>11, <3>2
    <3>4. QED BY <1>11, <2>2, <3>3, RowsAre
  <2>9. QED BY <1>7, <2>4, <2>5, <2>6, <2>7, <2>8
<1>18. QED BY <1>16, <1>17

-----------------------------------------------------------------------------
(* A delta. What it has done so far, from the screen s it began with.          *)

Feeding(m, s) ==
  {r \in [md : Streams, screen : Screens, shown : Seq(Nat), wrote : BOOLEAN] :
     /\ Streaming(r.md, r.shown) /\ Apart(r.md, r.screen)
     /\ r.screen.spinner = s.spinner /\ (~r.wrote => r.screen = s)
     /\ m.dropped \subseteq r.md.dropped
     /\ r.md.text > 0 => r.md.of = requests}

LEMMA ElementKeeps ==
  ASSUME requests \in Nat, NEW m, NEW s, NEW r \in Feeding(m, s), NEW e \in LineKinds \cup {"x"},
         NEW fits \in BOOLEAN
  PROVE  Element(r, e, fits) \in Feeding(m, s)
<1>1. r \in [md : Streams, screen : Screens, shown : Seq(Nat), wrote : BOOLEAN] BY DEF Feeding
<1>2. Streaming(r.md, r.shown) /\ Apart(r.md, r.screen) BY DEF Feeding
<1>3. r.screen.spinner = s.spinner /\ (~r.wrote => r.screen = s) BY DEF Feeding
<1>4. m.dropped \subseteq r.md.dropped /\ (r.md.text > 0 => r.md.of = requests) BY DEF Feeding
<1>5. r.md \in Streams /\ r.screen \in Screens /\ r.shown \in Seq(Nat) /\ r.wrote \in BOOLEAN BY <1>1
<1>6. r.md.text \in Nat /\ r.md.emitted \in Nat /\ r.md.of \in Nat BY <1>5 DEF Streams
<1>7. CASE e = "x"
  <2>1. PICK of \in Nat : of = IF r.md.text = 0 THEN requests ELSE r.md.of BY <1>6
  <2>2. PICK text \in Nat : text = r.md.text + 1 BY <1>6
  <2>3. PICK n : n = [r.md EXCEPT !.text = text, !.of = of] OBVIOUS
  <2>4. /\ n \in Streams /\ n.text = text /\ n.of = of /\ n.line = r.md.line /\ n.dropped = r.md.dropped
        /\ n.table = r.md.table /\ n.candidate = r.md.candidate /\ n.code = r.md.code
        /\ n.emitted = r.md.emitted
    BY <1>5, <2>3 DEF Streams
  <2>5. Element(r, e, fits) = [r EXCEPT !.md = n]
    <3>1. Element(r, e, fits) = [r EXCEPT !.md.text = @ + 1, !.md.of = IF r.md.text = 0 THEN requests ELSE @]
      BY <1>7 DEF Element
    <3>2. QED BY <1>1, <1>5, <2>1, <2>2, <2>3, <3>1 DEF Streams
  <2>6. PICK q : q = Element(r, e, fits) OBVIOUS
  <2>7. /\ q \in [md : Streams, screen : Screens, shown : Seq(Nat), wrote : BOOLEAN]
        /\ q.md = n /\ q.screen = r.screen /\ q.shown = r.shown /\ q.wrote = r.wrote
    BY <1>1, <2>4, <2>5, <2>6
  <2>8. Streaming(n, r.shown) BY <1>2, <2>4, StreamingOn
  <2>9. Apart(n, r.screen)
    <3>1. r.md.emitted <= r.md.text => r.md.emitted <= text BY <1>6, <2>2
    <3>2. QED BY <1>2, <2>4, <3>1 DEF Apart
  <2>10. n.text > 0 => n.of = requests
    <3>1. CASE r.md.text = 0 BY <2>1, <2>4, <3>1
    <3>2. CASE r.md.text # 0
      <4>1. r.md.text > 0 BY <1>6, <3>2
      <4>2. QED BY <1>4, <2>1, <2>4, <3>2, <4>1
    <3>3. QED BY <3>1, <3>2
  <2>11. QED BY <1>3, <1>4, <2>4, <2>6, <2>7, <2>8, <2>9, <2>10, Zenon DEF Feeding
<1>8. CASE e # "x"
  <2>1. e \in LineKinds BY <1>8
  <2>2. PICK one : one = Rendered(r.md, e, fits) OBVIOUS
  <2>3. /\ one.out \in Seq(Nat) /\ Streaming(one.md, r.shown \o one.out)
        /\ one.md.text = 0 /\ one.md.emitted = r.md.emitted /\ Follows(one.md, r.md)
    BY <1>2, <2>1, <2>2, RenderedLine
  <2>4. PICK at : at = IF r.md.emitted > 0 THEN Cleared(r.screen) ELSE r.screen OBVIOUS
  <2>5. PICK n : n = [one.md EXCEPT !.emitted = 0, !.raw = TRUE, !.wrote = TRUE] OBVIOUS
  <2>6. PICK to : to = IF one.out # <<>> /\ r.md.echo THEN Lines(at) ELSE at OBVIOUS
  <2>7. PICK wrote \in BOOLEAN : wrote = (r.wrote \/ one.out # <<>> \/ r.md.emitted > 0) BY <1>5
  <2>8. PICK q : q = Element(r, e, fits) OBVIOUS
  <2>9. q = [md |-> n, screen |-> to, shown |-> r.shown \o one.out, wrote |-> wrote]
    BY <1>8, <2>2, <2>4, <2>5, <2>6, <2>7, <2>8 DEF Element
  <2>10. one.md \in Streams BY <2>3 DEF Streaming
  <2>11. /\ n \in Streams /\ n.text = 0 /\ n.emitted = 0 /\ n.line = one.md.line
         /\ n.dropped = one.md.dropped /\ n.table = one.md.table /\ n.candidate = one.md.candidate
         /\ n.code = one.md.code
    BY <2>3, <2>5, <2>10 DEF Streams
  <2>12. Streaming(n, r.shown \o one.out) BY <2>3, <2>11, StreamingOn
  <2>13. r.shown \o one.out \in Seq(Nat) BY <1>5, <2>3
  <2>14. at \in Screens /\ at.spinner = s.spinner /\ at.over = r.screen.over
         /\ (r.md.emitted > 0 => at.row = "clean") /\ at.row \in {"clean", r.screen.row}
    BY <1>3, <1>5, <2>4, RowsAre
  <2>15. to \in Screens /\ to.spinner = s.spinner BY <2>6, <2>14, RowsAre
  <2>16. r.md.dropped \subseteq n.dropped BY <2>3, <2>11 DEF Follows
  <2>17. Apart(n, to)
    <3>1. ASSUME n.dropped = {} PROVE ~to.over /\ to.row # "answer"
      <4>1. r.md.dropped = {} BY <2>16, <3>1
      <4>2. ~r.screen.over /\ (r.screen.row = "answer" => r.md.emitted > 0) BY <1>2, <4>1 DEF Apart
      <4>3. at.row # "answer" /\ ~at.over BY <2>14, <4>2
      <4>4. QED BY <2>6, <2>14, <4>3, RowsAre
    <3>2. QED BY <2>11, <3>1 DEF Apart
  <2>18. ~wrote => to = s
    <3>1. ASSUME ~wrote PROVE to = s
      <4>1. ~r.wrote /\ one.out = <<>> /\ ~(r.md.emitted > 0) BY <2>7, <3>1
      <4>2. QED BY <1>3, <2>4, <2>6, <4>1
    <3>2. QED BY <3>1
  <2>19. m.dropped \subseteq n.dropped BY <1>4, <2>16
  <2>20. ~(n.text > 0) BY <2>11
  <2>21. q \in [md : Streams, screen : Screens, shown : Seq(Nat), wrote : BOOLEAN]
    BY <2>9, <2>11, <2>13, <2>15
  <2>22. q.md = n /\ q.screen = to /\ q.shown = r.shown \o one.out /\ q.wrote = wrote BY <2>9
  <2>23. QED BY <2>8, <2>12, <2>15, <2>17, <2>18, <2>19, <2>20, <2>21, <2>22, Zenon DEF Feeding
<1>9. QED BY <1>7, <1>8

(* After all its elements, and after what is echoed of the line. *)
LEMMA FedKeeps ==
  ASSUME requests \in Nat, NEW m, NEW s, NEW r \in Feeding(m, s), NEW delta \in Seq(LineKinds \cup {"x"}),
         NEW fits \in BOOLEAN
  PROVE  Fed(r, delta, fits) \in Feeding(m, s)
<1>0. PICK N \in Nat : N = Len(delta) OBVIOUS
<1>1. PICK S : S = Feeding(m, s) OBVIOUS
<1> DEFINE Rec(g) == [n \in 0 .. Len(delta) |-> IF n = 0 THEN r ELSE Element(g[n - 1], delta[n], fits)]
           fed == CHOOSE g : g = Rec(g)
           move == [n \in 1 .. N |-> [q \in S |-> Element(q, delta[n], fits)]]
<1>2. \A n \in 1 .. N : delta[n] \in LineKinds \cup {"x"} BY <1>0
<1>3. \A n \in 1 .. N : \A q \in S : Element(q, delta[n], fits) \in S BY <1>1, <1>2, ElementKeeps
<1>4. move \in [1 .. N -> [S -> S]] BY <1>3
<1>5. r \in S BY <1>1
<1>6. PICK g \in [0 .. N -> S] : Iterates(g, N, r, move)
  <2> HIDE DEF move
  <2> QED BY <1>4, <1>5, IterationExists
<1>7. g[0] = r BY <1>6 DEF Iterates
<1>8. ASSUME NEW n \in 1 .. N PROVE g[n] = Element(g[n - 1], delta[n], fits)
  <2>1. n - 1 \in 0 .. N BY <1>0
  <2>2. g[n - 1] \in S BY <1>6, <2>1
  <2>3. g[n] = move[n][g[n - 1]] BY <1>6 DEF Iterates
  <2>4. QED BY <2>2, <2>3
<1>9. g = Rec(g)
  <2>1. ASSUME NEW n \in 0 .. N PROVE g[n] = Rec(g)[n]
    <3>1. CASE n = 0 BY <1>0, <1>7, <3>1
    <3>2. CASE n # 0
      <4>1. n \in 1 .. N BY <1>0, <3>2
      <4>2. QED BY <1>0, <1>8, <3>2, <4>1
    <3>3. QED BY <3>1, <3>2
  <2>2. QED BY <1>0, <1>6, <2>1
<1>10. fed = Rec(fed) BY <1>9
<1>11. Fed(r, delta, fits) = fed[Len(delta)] BY DEF Fed
<1>12. \A n \in 0 .. N : fed[n] \in S
  <2> DEFINE T == {n \in 0 .. N : fed[n] \in S}
  <2>1. fed[0] = r
    <3>1. 0 \in 0 .. Len(delta) BY <1>0
    <3>2. Rec(fed)[0] = r BY <3>1
    <3>3. QED BY <1>10, <3>2
  <2>2. ASSUME NEW n \in 1 .. N PROVE fed[n] = Element(fed[n - 1], delta[n], fits)
    <3>1. n \in 0 .. Len(delta) /\ n # 0 BY <1>0
    <3>2. Rec(fed)[n] = Element(fed[n - 1], delta[n], fits) BY <3>1
    <3>3. QED BY <1>10, <3>2
  <2> HIDE DEF fed
  <2>3. 0 \in T BY <1>0, <1>5, <2>1
  <2>4. ASSUME NEW n \in 1 .. N, n - 1 \in T PROVE n \in T
    <3>1. fed[n - 1] \in S BY <2>4
    <3>2. fed[n] \in S BY <1>3, <2>2, <3>1
    <3>3. n \in 0 .. N BY <1>0
    <3>4. QED BY <3>2, <3>3
  <2>5. \A n \in 0 .. N : n \in T
    <3> HIDE DEF T
    <3> QED BY <1>0, <2>3, <2>4, UpTo
  <2>6. QED BY <2>5
<1>13. fed[Len(delta)] \in S
  <2> HIDE DEF fed
  <2>1. N \in 0 .. N OBVIOUS
  <2>2. QED BY <1>0, <1>12, <2>1
<1>14. QED BY <1>1, <1>11, <1>13

LEMMA EchoKeeps ==
  ASSUME NEW m, NEW s, NEW r \in Feeding(m, s), NEW short \in BOOLEAN
  PROVE  Echo(r, short) \in Feeding(m, s)
<1>1. r \in [md : Streams, screen : Screens, shown : Seq(Nat), wrote : BOOLEAN] BY DEF Feeding
<1>2. Streaming(r.md, r.shown) /\ Apart(r.md, r.screen) BY DEF Feeding
<1>3. r.screen.spinner = s.spinner /\ (~r.wrote => r.screen = s) BY DEF Feeding
<1>4. m.dropped \subseteq r.md.dropped /\ (r.md.text > 0 => r.md.of = requests) BY DEF Feeding
<1>5. r.md \in Streams /\ r.screen \in Screens /\ r.shown \in Seq(Nat) /\ r.wrote \in BOOLEAN BY <1>1
<1>6. r.md.text \in Nat /\ r.md.emitted \in Nat /\ r.md.of \in Nat BY <1>5 DEF Streams
<1>7. PICK q : q = Echo(r, short) OBVIOUS
<1>8. CASE q = r BY <1>7, <1>8
<1>9. CASE q = [r EXCEPT !.md.raw = FALSE]
  <2>1. PICK n : n = [r.md EXCEPT !.raw = FALSE] OBVIOUS
  <2>2. /\ n \in Streams /\ n.text = r.md.text /\ n.of = r.md.of /\ n.line = r.md.line
        /\ n.dropped = r.md.dropped /\ n.table = r.md.table /\ n.candidate = r.md.candidate
        /\ n.code = r.md.code /\ n.emitted = r.md.emitted
    BY <1>5, <2>1 DEF Streams
  <2>3. /\ q \in [md : Streams, screen : Screens, shown : Seq(Nat), wrote : BOOLEAN]
        /\ q.md = n /\ q.screen = r.screen /\ q.shown = r.shown /\ q.wrote = r.wrote
    BY <1>1, <1>5, <1>9, <2>1, <2>2
  <2>4. Streaming(n, r.shown) BY <1>2, <2>2, StreamingOn
  <2>5. Apart(n, r.screen) BY <1>2, <2>2 DEF Apart
  <2>6. QED BY <1>3, <1>4, <1>7, <2>2, <2>3, <2>4, <2>5, Zenon DEF Feeding
<1>10. CASE ~(r.md.text <= r.md.emitted)
            /\ q = [r EXCEPT !.md.emitted = r.md.text, !.screen = Echoed(r.screen), !.wrote = TRUE]
  <2>1. PICK n : n = [r.md EXCEPT !.emitted = r.md.text] OBVIOUS
  <2>2. /\ n \in Streams /\ n.text = r.md.text /\ n.of = r.md.of /\ n.line = r.md.line
        /\ n.dropped = r.md.dropped /\ n.table = r.md.table /\ n.candidate = r.md.candidate
        /\ n.code = r.md.code /\ n.emitted = r.md.text
    BY <1>5, <1>6, <2>1 DEF Streams
  <2>3. PICK to : to = Echoed(r.screen) OBVIOUS
  <2>4. to \in Screens /\ to.spinner = s.spinner /\ to.over = r.screen.over BY <1>3, <1>5, <2>3, RowsAre
  <2>5. /\ q \in [md : Streams, screen : Screens, shown : Seq(Nat), wrote : BOOLEAN]
        /\ q.md = n /\ q.screen = to /\ q.shown = r.shown /\ q.wrote
    BY <1>1, <1>5, <1>10, <2>1, <2>2, <2>3, <2>4
  <2>6. Streaming(n, r.shown) BY <1>2, <2>2, StreamingOn
  <2>7. Apart(n, to)
    <3>1. r.md.text > 0 /\ r.md.text <= r.md.text BY <1>6, <1>10
    <3>2. QED BY <1>2, <2>2, <2>4, <3>1 DEF Apart
  <2>8. QED BY <1>4, <1>7, <2>2, <2>4, <2>5, <2>6, <2>7, Zenon DEF Feeding
<1>11. QED BY <1>7, <1>8, <1>9, <1>10 DEF Echo

-----------------------------------------------------------------------------
(* What holds of the screen. AnswerWhole speaks of what is printed; what makes  *)
(* it so is that the stream is sound, and what makes RowsApart so is that a     *)
(* piece of the answer is on the row only while the spinner is off and the      *)
(* stream knows of it.                                                         *)
Phases == {"editor", "requesting", "streaming", "calling", "running", "menu"}

Resting ==
  /\ phase = "editor" => Held(md) = <<>> /\ md.text = 0 /\ thought = NoThought /\ screen.row # "answer"
  /\ phase \in {"menu", "editor"} => ~screen.spinner

ScreenInv ==
  /\ phase \in Phases /\ requests \in Nat /\ inFlight \subseteq Batch
  /\ thought \in [text : BOOLEAN, opened : BOOLEAN] /\ reasoned \in BOOLEAN
  /\ screen \in Screens /\ Streaming(md, shown) /\ Apart(md, screen)
  /\ md.dropped = {} /\ screen.spinner => screen.row # "answer"
  /\ md.text > 0 => md.of = requests
  /\ Resting

LEMMA Kept ==
  ASSUME ScreenInv
  PROVE  ScreenTypeOK /\ ScreenKept
<1>1. md \in Streams /\ Streaming(md, shown) /\ Apart(md, screen) BY DEF ScreenInv, Streaming
<1>2. ScreenTypeOK BY <1>1 DEF ScreenInv, ScreenTypeOK, Streams, Screens, Phases
<1>3. Lists(shown \o Held(md), LinesOf(md)) BY <1>1 DEF Streaming
<1>4. phase = "editor" => Held(md) = <<>> /\ md.text = 0 /\ ~thought.text /\ ~thought.opened
  BY DEF ScreenInv, Resting, NoThought
<1>5. AnswerWhole BY <1>3, <1>4 DEF AnswerWhole, Lists, LinesOf, ScreenInv
<1>6. RowsApart BY <1>1 DEF RowsApart, Apart, ScreenInv, Resting
<1>7. QED BY <1>2, <1>5, <1>6 DEF ScreenKept

LEMMA FreshIs ==
  ASSUME NEW echo \in BOOLEAN, NEW m, m = FreshStream(echo)
  PROVE  Streaming(m, <<>>) /\ Held(m) = <<>> /\ m.text = 0 /\ m.emitted = 0 /\ m.dropped = {}
<1>0. <<>> \in Seq(Nat) OBVIOUS
<1>1. /\ m \in Streams /\ m.table = <<>> /\ m.candidate = <<>> /\ m.text = 0 /\ m.emitted = 0
      /\ m.dropped = {} /\ m.line = 1
  BY <1>0 DEF FreshStream, Streams
<1>2. Held(m) = <<>> BY <1>1, HeldIs
<1>3. LinesOf(m) = {} BY <1>1 DEF LinesOf
<1>4. Lists(<<>>, {}) BY DEF Lists
<1>5. <<>> \o <<>> = <<>> OBVIOUS
<1>6. Lists(<<>> \o Held(m), LinesOf(m)) BY <1>2, <1>3, <1>4, <1>5, Zenon
<1>7. \A x \in m.dropped : x < m.line BY <1>1
<1>8. QED BY <1>0, <1>1, <1>2, <1>6, <1>7 DEF Streaming

(* flushAnswer, and what is drawn after it. *)
LEMMA AnswerFlushed ==
  ASSUME ScreenInv, NEW s \in Screens, Apart(md, s), NEW kind \in LineKinds, NEW fits \in BOOLEAN,
         NEW done, done = Flushed(md, ThoughtFlushed(s), shown, kind, fits)
  PROVE  /\ Streaming(done.md, done.shown) /\ Held(done.md) = <<>> /\ done.md.text = 0
         /\ done.screen \in Screens /\ done.screen.spinner = s.spinner
         /\ done.md.dropped = {} => ~done.screen.over /\ done.screen.row # "answer" /\ done.md.emitted = 0
<1>1. PICK t : t = ThoughtFlushed(s) OBVIOUS
<1>2. t \in Screens /\ t.spinner = s.spinner /\ t.over = s.over /\ t.row \in {"clean", s.row}
  BY <1>1 DEF ThoughtFlushed, Screens
<1>3. Apart(md, t) BY <1>2 DEF Apart
<1>4. Streaming(md, shown) BY DEF ScreenInv
<1>5. done = Flushed(md, t, shown, kind, fits) BY <1>1
<1>6. QED BY <1>2, <1>3, <1>4, <1>5, FlushedIs

(* Nothing held, nothing on the row: the invariant whatever the phase is then. *)
LEMMA AfterFlush ==
  ASSUME Streaming(md', shown'), Held(md') = <<>>, md'.text = 0,
         phase' \in Phases, requests' \in Nat, inFlight' \subseteq Batch, reasoned' \in BOOLEAN,
         thought' = NoThought, screen' \in Screens,
         md'.dropped = {} => ~screen'.over /\ md'.emitted = 0,
         md'.dropped = {} \/ phase' = "editor" => screen'.row # "answer",
         phase' \in {"menu", "editor"} => ~screen'.spinner
  PROVE  ScreenInv'
<1>1. thought' \in [text : BOOLEAN, opened : BOOLEAN] BY DEF NoThought
<1>2. Apart(md, screen)'
  <2>1. md'.dropped = {} => ~screen'.over /\ md'.emitted <= md'.text /\ screen'.row # "answer" OBVIOUS
  <2>2. QED BY <2>1 DEF Apart
<1>3. Resting' BY DEF Resting
<1>4. ~(md'.text > 0) OBVIOUS
<1>5. QED BY <1>1, <1>2, <1>3, <1>4, Zenon DEF ScreenInv

LEMMA TheScreenStarts == ScreenInit => ScreenInv
<1> SUFFICES ASSUME ScreenInit PROVE ScreenInv OBVIOUS
<1>1. PICK echo \in BOOLEAN : md = FreshStream(echo) BY DEF ScreenInit
<1>2. Streaming(md, <<>>) /\ Held(md) = <<>> /\ md.text = 0 /\ md.emitted = 0 /\ md.dropped = {}
  BY <1>1, FreshIs
<1>3. screen \in Screens /\ ~screen.spinner /\ screen.row = "clean" /\ ~screen.over BY DEF ScreenInit, Screens
<1>4. phase = "editor" /\ thought = NoThought /\ reasoned \in BOOLEAN /\ shown = <<>> /\ inFlight = {} /\ requests = 0
  BY DEF ScreenInit
<1>5. thought \in [text : BOOLEAN, opened : BOOLEAN] BY <1>4 DEF NoThought
<1>6. Apart(md, screen) BY <1>2, <1>3 DEF Apart
<1>7. phase \in Phases BY <1>4 DEF Phases
<1>8. Streaming(md, shown) BY <1>2, <1>4
<1>9. Resting BY <1>2, <1>3, <1>4 DEF Resting
<1>10. QED BY <1>2, <1>3, <1>4, <1>5, <1>6, <1>7, <1>8, <1>9 DEF ScreenInv

LEMMA TheTurnStarts == ASSUME ScreenInv, TurnStarted PROVE ScreenInv'
<1>1. /\ phase = "editor" /\ phase' = "requesting" /\ requests' = 0 /\ shown' = <<>>
      /\ md' = FreshStream(md.echo) /\ thought' = NoThought
      /\ screen' = Spinning([screen EXCEPT !.over = FALSE, !.trace = FALSE])
      /\ reasoned' = reasoned /\ inFlight' = inFlight
  BY DEF TurnStarted
<1>2. md.echo \in BOOLEAN BY DEF ScreenInv, Streaming, Streams
<1>3. Streaming(md', shown') /\ Held(md') = <<>> /\ md'.text = 0 /\ md'.emitted = 0 BY <1>1, <1>2, FreshIs
<1>4. PICK s : s = [screen EXCEPT !.over = FALSE, !.trace = FALSE] OBVIOUS
<1>5. s \in Screens /\ ~s.over /\ ~s.spinner /\ s.row # "answer"
  BY <1>1, <1>4 DEF ScreenInv, Resting, Screens
<1>6. screen' \in Screens /\ ~screen'.over /\ screen'.row # "answer"
  <2>1. PICK to : to = Spinning(s) OBVIOUS
  <2>2. to \in Screens /\ to.over = s.over /\ to.row # "answer" BY <1>5, <2>1, RowsAre, Zenon
  <2>3. screen' = to BY <1>1, <1>4, <2>1, Zenon
  <2>4. QED BY <1>5, <2>2, <2>3, Zenon
<1>7. phase' \in Phases /\ phase' \notin {"menu", "editor"} BY <1>1 DEF Phases
<1>8. requests' \in Nat /\ inFlight' \subseteq Batch /\ reasoned' \in BOOLEAN BY <1>1 DEF ScreenInv
<1>9. QED BY <1>1, <1>3, <1>6, <1>7, <1>8, AfterFlush

LEMMA TheRequestStarts == ASSUME ScreenInv, RequestStarted PROVE ScreenInv'
<1>1. /\ phase' = "streaming" /\ requests' = requests + 1 /\ FlushAnswer(screen, Spinning)
      /\ reasoned' = reasoned /\ inFlight' = inFlight
  BY DEF RequestStarted
<1>2. PICK kind \in LineKinds, fits \in BOOLEAN :
        /\ md' = Flushed(md, ThoughtFlushed(screen), shown, kind, fits).md
        /\ screen' = Spinning(Flushed(md, ThoughtFlushed(screen), shown, kind, fits).screen)
        /\ shown' = Flushed(md, ThoughtFlushed(screen), shown, kind, fits).shown
        /\ thought' = NoThought
  BY <1>1 DEF FlushAnswer
<1>3. PICK done : done = Flushed(md, ThoughtFlushed(screen), shown, kind, fits) OBVIOUS
<1>4. screen \in Screens /\ Apart(md, screen) BY DEF ScreenInv
<1>5. /\ Streaming(done.md, done.shown) /\ Held(done.md) = <<>> /\ done.md.text = 0
      /\ done.screen \in Screens /\ done.screen.spinner = screen.spinner
      /\ done.md.dropped = {} => ~done.screen.over /\ done.screen.row # "answer" /\ done.md.emitted = 0
  BY <1>3, <1>4, AnswerFlushed
<1>6. md' = done.md /\ screen' = Spinning(done.screen) /\ shown' = done.shown /\ thought' = NoThought BY <1>2, <1>3
<1>7. screen' \in Screens BY <1>5, <1>6, RowsAre
<1>8. done.md.dropped = {} => ~screen'.over /\ screen'.row # "answer" BY <1>5, <1>6, RowsAre
<1>9. phase' \in Phases /\ phase' \notin {"menu", "editor"} BY <1>1 DEF Phases
<1>10. requests' \in Nat /\ inFlight' \subseteq Batch /\ reasoned' \in BOOLEAN BY <1>1 DEF ScreenInv
<1>11. QED BY <1>5, <1>6, <1>7, <1>8, <1>9, <1>10, AfterFlush

(* A call is announced, or approved on its own. *)
LEMMA ALineIsPut ==
  ASSUME ScreenInv, FlushAnswer(screen, LAMBDA s : Spinning(Lines(Stopped(s)))),
         phase' \in Phases, phase' \notin {"menu", "editor"}, requests' = requests,
         inFlight' \subseteq Batch, reasoned' = reasoned
  PROVE  ScreenInv'
<1>1. PICK kind \in LineKinds, fits \in BOOLEAN :
        /\ md' = Flushed(md, ThoughtFlushed(screen), shown, kind, fits).md
        /\ screen' = Spinning(Lines(Stopped(Flushed(md, ThoughtFlushed(screen), shown, kind, fits).screen)))
        /\ shown' = Flushed(md, ThoughtFlushed(screen), shown, kind, fits).shown
        /\ thought' = NoThought
  BY DEF FlushAnswer
<1>2. PICK done : done = Flushed(md, ThoughtFlushed(screen), shown, kind, fits) OBVIOUS
<1>3. screen \in Screens /\ Apart(md, screen) BY DEF ScreenInv
<1>4. /\ Streaming(done.md, done.shown) /\ Held(done.md) = <<>> /\ done.md.text = 0
      /\ done.screen \in Screens
      /\ done.md.dropped = {} => ~done.screen.over /\ done.screen.row # "answer" /\ done.md.emitted = 0
  BY <1>2, <1>3, AnswerFlushed
<1>5. PICK s, t : s = Stopped(done.screen) /\ t = Lines(s) OBVIOUS
<1>6. /\ s \in Screens /\ ~s.spinner /\ s.row = "clean" /\ s.over = done.screen.over
  BY <1>4, <1>5, RowsAre
<1>7. t \in Screens /\ ~t.spinner /\ t.row = "clean" /\ t.over = done.screen.over BY <1>5, <1>6, RowsAre
<1>8. md' = done.md /\ screen' = Spinning(t) /\ shown' = done.shown /\ thought' = NoThought BY <1>1, <1>2, <1>5
<1>9. screen' \in Screens /\ screen'.row # "answer" /\ screen'.over = done.screen.over BY <1>7, <1>8, RowsAre
<1>10. requests' \in Nat /\ reasoned' \in BOOLEAN BY DEF ScreenInv
<1>11. QED BY <1>4, <1>8, <1>9, <1>10, AfterFlush

LEMMA TheTurnIsOver == ASSUME ScreenInv, TurnOver PROVE ScreenInv'
<1>1. phase' = "editor" /\ inFlight' = {} /\ FlushAnswer(Stopped(screen), Lines)
      /\ reasoned' = reasoned /\ requests' = requests
  BY DEF TurnOver
<1>2. PICK s : s = Stopped(screen) OBVIOUS
<1>3. PICK kind \in LineKinds, fits \in BOOLEAN :
        /\ md' = Flushed(md, ThoughtFlushed(s), shown, kind, fits).md
        /\ screen' = Lines(Flushed(md, ThoughtFlushed(s), shown, kind, fits).screen)
        /\ shown' = Flushed(md, ThoughtFlushed(s), shown, kind, fits).shown
        /\ thought' = NoThought
  BY <1>1, <1>2 DEF FlushAnswer
<1>4. PICK done : done = Flushed(md, ThoughtFlushed(s), shown, kind, fits) OBVIOUS
<1>5. screen \in Screens /\ Apart(md, screen) BY DEF ScreenInv
<1>6. s \in Screens /\ ~s.spinner /\ s.row = "clean" /\ s.over = screen.over BY <1>2, <1>5, RowsAre
<1>7. Apart(md, s) BY <1>5, <1>6 DEF Apart
<1>8. /\ Streaming(done.md, done.shown) /\ Held(done.md) = <<>> /\ done.md.text = 0
      /\ done.screen \in Screens /\ done.screen.spinner = s.spinner
      /\ done.md.dropped = {} => ~done.screen.over /\ done.screen.row # "answer" /\ done.md.emitted = 0
  BY <1>4, <1>6, <1>7, AnswerFlushed
<1>9. md' = done.md /\ screen' = Lines(done.screen) /\ shown' = done.shown /\ thought' = NoThought BY <1>3, <1>4
<1>10. /\ screen' \in Screens /\ screen'.row = "clean" /\ ~screen'.spinner
       /\ done.md.dropped = {} => ~screen'.over
  BY <1>6, <1>8, <1>9, RowsAre
<1>11. phase' \in Phases BY <1>1 DEF Phases
<1>12. requests' \in Nat /\ reasoned' \in BOOLEAN BY <1>1 DEF ScreenInv
<1>13. QED BY <1>1, <1>8, <1>9, <1>10, <1>11, <1>12, AfterFlush

LEMMA ADeltaComes == ASSUME ScreenInv, Delta PROVE ScreenInv'
<1>1. phase = "streaming" /\ phase' = phase /\ reasoned' = reasoned /\ inFlight' = inFlight
      /\ requests' = requests /\ thought' = NoThought
  BY DEF Delta
<1>2. PICK quietly : quietly = ThoughtFlushed(screen) OBVIOUS
<1>3. PICK loud, still : /\ loud = [md |-> md, screen |-> quietly, shown |-> shown, wrote |-> FALSE]
                         /\ still = [md |-> md, screen |-> Stopped(quietly), shown |-> shown, wrote |-> FALSE]
  OBVIOUS
<1>4. PICK delta \in Deltas, fits \in BOOLEAN, short \in BOOLEAN :
        LET next == IF Echo(Fed(loud, delta, fits), short).wrote
                    THEN Echo(Fed(still, delta, fits), short) ELSE Echo(Fed(loud, delta, fits), short)
        IN md' = next.md /\ screen' = next.screen /\ shown' = next.shown
  BY <1>2, <1>3 DEF Delta
<1>5. delta \in Seq(LineKinds \cup {"x"}) BY DeltasAssumption
<1>6. screen \in Screens /\ Apart(md, screen) /\ Streaming(md, shown) /\ requests \in Nat
      /\ (md.text > 0 => md.of = requests)
      /\ (md.dropped = {} /\ screen.spinner => screen.row # "answer")
  BY DEF ScreenInv
<1>7. quietly \in Screens /\ quietly.spinner = screen.spinner /\ quietly.over = screen.over
      /\ quietly.row \in {"clean", screen.row}
  BY <1>2, <1>6 DEF ThoughtFlushed, Screens
<1>8. PICK silent : silent = Stopped(quietly) OBVIOUS
<1>9. silent \in Screens /\ ~silent.spinner /\ silent.row = "clean" /\ silent.over = quietly.over
  BY <1>7, <1>8, RowsAre
<1>10. Apart(md, quietly) /\ Apart(md, silent) BY <1>6, <1>7, <1>9 DEF Apart
<1>11. md \in Streams /\ shown \in Seq(Nat) BY <1>6 DEF Streaming
<1>12. loud \in Feeding(md, quietly)
  <2>1. /\ loud \in [md : Streams, screen : Screens, shown : Seq(Nat), wrote : BOOLEAN]
        /\ loud.md = md /\ loud.screen = quietly /\ loud.shown = shown /\ ~loud.wrote
    BY <1>3, <1>7, <1>11
  <2>2. md.dropped \subseteq md.dropped OBVIOUS
  <2>3. QED BY <1>6, <1>10, <2>1, <2>2, Zenon DEF Feeding
<1>13. still \in Feeding(md, silent)
  <2>1. /\ still \in [md : Streams, screen : Screens, shown : Seq(Nat), wrote : BOOLEAN]
        /\ still.md = md /\ still.screen = silent /\ still.shown = shown /\ ~still.wrote
    BY <1>3, <1>8, <1>9, <1>11
  <2>2. md.dropped \subseteq md.dropped OBVIOUS
  <2>3. QED BY <1>6, <1>10, <2>1, <2>2, Zenon DEF Feeding
<1>14. PICK q : q = Echo(Fed(loud, delta, fits), short) OBVIOUS
<1>15. PICK p : p = Echo(Fed(still, delta, fits), short) OBVIOUS
<1>16. q \in Feeding(md, quietly) BY <1>5, <1>6, <1>12, <1>14, FedKeeps, EchoKeeps
<1>17. p \in Feeding(md, silent) BY <1>5, <1>6, <1>13, <1>15, FedKeeps, EchoKeeps
<1>18. PICK next : next = IF q.wrote THEN p ELSE q OBVIOUS
<1>19. md' = next.md /\ screen' = next.screen /\ shown' = next.shown BY <1>4, <1>14, <1>15, <1>18
<1>20. /\ next.screen \in Screens /\ Streaming(next.md, next.shown) /\ Apart(next.md, next.screen)
       /\ next.md.text > 0 => next.md.of = requests
       /\ next.md.dropped = {} /\ next.screen.spinner => next.screen.row # "answer"
  <2>1. CASE q.wrote
    <3>1. next = p BY <1>18, <2>1
    <3>2. p.screen.spinner = silent.spinner BY <1>17 DEF Feeding
    <3>3. QED BY <1>9, <1>17, <3>1, <3>2 DEF Feeding
  <2>2. CASE ~q.wrote
    <3>1. next = q BY <1>18, <2>2
    <3>2. q.screen = quietly /\ md.dropped \subseteq q.md.dropped BY <1>16, <2>2 DEF Feeding
    <3>3. q.md.dropped = {} /\ quietly.spinner => quietly.row # "answer" BY <1>6, <1>7, <3>2
    <3>4. QED BY <1>16, <3>1, <3>2, <3>3 DEF Feeding
  <2>3. QED BY <2>1, <2>2
<1>21. phase' \in Phases /\ requests' \in Nat /\ inFlight' \subseteq Batch /\ reasoned' \in BOOLEAN
  BY <1>1 DEF ScreenInv
<1>22. thought' \in [text : BOOLEAN, opened : BOOLEAN] BY <1>1 DEF NoThought
<1>23. Resting' BY <1>1 DEF Resting
<1>24. Streaming(md', shown') /\ Apart(md', screen') BY <1>19, <1>20, Zenon
<1>25. QED BY <1>1, <1>19, <1>20, <1>21, <1>22, <1>23, <1>24 DEF ScreenInv


(* Those that leave the answer alone. *)
LEMMA TheAnswerStays ==
  ASSUME ScreenInv, UNCHANGED <<md, shown>>, phase' \in Phases, requests' = requests, inFlight' \subseteq Batch,
         thought' \in [text : BOOLEAN, opened : BOOLEAN], reasoned' \in BOOLEAN,
         screen' \in Screens, screen'.row # "answer" \/ screen' = screen,
         md.dropped = {} => screen'.over = screen.over,
         Resting'
  PROVE  ScreenInv'
<1>1. /\ Streaming(md, shown) /\ Apart(md, screen) /\ requests \in Nat /\ (md.text > 0 => md.of = requests)
      /\ (md.dropped = {} /\ screen.spinner => screen.row # "answer")
  BY DEF ScreenInv
<1>2. Streaming(md', shown') BY <1>1
<1>3. Apart(md', screen')
  <2>1. md' = md OBVIOUS
  <2>2. Apart(md, screen') BY <1>1 DEF Apart
  <2>3. QED BY <2>1, <2>2
<1>4. md'.dropped = {} /\ screen'.spinner => screen'.row # "answer" BY <1>1
<1>5. requests' \in Nat /\ (md'.text > 0 => md'.of = requests') BY <1>1
<1>6. QED BY <1>2, <1>3, <1>4, <1>5 DEF ScreenInv

LEMMA TheScreenIsKeptByAStep == ASSUME ScreenInv, [ScreenNext]_screenVars PROVE ScreenInv'
<1>1. /\ screen \in Screens /\ phase \in Phases /\ requests \in Nat /\ inFlight \subseteq Batch
      /\ thought \in [text : BOOLEAN, opened : BOOLEAN] /\ reasoned \in BOOLEAN /\ Resting
      /\ (md.dropped = {} /\ screen.spinner => screen.row # "answer")
  BY DEF ScreenInv
<1>2. PICK s, t : s = Stopped(screen) /\ t = Lines(s) OBVIOUS
<1>3. s \in Screens /\ ~s.spinner /\ s.row = "clean" /\ s.over = screen.over BY <1>1, <1>2, RowsAre
<1>4. t \in Screens /\ ~t.spinner /\ t.row = "clean" /\ t.over = screen.over BY <1>2, <1>3, RowsAre
<1>5. CASE TurnStarted BY <1>5, TheTurnStarts
<1>6. CASE RequestStarted BY <1>6, TheRequestStarts
<1>7. CASE Delta BY <1>7, ADeltaComes
<1>8. CASE Reasoning
  <2>1. phase = "streaming" /\ phase' = phase /\ UNCHANGED <<md, shown>> /\ requests' = requests
        /\ inFlight' = inFlight /\ reasoned' = reasoned
    BY <1>8 DEF Reasoning
  <2>2. thought' \in [text : BOOLEAN, opened : BOOLEAN] BY <1>1, <1>8 DEF Reasoning
  <2>3. screen' = t \/ screen' = screen BY <1>2, <1>8 DEF Reasoning
  <2>4. Resting' BY <2>1 DEF Resting
  <2>5. screen' \in Screens /\ (screen'.row # "answer" \/ screen' = screen) /\ screen'.over = screen.over
    BY <1>1, <1>4, <2>3
  <2>6. QED BY <1>1, <2>1, <2>2, <2>4, <2>5, TheAnswerStays
<1>9. CASE Responded
  <2>1. phase' \in {"requesting", "calling"} /\ UNCHANGED <<md, thought, reasoned, screen, shown, inFlight, requests>>
    BY <1>9 DEF Responded
  <2>2. phase' \in Phases /\ Resting' BY <2>1 DEF Phases, Resting
  <2>3. QED BY <1>1, <2>1, <2>2, TheAnswerStays
<1>10. CASE ToolCall
  <2>1. FlushAnswer(screen, LAMBDA x : Spinning(Lines(Stopped(x)))) BY <1>10 DEF ToolCall
  <2>2. phase' \in {"calling", "running"} /\ requests' = requests /\ reasoned' = reasoned BY <1>10 DEF ToolCall
  <2>3. inFlight' \subseteq Batch BY <1>1, <1>10 DEF ToolCall
  <2>4. phase' \in Phases /\ phase' \notin {"menu", "editor"} BY <2>2 DEF Phases
  <2>5. QED BY <2>1, <2>2, <2>3, <2>4, ALineIsPut
<1>11. CASE AutoApproved
  <2>1. FlushAnswer(screen, LAMBDA x : Spinning(Lines(Stopped(x)))) BY <1>11 DEF AutoApproved
  <2>2. phase = "running" /\ phase' = phase /\ requests' = requests /\ reasoned' = reasoned /\ inFlight' = inFlight
    BY <1>11 DEF AutoApproved
  <2>3. phase' \in Phases /\ phase' \notin {"menu", "editor"} BY <2>2 DEF Phases
  <2>4. QED BY <1>1, <2>1, <2>2, <2>3, ALineIsPut
<1>12. CASE Asked
  <2>1. phase' = "menu" /\ screen' = t /\ UNCHANGED <<md, thought, reasoned, shown, inFlight, requests>>
    BY <1>2, <1>12 DEF Asked
  <2>2. phase' \in Phases BY <2>1 DEF Phases
  <2>3. Resting' BY <1>4, <2>1 DEF Resting
  <2>4. QED BY <1>1, <1>4, <2>1, <2>2, <2>3, TheAnswerStays
<1>13. CASE Answered
  <2>1. phase' = "running" /\ UNCHANGED <<md, thought, reasoned, screen, shown, inFlight, requests>>
    BY <1>13 DEF Answered
  <2>2. phase' \in Phases /\ Resting' BY <2>1 DEF Phases, Resting
  <2>3. QED BY <1>1, <2>1, <2>2, TheAnswerStays
<1>14. CASE ToolResult
  <2>1. phase' \in {"requesting", "running"} /\ inFlight' \subseteq Batch /\ screen' = Spinning(t)
        /\ UNCHANGED <<md, thought, reasoned, shown, requests>>
    BY <1>1, <1>2, <1>14 DEF ToolResult
  <2>2. phase' \in Phases /\ Resting' BY <2>1 DEF Phases, Resting
  <2>3. screen' \in Screens /\ screen'.row # "answer" /\ screen'.over = screen.over BY <1>4, <2>1, RowsAre
  <2>4. QED BY <1>1, <2>1, <2>2, <2>3, TheAnswerStays
<1>15. CASE TurnOver BY <1>15, TheTurnIsOver
<1>16. CASE Tick
  <2>1. screen.spinner /\ screen' = Drawn(screen)
        /\ UNCHANGED <<phase, md, thought, reasoned, shown, inFlight, requests>>
    BY <1>16 DEF Tick
  <2>2. screen' \in Screens /\ screen'.row # "answer" /\ (md.dropped = {} => screen'.over = screen.over)
    BY <1>1, <2>1, RowsAre
  <2>3. Resting' BY <1>1, <2>1 DEF Resting
  <2>4. QED BY <1>1, <2>1, <2>2, <2>3, TheAnswerStays
<1>17. CASE SetReasoning
  <2>1. phase = "editor" /\ reasoned' = ~reasoned /\ thought' = NoThought
        /\ screen' = (IF reasoned THEN ThoughtFlushed(screen) ELSE screen)
        /\ UNCHANGED <<phase, md, shown, inFlight, requests>>
    BY <1>17 DEF SetReasoning
  <2>2. screen' \in Screens /\ screen'.row \in {"clean", screen.row} /\ screen'.over = screen.over
        /\ screen'.spinner = screen.spinner
    BY <1>1, <2>1 DEF ThoughtFlushed, Screens
  <2>3. screen.row # "answer" /\ ~screen.spinner /\ Held(md) = <<>> /\ md.text = 0 BY <1>1, <2>1 DEF Resting
  <2>4. Held(md') = <<>> /\ md'.text = 0 BY <2>1, <2>3
  <2>5. screen'.row # "answer" /\ ~screen'.spinner BY <2>2, <2>3
  <2>6. Resting' BY <2>1, <2>4, <2>5 DEF Resting
  <2>7. thought' \in [text : BOOLEAN, opened : BOOLEAN] BY <2>1 DEF NoThought
  <2>8. reasoned' \in BOOLEAN BY <2>1
  <2>9. QED BY <1>1, <2>1, <2>2, <2>5, <2>6, <2>7, <2>8, TheAnswerStays
<1>18. CASE UNCHANGED screenVars
  <2>1. UNCHANGED <<phase, md, thought, reasoned, screen, shown, inFlight, requests>> BY <1>18 DEF screenVars
  <2>2. Resting' BY <1>1, <2>1 DEF Resting
  <2>3. QED BY <1>1, <2>1, <2>2, TheAnswerStays
<1>19. QED
  BY <1>5, <1>6, <1>7, <1>8, <1>9, <1>10, <1>11, <1>12, <1>13, <1>14, <1>15, <1>16, <1>17, <1>18 DEF ScreenNext

(* However the answer is cut up and whatever interrupts it, its lines are      *)
(* printed once and in order, none is made of two messages, and the spinner is *)
(* never drawn over the answer, the menu or the editor: whatever the deltas,   *)
(* the calls of a step and the bounds.                                         *)
THEOREM TheScreenIsKept == ScreenSpec => []ScreenKept
<1>1. ScreenInit => ScreenInv BY TheScreenStarts
<1>2. ScreenInv /\ [ScreenNext]_screenVars => ScreenInv' BY TheScreenIsKeptByAStep
<1>3. ScreenInv => ScreenKept BY Kept
<1>4. QED BY <1>1, <1>2, <1>3, PTL DEF ScreenSpec

=============================================================================
