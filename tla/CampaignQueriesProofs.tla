------------------------ MODULE CampaignQueriesProofs ------------------------
(***************************************************************************)
(* Theorems about what is asked of the campaign graph, for every view,     *)
(* depth, set of embeddings and parameters of the indexes: a path that the *)
(* bidirectional search answers with is a shortest one, and what the two   *)
(* layered indexes answer is as near as anything that they hold.           *)
(*                                                                         *)
(* In three parts: the path query, the indexes, and the two together.      *)
(* Recursive functions are reasoned about along the steps of the recursion *)
(* (Recursion): the walk back from a meeting point, the greedy descent,    *)
(* the search of a layer, and the layers of an insertion.                  *)
(***************************************************************************)
EXTENDS CampaignQueries, Recursion, SequenceTheorems, TLAPS

-----------------------------------------------------------------------------
\* The path query.

\* A walk of n links of L from a to b, over nodes of V.
Walk(V, L, a, b, n) ==
    \E p \in [0..n -> V] :
        p[0] = a /\ p[n] = b /\ \A i \in 0..(n - 1) : {p[i], p[i + 1]} \in L

\* A walk of no link stays where it is.
LEMMA WalkOfNone ==
    ASSUME NEW V, NEW L, NEW a, NEW b
    PROVE  Walk(V, L, a, b, 0) <=> a = b /\ a \in V
<1>1. ASSUME Walk(V, L, a, b, 0) PROVE a = b /\ a \in V
  BY <1>1 DEF Walk
<1>2. ASSUME a = b, a \in V PROVE Walk(V, L, a, b, 0)
  <2> DEFINE p == [i \in 0..0 |-> a]
  <2>1. p \in [0..0 -> V] /\ p[0] = a /\ p[0] = b
    BY <1>2
  <2>2. 0..(0 - 1) = {}
    OBVIOUS
  <2> QED
    BY <2>1, <2>2 DEF Walk
<1> QED
  BY <1>1, <1>2

\* A walk begins and ends at nodes of the view.
LEMMA WalkEnds ==
    ASSUME NEW V, NEW L, NEW a, NEW b, NEW n \in Nat, Walk(V, L, a, b, n)
    PROVE  a \in V /\ b \in V
  BY DEF Walk

\* Two walks that meet are one; a walk is two, cut anywhere.
LEMMA WalksJoin ==
    ASSUME NEW V, NEW L, NEW a, NEW b, NEW c, NEW n \in Nat, NEW m \in Nat,
           Walk(V, L, a, b, n), Walk(V, L, b, c, m)
    PROVE  Walk(V, L, a, c, n + m)
<1>1. PICK p \in [0..n -> V] : p[0] = a /\ p[n] = b /\ \A i \in 0..(n - 1) : {p[i], p[i + 1]} \in L
  BY DEF Walk
<1>2. PICK q \in [0..m -> V] : q[0] = b /\ q[m] = c /\ \A i \in 0..(m - 1) : {q[i], q[i + 1]} \in L
  BY DEF Walk
<1> DEFINE r == [i \in 0..(n + m) |-> IF i <= n THEN p[i] ELSE q[i - n]]
<1>3. r \in [0..(n + m) -> V]
  <2> SUFFICES ASSUME NEW i \in 0..(n + m) PROVE r[i] \in V
    OBVIOUS
  <2> QED
    BY <1>1, <1>2
<1>4. r[0] = a /\ r[n + m] = c
  BY <1>1, <1>2
<1>5. ASSUME NEW i \in 0..(n + m - 1) PROVE {r[i], r[i + 1]} \in L
  <2>1. CASE i < n
    <3>1. r[i] = p[i] /\ r[i + 1] = p[i + 1] /\ i \in 0..(n - 1)
      BY <2>1
    <3> QED
      BY <1>1, <3>1
  <2>2. CASE i >= n
    <3>1. i - n \in 0..(m - 1) /\ (i + 1) - n = (i - n) + 1 /\ i + 1 \in 0..(n + m) /\ ~(i + 1 <= n)
      BY <2>2
    <3>2. r[i + 1] = q[(i - n) + 1]
      BY <3>1
    <3>3. r[i] = q[i - n]
      <4>1. CASE i = n
        BY <4>1, <1>1, <1>2
      <4>2. CASE i > n
        BY <4>2
      <4> QED
        BY <2>2, <4>1, <4>2
    <3>4. {q[i - n], q[(i - n) + 1]} \in L
      BY <1>2, <3>1
    <3> HIDE DEF r
    <3> QED
      BY <3>2, <3>3, <3>4
  <2> QED
    BY <2>1, <2>2
<1> DEFINE N == n + m
<1>6. r \in [0..N -> V] /\ r[0] = a /\ r[N] = c /\ \A i \in 0..(N - 1) : {r[i], r[i + 1]} \in L
  <2> HIDE DEF r
  <2> QED
    BY <1>3, <1>4, <1>5
<1>7. Walk(V, L, a, c, N)
  <2> HIDE DEF r, N
  <2> QED
    BY <1>6 DEF Walk
<1> QED
  BY <1>7

\* A walk passes a node after each number of its links.
LEMMA WalksCut ==
    ASSUME NEW V, NEW L, NEW a, NEW c, NEW n \in Nat, NEW i \in 0..n, Walk(V, L, a, c, n)
    PROVE  \E b \in V : Walk(V, L, a, b, i) /\ Walk(V, L, b, c, n - i)
<1>1. PICK p \in [0..n -> V] : p[0] = a /\ p[n] = c /\ \A j \in 0..(n - 1) : {p[j], p[j + 1]} \in L
  BY DEF Walk
<1> DEFINE q == [j \in 0..i |-> p[j]]
           r == [j \in 0..(n - i) |-> p[i + j]]
<1>2. Walk(V, L, a, p[i], i)
  <2>1. q \in [0..i -> V] /\ q[0] = a /\ q[i] = p[i]
    BY <1>1
  <2>2. ASSUME NEW j \in 0..(i - 1) PROVE {q[j], q[j + 1]} \in L
    <3>1. q[j] = p[j] /\ q[j + 1] = p[j + 1] /\ j \in 0..(n - 1)
      OBVIOUS
    <3> QED
      BY <1>1, <3>1
  <2> QED
    BY <2>1, <2>2 DEF Walk
<1>3. Walk(V, L, p[i], c, n - i)
  <2>1. r \in [0..(n - i) -> V] /\ r[0] = p[i] /\ r[n - i] = c
    BY <1>1
  <2>2. ASSUME NEW j \in 0..(n - i - 1) PROVE {r[j], r[j + 1]} \in L
    <3>1. r[j] = p[i + j] /\ r[j + 1] = p[(i + j) + 1] /\ i + j \in 0..(n - 1)
      OBVIOUS
    <3> QED
      BY <1>1, <3>1
  <2> QED
    BY <2>1, <2>2 DEF Walk
<1> QED
  BY <1>1, <1>2, <1>3

\* Links have no direction, so a walk may be taken back.
LEMMA WalksTurn ==
    ASSUME NEW V, NEW L, NEW a, NEW b, NEW n \in Nat, Walk(V, L, a, b, n)
    PROVE  Walk(V, L, b, a, n)
<1>1. PICK p \in [0..n -> V] : p[0] = a /\ p[n] = b /\ \A j \in 0..(n - 1) : {p[j], p[j + 1]} \in L
  BY DEF Walk
<1> DEFINE q == [j \in 0..n |-> p[n - j]]
<1>2. q \in [0..n -> V] /\ q[0] = b /\ q[n] = a
  BY <1>1
<1>3. ASSUME NEW j \in 0..(n - 1) PROVE {q[j], q[j + 1]} \in L
  <2>1. n - (j + 1) \in 0..(n - 1) /\ n - j = (n - (j + 1)) + 1
    OBVIOUS
  <2>2. q[j] = p[n - j] /\ q[j + 1] = p[n - (j + 1)]
    OBVIOUS
  <2>3. {p[n - (j + 1)], p[n - j]} \in L
    BY <1>1, <2>1
  <2>4. {q[j], q[j + 1]} = {p[n - (j + 1)], p[n - j]}
    BY <2>2
  <2> QED
    BY <2>3, <2>4
<1> QED
  BY <1>2, <1>3 DEF Walk

\* One link is a walk.
LEMMA WalkOfOne ==
    ASSUME NEW V, NEW L, NEW a \in V, NEW b \in V
    PROVE  Walk(V, L, a, b, 1) <=> {a, b} \in L
<1>1. ASSUME Walk(V, L, a, b, 1) PROVE {a, b} \in L
  <2>1. PICK p \in [0..1 -> V] : p[0] = a /\ p[1] = b /\ \A j \in 0..(1 - 1) : {p[j], p[j + 1]} \in L
    BY <1>1 DEF Walk
  <2>2. {p[0], p[0 + 1]} \in L
    BY <2>1
  <2> QED
    BY <2>1, <2>2
<1>2. ASSUME {a, b} \in L PROVE Walk(V, L, a, b, 1)
  <2> DEFINE p == [i \in 0..1 |-> IF i = 0 THEN a ELSE b]
  <2>1. p \in [0..1 -> V] /\ p[0] = a /\ p[1] = b
    OBVIOUS
  <2>2. \A i \in 0..(1 - 1) : {p[i], p[i + 1]} \in L
    BY <1>2
  <2> QED
    BY <2>1, <2>2 DEF Walk
<1> QED
  BY <1>1, <1>2

\* A walk of one more link is a walk and a link.
LEMMA WalkAndLink ==
    ASSUME NEW V, NEW L, NEW a, NEW c, NEW n \in Nat
    PROVE  Walk(V, L, a, c, n + 1)
              <=> c \in V /\ \E b \in V : Walk(V, L, a, b, n) /\ {b, c} \in L
<1>1. ASSUME Walk(V, L, a, c, n + 1)
      PROVE  c \in V /\ \E b \in V : Walk(V, L, a, b, n) /\ {b, c} \in L
  <2>1. PICK b \in V : Walk(V, L, a, b, n) /\ Walk(V, L, b, c, (n + 1) - n)
    BY <1>1, WalksCut, n + 1 \in Nat, n \in 0..(n + 1)
  <2>2. (n + 1) - n = 1
    OBVIOUS
  <2>3. c \in V
    BY <1>1, WalkEnds, n + 1 \in Nat
  <2> QED
    BY <2>1, <2>2, <2>3, WalkOfOne
<1>2. ASSUME c \in V, NEW b \in V, Walk(V, L, a, b, n), {b, c} \in L
      PROVE  Walk(V, L, a, c, n + 1)
  BY <1>2, WalkOfOne, WalksJoin
<1> QED
  BY <1>1, <1>2

\* The number of hops between two nodes that a walk joins.
Hops(V, L, a, b) ==
    CHOOSE n \in Nat : Walk(V, L, a, b, n) /\ \A k \in 0..(n - 1) : ~Walk(V, L, a, b, k)

\* The hops between two nodes that a walk joins are the links of a shortest one.
LEMMA HopsFacts ==
    ASSUME NEW V, NEW L, NEW a, NEW b, NEW n \in Nat, Walk(V, L, a, b, n)
    PROVE  /\ Hops(V, L, a, b) \in 0..n
           /\ Walk(V, L, a, b, Hops(V, L, a, b))
           /\ \A k \in Nat : Walk(V, L, a, b, k) => Hops(V, L, a, b) <= k
<1> DEFINE T == {k \in Nat : Walk(V, L, a, b, k)}
<1>1. PICK m \in T : \A k \in T : m <= k
  <2>1. T \subseteq Nat /\ T # {}
    OBVIOUS
  <2> HIDE DEF T
  <2> QED
    BY <2>1, SmallestOf
<1>2. m \in Nat /\ Walk(V, L, a, b, m) /\ \A k \in 0..(m - 1) : ~Walk(V, L, a, b, k)
  BY <1>1
<1> DEFINE h == Hops(V, L, a, b)
<1>3. h \in Nat /\ Walk(V, L, a, b, h) /\ \A k \in 0..(h - 1) : ~Walk(V, L, a, b, k)
  BY <1>2 DEF Hops
<1>4. \A k \in Nat : Walk(V, L, a, b, k) => h <= k
  <2> HIDE DEF h
  <2> QED
    BY <1>3
<1> QED
  BY <1>3, <1>4


\* What Within computes: the nodes that a walk of at most n links reaches.
LEMMA WithinIs ==
    ASSUME NEW n \in Nat
    PROVE  \A b : b \in Within[n] <=> \E k \in 0..n : Walk(viewNodes, viewLinks, ends[1], b, k)
<1> DEFINE V     == viewNodes
           L     == viewLinks
           Grown(S) == S \cup UNION {Neighbors(m) : m \in S}
           Eq(w) == w = [i \in Nat |-> IF i = 0 THEN {ends[1]} \cap V ELSE Grown(w[i - 1])]
<1>1. \E w : Eq(w)
  <2> DEFINE W    == SUBSET V
             mu   == [i \in Nat |-> i]
             next == [i \in Nat |-> IF i = 0 THEN 0 ELSE i - 1]
             base == [i \in Nat |-> {ends[1]} \cap V]
             op   == [x \in Nat \X W |-> Grown(x[2])]
  <2>1. \A S \in SUBSET V : Grown(S) \in SUBSET V
    BY DEF Neighbors
  <2>2. Descends(Nat, W, mu, {0}, next, base, op)
    BY <2>1 DEF Descends
  <2>3. PICK w : Recurses(w, Nat, W, {0}, next, base, op)
    <3> HIDE DEF W, mu, next, base, op
    <3> QED
      BY <2>2, RecursionAlong
  <2>4. w \in [Nat -> W] /\ \A i \in Nat : w[i] = IF i = 0 THEN base[i] ELSE op[<<i, w[next[i]]>>]
    BY <2>3 DEF Recurses
  <2>5. \A i \in Nat : w[i] = IF i = 0 THEN {ends[1]} \cap V ELSE Grown(w[i - 1])
    <3> SUFFICES ASSUME NEW i \in Nat PROVE w[i] = IF i = 0 THEN {ends[1]} \cap V ELSE Grown(w[i - 1])
      OBVIOUS
    <3>1. CASE i = 0
      BY <2>4, <3>1
    <3>2. CASE i # 0
      <4>1. i - 1 \in Nat /\ w[i - 1] \in SUBSET V
        BY <2>4, <3>2
      <4>2. w[i] = op[<<i, w[i - 1]>>]
        BY <2>4, <3>2
      <4> QED
        BY <3>2, <4>1, <4>2
    <3> QED
      BY <3>1, <3>2
  <2>6. w = [i \in Nat |-> IF i = 0 THEN {ends[1]} \cap V ELSE Grown(w[i - 1])]
    <3> HIDE DEF Grown
    <3> QED
      BY <2>4, <2>5
  <2> QED
    BY <2>6
<1>2. Eq(Within)
  <2>1. Within = CHOOSE w : Eq(w)
    BY DEF Within
  <2> HIDE DEF Eq
  <2> QED
    BY <1>1, <2>1
<1> DEFINE Reached(i) == \A b : b \in Within[i] <=> \E k \in 0..i : Walk(V, L, ends[1], b, k)
<1>3. Reached(0)
  <2>1. Within[0] = {ends[1]} \cap V
    BY <1>2
  <2> QED
    BY <2>1, WalkOfNone
<1>4. ASSUME NEW i \in Nat, Reached(i) PROVE Reached(i + 1)
  <2>1. Within[i + 1] = Grown(Within[i])
    <3>1. (i + 1) - 1 = i /\ i + 1 # 0 /\ i + 1 \in Nat
      OBVIOUS
    <3>2. \A k \in Nat : Within[k] = IF k = 0 THEN {ends[1]} \cap V ELSE Grown(Within[k - 1])
      <4> HIDE DEF Grown
      <4> QED
        BY <1>2
    <3>3. Within[i + 1] = Grown(Within[(i + 1) - 1])
      <4> HIDE DEF Grown
      <4> QED
        BY <3>1, <3>2
    <3> QED
      BY <3>1, <3>3
  <2> SUFFICES ASSUME NEW b PROVE b \in Within[i + 1] <=> \E k \in 0..(i + 1) : Walk(V, L, ends[1], b, k)
    OBVIOUS
  <2>2. ASSUME b \in Within[i + 1] PROVE \E k \in 0..(i + 1) : Walk(V, L, ends[1], b, k)
    <3>1. CASE b \in Within[i]
      BY <3>1, <1>4
    <3>2. CASE \E m \in Within[i] : b \in Neighbors(m)
      <4>1. PICK m \in Within[i] : b \in Neighbors(m)
        BY <3>2
      <4>2. PICK k \in 0..i : Walk(V, L, ends[1], m, k)
        BY <1>4, <4>1
      <4>3. m \in V /\ b \in V /\ {m, b} \in L
        BY <4>1, <4>2, WalkEnds DEF Neighbors
      <4>4. k \in Nat /\ k + 1 \in 0..(i + 1)
        OBVIOUS
      <4>5. Walk(V, L, ends[1], b, k + 1)
        BY <4>2, <4>3, <4>4, WalkAndLink
      <4> QED
        BY <4>4, <4>5
    <3> QED
      BY <2>1, <2>2, <3>1, <3>2
  <2>3. ASSUME NEW k \in 0..(i + 1), Walk(V, L, ends[1], b, k) PROVE b \in Within[i + 1]
    <3>1. CASE k <= i
      BY <3>1, <2>1, <2>3, <1>4
    <3>2. CASE k = i + 1
      <4>1. b \in V /\ \E m \in V : Walk(V, L, ends[1], m, i) /\ {m, b} \in L
        BY <2>3, <3>2, WalkAndLink
      <4>2. PICK m \in V : Walk(V, L, ends[1], m, i) /\ {m, b} \in L
        BY <4>1
      <4>3. m \in Within[i]
        BY <1>4, <4>2
      <4>4. b \in Neighbors(m)
        BY <4>1, <4>2 DEF Neighbors
      <4> QED
        BY <2>1, <4>3, <4>4
    <3> QED
      BY <3>1, <3>2
  <2> QED
    BY <2>2, <2>3
<1>5. \A i \in Nat : Reached(i)
  <2> DEFINE G == {i \in Nat : Reached(i)}
  <2>1. 0 \in G /\ \A i \in Nat : i \in G => i + 1 \in G
    BY <1>3, <1>4
  <2>2. Nat \subseteq G
    <3> HIDE DEF G
    <3> QED
      BY <2>1, AllNumbers
  <2> QED
    BY <2>2
<1> QED
  BY <1>5


\* What one side knows: each node but the end came from a node one hop nearer.
Tree(V, L, a, parents, h) ==
    /\ NoNode \notin V /\ DOMAIN parents \subseteq V
    /\ h \in [DOMAIN parents -> Nat]
    /\ \A m \in DOMAIN parents :
          IF m = a THEN parents[m] = NoNode /\ h[m] = 0
          ELSE /\ parents[m] \in DOMAIN parents
               /\ {m, parents[m]} \in L /\ h[m] = h[parents[m]] + 1

IsTrail(V, L, a, t, m, n) ==
    /\ t \in Seq(V) /\ Len(t) = n + 1 /\ t[1] = m /\ t[n + 1] = a
    /\ \A i \in 1..n : {t[i], t[i + 1]} \in L

\* A link before a trail makes a trail that is one longer.
LEMMA TrailsGrow ==
    ASSUME NEW V, NEW L, NEW a, NEW m \in V, NEW b \in V, {m, b} \in L, NEW n \in Nat,
           NEW t, IsTrail(V, L, a, t, b, n)
    PROVE  IsTrail(V, L, a, <<m>> \o t, m, n + 1)
<1>1. t \in Seq(V) /\ Len(t) = n + 1 /\ t[1] = b /\ t[n + 1] = a /\ \A i \in 1..n : {t[i], t[i + 1]} \in L
  BY DEF IsTrail
<1> DEFINE u == <<m>> \o t
<1>2. u \in Seq(V) /\ Len(u) = n + 2 /\ u[1] = m /\ \A i \in 1..(n + 1) : u[i + 1] = t[i]
  <2>1. <<m>> \in Seq(V) /\ Len(<<m>>) = 1 /\ <<m>>[1] = m
    OBVIOUS
  <2>2. u \in Seq(V) /\ Len(u) = 1 + Len(t)
    BY <1>1, <2>1, ConcatProperties
  <2>3. \A i \in 1..(1 + Len(t)) : u[i] = IF i <= 1 THEN m ELSE t[i - 1]
    BY <1>1, <2>1, ConcatProperties
  <2> HIDE DEF u
  <2>4. u[1] = m /\ \A i \in 1..(n + 1) : u[i + 1] = t[i]
    BY <1>1, <2>3
  <2> QED
    BY <1>1, <2>2, <2>4
<1> HIDE DEF u
<1>3. u[(n + 1) + 1] = a
  BY <1>1, <1>2
<1>4. ASSUME NEW i \in 1..(n + 1) PROVE {u[i], u[i + 1]} \in L
  <2>1. CASE i = 1
    <3>1. u[i] = m /\ u[i + 1] = b
      BY <1>1, <1>2, <2>1
    <3> QED
      BY <3>1
  <2>2. CASE i > 1
    <3>1. u[i] = t[i - 1] /\ u[i + 1] = t[(i - 1) + 1] /\ i - 1 \in 1..n
      <4>1. i - 1 \in 1..(n + 1) /\ (i - 1) + 1 = i
        BY <2>2
      <4> QED
        BY <1>2, <2>2, <4>1
    <3>2. {t[i - 1], t[(i - 1) + 1]} \in L
      BY <1>1, <3>1
    <3> QED
      BY <3>1, <3>2
  <2> QED
    BY <2>1, <2>2
<1>5. IsTrail(V, L, a, u, m, n + 1)
  BY <1>2, <1>3, <1>4 DEF IsTrail
<1> QED
  BY <1>5 DEF u

\* The trail that a search reads off its parents is a walk back to its end.
LEMMA TrailIs ==
    ASSUME NEW V, NEW L, NEW a, NEW parents, NEW h, Tree(V, L, a, parents, h)
    PROVE  \A m \in DOMAIN parents : IsTrail(V, L, a, Trail(parents, m), m, h[m])
<1> DEFINE D == DOMAIN parents
           W == Seq(V)
           Eq(back) == back = [m \in D |-> IF parents[m] = NoNode THEN <<m>> ELSE <<m>> \o back[parents[m]]]
           stop == {m \in D : parents[m] = NoNode}
           next == [m \in D |-> IF parents[m] \in D THEN parents[m] ELSE m]
           base == [m \in D |-> <<m>>]
           op   == [x \in D \X W |-> <<x[1]>> \o x[2]]
<1>1. /\ NoNode \notin V /\ D \subseteq V /\ h \in [D -> Nat]
      /\ \A m \in D : IF m = a THEN parents[m] = NoNode /\ h[m] = 0
                      ELSE parents[m] \in D /\ {m, parents[m]} \in L /\ h[m] = h[parents[m]] + 1
  BY DEF Tree
<1>2. \A m \in D : (m \in stop <=> m = a) /\ (m # a => parents[m] # NoNode /\ next[m] = parents[m])
  BY <1>1
<1>3. Descends(D, W, h, stop, next, base, op)
  <2>1. next \in [D -> D]
    OBVIOUS
  <2>2. base \in [D -> W]
    BY <1>1
  <2>3. op \in [D \X W -> W]
    <3> SUFFICES ASSUME NEW x \in D \X W PROVE <<x[1]>> \o x[2] \in W
      OBVIOUS
    <3>1. <<x[1]>> \in Seq(V) /\ x[2] \in Seq(V)
      BY <1>1
    <3> QED
      BY <3>1, ConcatProperties
  <2>4. \A m \in D : m \notin stop => h[next[m]] < h[m]
    <3> SUFFICES ASSUME NEW m \in D, m \notin stop PROVE h[next[m]] < h[m]
      OBVIOUS
    <3>1. m # a /\ next[m] = parents[m]
      BY <1>2
    <3>2. parents[m] \in D /\ h[m] = h[parents[m]] + 1 /\ h[parents[m]] \in Nat
      BY <1>1, <3>1
    <3> HIDE DEF next
    <3> QED
      BY <3>1, <3>2
  <2> HIDE DEF D, W, stop, next, base, op
  <2> QED
    BY <1>1, <2>1, <2>2, <2>3, <2>4 DEF Descends
<1>4. PICK f : Recurses(f, D, W, stop, next, base, op)
  <2> HIDE DEF D, W, stop, next, base, op
  <2> QED
    BY <1>3, RecursionAlong
<1>5. f \in [D -> W] /\ \A m \in D : f[m] = IF parents[m] = NoNode THEN <<m>> ELSE <<m>> \o f[parents[m]]
  <2>1. f \in [D -> W] /\ \A m \in D : f[m] = IF m \in stop THEN base[m] ELSE op[<<m, f[next[m]]>>]
    <3> HIDE DEF D, W, stop, next, base, op
    <3> QED
      BY <1>4 DEF Recurses
  <2> SUFFICES ASSUME NEW m \in D PROVE f[m] = IF parents[m] = NoNode THEN <<m>> ELSE <<m>> \o f[parents[m]]
    BY <2>1
  <2>2. CASE m \in stop
    BY <2>1, <2>2
  <2>3. CASE m \notin stop
    <3>1. f[m] = op[<<m, f[parents[m]]>>] /\ parents[m] \in D
      BY <1>1, <1>2, <2>1, <2>3
    <3>2. <<m, f[parents[m]]>> \in D \X W
      BY <2>1, <3>1
    <3>3. op[<<m, f[parents[m]]>>] = <<m>> \o f[parents[m]]
      BY <3>2
    <3> HIDE DEF op
    <3> QED
      BY <2>3, <3>1, <3>3
  <2> QED
    BY <2>2, <2>3
<1>6. Eq(f)
  <2> HIDE DEF W
  <2> QED
    BY <1>5
<1> DEFINE back == CHOOSE g : Eq(g)
<1>7. Eq(back)
  <2> HIDE DEF Eq
  <2> QED
    BY <1>6
<1>8. \A m \in D : Trail(parents, m) = back[m]
  BY DEF Trail
<1> HIDE DEF back
<1> DEFINE Wrong == {k \in Nat : \E m \in D : h[m] = k /\ ~IsTrail(V, L, a, back[m], m, h[m])}
<1>9. Wrong = {}
  <2> SUFFICES ASSUME Wrong # {} PROVE FALSE
    OBVIOUS
  <2>1. PICK k \in Wrong : \A j \in Wrong : k <= j
    <3>1. Wrong \subseteq Nat
      OBVIOUS
    <3> HIDE DEF Wrong
    <3> QED
      BY <3>1, SmallestOf
  <2>2. PICK m \in D : h[m] = k /\ ~IsTrail(V, L, a, back[m], m, h[m])
    OBVIOUS
  <2>3. CASE m = a
    <3>1. back[m] = <<m>> /\ h[m] = 0 /\ m \in V
      BY <1>1, <1>7, <2>3
    <3>2. IsTrail(V, L, a, <<m>>, m, 0)
      BY <2>3, <3>1 DEF IsTrail
    <3> QED
      BY <2>2, <3>1, <3>2
  <2>4. CASE m # a
    <3>1. parents[m] \in D /\ {m, parents[m]} \in L /\ h[m] = h[parents[m]] + 1
      BY <1>1, <2>4
    <3>2. back[m] = <<m>> \o back[parents[m]]
      BY <1>2, <1>7, <2>4
    <3>3. IsTrail(V, L, a, back[parents[m]], parents[m], h[parents[m]])
      <4>1. h[parents[m]] \in Nat /\ h[parents[m]] < k
        BY <1>1, <2>2, <3>1
      <4> QED
        BY <2>1, <3>1, <4>1
    <3>4. IsTrail(V, L, a, <<m>> \o back[parents[m]], m, h[parents[m]] + 1)
      BY <1>1, <3>1, <3>3, TrailsGrow
    <3> QED
      BY <2>2, <3>1, <3>2, <3>4
  <2> QED
    BY <2>3, <2>4
<1> QED
  BY <1>1, <1>8, <1>9

\* The nodes within n hops of a, those exactly n hops away, and their hops.
Reach(V, L, a, n) == {m \in V : \E k \in 0..n : Walk(V, L, a, m, k)}
Ring(V, L, a, n)  == {m \in V : Walk(V, L, a, m, n) /\ \A k \in 0..(n - 1) : ~Walk(V, L, a, m, k)}
Around(V, L, S)   == UNION {{k \in V : {m, k} \in L} : m \in S}
HopsFrom(V, L, a, D) == [m \in D |-> Hops(V, L, a, m)]

\* What a side knows after n expansions.
Knows(V, L, a, n, parents, edge) ==
    /\ DOMAIN parents = Reach(V, L, a, n)
    /\ edge = Ring(V, L, a, n)
    /\ Tree(V, L, a, parents, HopsFrom(V, L, a, Reach(V, L, a, n)))

\* Within n expansions of an end are the nodes at most n links from it.
LEMMA ReachHops ==
    ASSUME NEW V, NEW L, NEW a, NEW n \in Nat
    PROVE  \A m \in Reach(V, L, a, n) :
              /\ m \in V /\ Hops(V, L, a, m) \in 0..n /\ Walk(V, L, a, m, Hops(V, L, a, m))
<1> SUFFICES ASSUME NEW m \in Reach(V, L, a, n)
             PROVE  m \in V /\ Hops(V, L, a, m) \in 0..n /\ Walk(V, L, a, m, Hops(V, L, a, m))
  OBVIOUS
<1>1. PICK k \in 0..n : m \in V /\ Walk(V, L, a, m, k)
  BY DEF Reach
<1>2. k \in Nat
  OBVIOUS
<1>3. Hops(V, L, a, m) \in 0..k /\ Walk(V, L, a, m, Hops(V, L, a, m))
  BY <1>1, <1>2, HopsFacts
<1> QED
  BY <1>1, <1>2, <1>3

\* What the last expansion found is exactly that many links from the end.
LEMMA RingHops ==
    ASSUME NEW V, NEW L, NEW a, NEW n \in Nat, NEW m
    PROVE  m \in Ring(V, L, a, n) <=> m \in V /\ Walk(V, L, a, m, n) /\ Hops(V, L, a, m) = n
<1>1. ASSUME m \in Ring(V, L, a, n) PROVE m \in V /\ Walk(V, L, a, m, n) /\ Hops(V, L, a, m) = n
  <2>1. m \in V /\ Walk(V, L, a, m, n) /\ \A k \in 0..(n - 1) : ~Walk(V, L, a, m, k)
    BY <1>1 DEF Ring
  <2>2. Hops(V, L, a, m) \in 0..n /\ Walk(V, L, a, m, Hops(V, L, a, m))
    BY <2>1, HopsFacts
  <2> QED
    BY <2>1, <2>2
<1>2. ASSUME m \in V, Walk(V, L, a, m, n), Hops(V, L, a, m) = n PROVE m \in Ring(V, L, a, n)
  <2>1. \A k \in Nat : Walk(V, L, a, m, k) => n <= k
    BY <1>2, HopsFacts
  <2>2. \A k \in 0..(n - 1) : ~Walk(V, L, a, m, k)
    BY <2>1
  <2> QED
    BY <1>2, <2>2 DEF Ring
<1> QED
  BY <1>1, <1>2

\* The nodes around some are those one link from them.
LEMMA AroundIs ==
    ASSUME NEW V, NEW L, NEW S, NEW k
    PROVE  k \in Around(V, L, S) <=> \E m \in S : k \in V /\ {m, k} \in L
<1>1. ASSUME k \in Around(V, L, S) PROVE \E m \in S : k \in V /\ {m, k} \in L
  <2>1. PICK t \in {{j \in V : {m, j} \in L} : m \in S} : k \in t
    BY <1>1 DEF Around
  <2>2. PICK m \in S : t = {j \in V : {m, j} \in L}
    BY <2>1
  <2> QED
    BY <2>1, <2>2
<1>2. ASSUME NEW m \in S, k \in V, {m, k} \in L PROVE k \in Around(V, L, S)
  <2> DEFINE t == {j \in V : {m, j} \in L}
  <2>1. t \in {{j \in V : {i, j} \in L} : i \in S}
    OBVIOUS
  <2>2. k \in t
    BY <1>2
  <2> QED
    BY <2>1, <2>2 DEF Around
<1> QED
  BY <1>1, <1>2

\* One more expansion finds what is one hop further.
LEMMA NextRing ==
    ASSUME NEW V, NEW L, NEW a, NEW n \in Nat
    PROVE  /\ Ring(V, L, a, n + 1)
                = Around(V, L, Ring(V, L, a, n)) \ Reach(V, L, a, n)
           /\ Reach(V, L, a, n + 1) = Reach(V, L, a, n) \cup Ring(V, L, a, n + 1)
<1>1. ASSUME NEW k \in Ring(V, L, a, n + 1)
      PROVE  k \notin Reach(V, L, a, n) /\ \E m \in Ring(V, L, a, n) : k \in V /\ {m, k} \in L
  <2>1. k \in V /\ Walk(V, L, a, k, n + 1) /\ \A i \in 0..n : ~Walk(V, L, a, k, i)
    <3>1. (n + 1) - 1 = n
      OBVIOUS
    <3> QED
      BY <3>1 DEF Ring
  <2>2. k \notin Reach(V, L, a, n)
    BY <2>1 DEF Reach
  <2>3. PICK m \in V : Walk(V, L, a, m, n) /\ {m, k} \in L
    BY <2>1, WalkAndLink
  <2>4. ASSUME NEW i \in 0..(n - 1) PROVE ~Walk(V, L, a, m, i)
    <3> SUFFICES ASSUME Walk(V, L, a, m, i) PROVE FALSE
      OBVIOUS
    <3>1. i \in Nat /\ i + 1 \in 0..n
      OBVIOUS
    <3>2. Walk(V, L, a, k, i + 1)
      BY <2>1, <2>3, <3>1, WalkAndLink
    <3> QED
      BY <2>1, <3>1, <3>2
  <2>5. m \in Ring(V, L, a, n)
    BY <2>3, <2>4 DEF Ring
  <2> QED
    BY <2>1, <2>2, <2>3, <2>5
<1>2. ASSUME NEW m \in Ring(V, L, a, n), NEW k \in V, {m, k} \in L, k \notin Reach(V, L, a, n)
      PROVE  k \in Ring(V, L, a, n + 1)
  <2>1. m \in V /\ Walk(V, L, a, m, n)
    BY DEF Ring
  <2>2. Walk(V, L, a, k, n + 1)
    BY <1>2, <2>1, WalkAndLink
  <2>3. \A i \in 0..n : ~Walk(V, L, a, k, i)
    BY <1>2 DEF Reach
  <2>4. (n + 1) - 1 = n
    OBVIOUS
  <2> QED
    BY <2>2, <2>3, <2>4 DEF Ring
<1>3. ASSUME NEW k \in Reach(V, L, a, n + 1), k \notin Reach(V, L, a, n) PROVE k \in Ring(V, L, a, n + 1)
  <2>1. k \in V /\ \E i \in 0..(n + 1) : Walk(V, L, a, k, i)
    BY DEF Reach
  <2>2. \A i \in 0..n : ~Walk(V, L, a, k, i)
    BY <1>3, <2>1 DEF Reach
  <2>3. Walk(V, L, a, k, n + 1)
    BY <2>1, <2>2
  <2>4. (n + 1) - 1 = n
    OBVIOUS
  <2> QED
    BY <2>1, <2>2, <2>3, <2>4 DEF Ring
<1>4. Reach(V, L, a, n) \subseteq Reach(V, L, a, n + 1) /\ Ring(V, L, a, n + 1) \subseteq Reach(V, L, a, n + 1)
  <2>1. \A i \in 0..n : i \in 0..(n + 1)
    OBVIOUS
  <2>2. n + 1 \in 0..(n + 1)
    OBVIOUS
  <2> QED
    BY <2>1, <2>2 DEF Reach, Ring
<1>5. \A k : k \in Around(V, L, Ring(V, L, a, n)) <=> \E m \in Ring(V, L, a, n) : k \in V /\ {m, k} \in L
  BY AroundIs
<1>6. \A k : k \in Ring(V, L, a, n + 1) <=> k \in Around(V, L, Ring(V, L, a, n)) \ Reach(V, L, a, n)
  BY <1>1, <1>2, <1>5
<1>7. \A k : k \in Reach(V, L, a, n + 1) <=> k \in Reach(V, L, a, n) \cup Ring(V, L, a, n + 1)
  BY <1>3, <1>4
<1> QED
  BY <1>6, <1>7

\* New nodes whose parents are one hop nearer to the end keep the parents a tree.
LEMMA TreeGrows ==
    ASSUME NEW V, NEW L, NEW a, NEW D, NEW parents, NEW new, NEW p \in [new -> D],
           DOMAIN parents = D, Tree(V, L, a, parents, HopsFrom(V, L, a, D)),
           new \subseteq V, new \cap D = {}, a \notin new,
           \A m \in new : /\ {p[m], m} \in L
                          /\ Hops(V, L, a, m) = Hops(V, L, a, p[m]) + 1
    PROVE  Tree(V, L, a, With(parents, p), HopsFrom(V, L, a, D \cup new))
<1> DEFINE E == D \cup new
           q == With(parents, p)
           h == HopsFrom(V, L, a, E)
           g == HopsFrom(V, L, a, D)
<1>1. /\ NoNode \notin V /\ D \subseteq V /\ g \in [D -> Nat]
      /\ \A m \in D : IF m = a THEN parents[m] = NoNode /\ g[m] = 0
                      ELSE parents[m] \in D /\ {m, parents[m]} \in L /\ g[m] = g[parents[m]] + 1
  BY DEF Tree
<1>2. DOMAIN q = E /\ \A m \in E : q[m] = IF m \in new THEN p[m] ELSE parents[m]
  BY DEF With
<1>3. \A m \in D : g[m] = Hops(V, L, a, m) /\ h[m] = g[m]
  BY DEF HopsFrom
<1>4. \A m \in new : p[m] \in D /\ h[m] = g[p[m]] + 1
  BY <1>3 DEF HopsFrom
<1>5. h \in [E -> Nat]
  <2>1. \A m \in E : h[m] \in Nat
    <3> HIDE DEF g, h
    <3> QED
      BY <1>1, <1>3, <1>4
  <2>2. h = [m \in E |-> h[m]]
    BY DEF HopsFrom
  <2> HIDE DEF h
  <2> QED
    BY <2>1, <2>2
<1>6. \A m \in E : IF m = a THEN q[m] = NoNode /\ h[m] = 0
                   ELSE q[m] \in E /\ {m, q[m]} \in L /\ h[m] = h[q[m]] + 1
  <2> SUFFICES ASSUME NEW m \in E
               PROVE  IF m = a THEN q[m] = NoNode /\ h[m] = 0
                      ELSE q[m] \in E /\ {m, q[m]} \in L /\ h[m] = h[q[m]] + 1
    OBVIOUS
  <2>1. CASE m \in new
    <3>1. q[m] = p[m] /\ p[m] \in D /\ m # a /\ {m, p[m]} = {p[m], m}
      BY <1>2, <1>4, <2>1
    <3>2. {m, p[m]} \in L
      BY <2>1, <3>1
    <3> HIDE DEF h, g, q
    <3> QED
      BY <1>3, <1>4, <2>1, <3>1, <3>2
  <2>2. CASE m \notin new
    <3>1. m \in D /\ q[m] = parents[m]
      BY <1>2, <2>2
    <3> HIDE DEF h, g, q
    <3> QED
      BY <1>1, <1>3, <3>1
  <2> QED
    BY <2>1, <2>2
<1>7. Tree(V, L, a, q, h)
  <2>1. E \subseteq V
    BY <1>1
  <2> HIDE DEF q, h
  <2> QED
    BY <1>1, <1>2, <1>5, <1>6, <2>1 DEF Tree
<1> QED
  BY <1>7

\* A search that begins knows its end, and nothing else.
LEMMA KnowsStart ==
    ASSUME NEW V, NEW L, NEW a \in V, NoNode \notin V
    PROVE  Knows(V, L, a, 0, [n \in {a} |-> NoNode], {a})
<1>1. Reach(V, L, a, 0) = {a}
  BY WalkOfNone DEF Reach
<1>2. Ring(V, L, a, 0) = {a}
  <2>1. 0..(0 - 1) = {}
    OBVIOUS
  <2> QED
    BY <2>1, WalkOfNone DEF Ring
<1>3. Hops(V, L, a, a) = 0
  BY WalkOfNone, HopsFacts
<1>4. Tree(V, L, a, [n \in {a} |-> NoNode], HopsFrom(V, L, a, {a}))
  <2> DEFINE p == [n \in {a} |-> NoNode]
             h == HopsFrom(V, L, a, {a})
  <2>1. DOMAIN p = {a} /\ p[a] = NoNode
    OBVIOUS
  <2>2. h \in [{a} -> Nat] /\ h[a] = 0
    BY <1>3 DEF HopsFrom
  <2>3. Tree(V, L, a, p, h)
    <3> HIDE DEF p, h
    <3> QED
      BY <2>1, <2>2 DEF Tree
  <2> QED
    BY <2>3
<1>5. DOMAIN [n \in {a} |-> NoNode] = {a}
  OBVIOUS
<1> QED
  BY <1>1, <1>2, <1>4, <1>5 DEF Knows

\* After an expansion a side knows every node within one more link.
LEMMA KnowsGrows ==
    ASSUME NEW V, NEW L, NEW a, NEW n \in Nat, NEW parents, NEW edge,
           Knows(V, L, a, n, parents, edge), NEW new,
           new = Around(V, L, edge) \ DOMAIN parents,
           NEW p \in [new -> edge], \A m \in new : {p[m], m} \in L
    PROVE  Knows(V, L, a, n + 1, With(parents, p), new)
<1> DEFINE D == Reach(V, L, a, n)
<1>1. DOMAIN parents = D /\ edge = Ring(V, L, a, n) /\ Tree(V, L, a, parents, HopsFrom(V, L, a, D))
  BY DEF Knows
<1>2. new = Ring(V, L, a, n + 1) /\ Reach(V, L, a, n + 1) = D \cup new
  BY <1>1, NextRing
<1>3. \A m \in new : m \in V /\ Walk(V, L, a, m, n + 1) /\ Hops(V, L, a, m) = n + 1
  <2>1. n + 1 \in Nat
    OBVIOUS
  <2> QED
    BY <1>2, <2>1, RingHops
<1>4. \A m \in edge : m \in D /\ Hops(V, L, a, m) = n
  <2>1. n \in 0..n
    OBVIOUS
  <2> QED
    BY <1>1, <2>1, RingHops DEF Reach
<1>5. a \notin new
  <2>1. SUFFICES ASSUME a \in new PROVE FALSE
    OBVIOUS
  <2>2. Walk(V, L, a, a, 0)
    BY <1>3, <2>1, WalkOfNone
  <2>3. Hops(V, L, a, a) \in 0..0
    BY <2>2, HopsFacts
  <2>4. Hops(V, L, a, a) = n + 1 /\ n + 1 \notin 0..0
    BY <1>3, <2>1
  <2> QED
    BY <2>3, <2>4
<1>6. p \in [new -> D] /\ new \cap D = {} /\ new \subseteq V
  <2>1. new \cap D = {} /\ new \subseteq V
    BY <1>1, <1>3
  <2>2. edge \subseteq D
    BY <1>4
  <2> HIDE DEF D
  <2> QED
    BY <2>1, <2>2
<1>7. \A m \in new : Hops(V, L, a, m) = Hops(V, L, a, p[m]) + 1
  BY <1>3, <1>4
<1>8. Tree(V, L, a, With(parents, p), HopsFrom(V, L, a, D \cup new))
  <2> HIDE DEF D
  <2> QED
    BY <1>1, <1>5, <1>6, <1>7, TreeGrows
<1>9. DOMAIN With(parents, p) = D \cup new
  BY <1>1 DEF With
<1> QED
  BY <1>2, <1>8, <1>9 DEF Knows

\* The two trails of a meeting, joined.
IsPathOf(V, L, s, a, b, n) ==
    /\ s \in Seq(V) /\ Len(s) = n + 1 /\ s[1] = a /\ s[n + 1] = b
    /\ \A i \in 1..n : {s[i], s[i + 1]} \in L

\* Two trails that end in one node join into a path between the two ends.
LEMMA TrailsJoin ==
    ASSUME NEW V, NEW L, NEW a, NEW b, NEW m, NEW i \in Nat, NEW j \in Nat,
           NEW t, NEW u, IsTrail(V, L, a, t, m, i), IsTrail(V, L, b, u, m, j)
    PROVE  IsPathOf(V, L, Reverse(t) \o Tail(u), a, b, i + j)
<1>1. t \in Seq(V) /\ Len(t) = i + 1 /\ t[1] = m /\ t[i + 1] = a /\ \A k \in 1..i : {t[k], t[k + 1]} \in L
  BY DEF IsTrail
<1>2. u \in Seq(V) /\ Len(u) = j + 1 /\ u[1] = m /\ u[j + 1] = b /\ \A k \in 1..j : {u[k], u[k + 1]} \in L
  BY DEF IsTrail
<1> DEFINE r == Reverse(t)
           w == Tail(u)
           s == r \o w
<1>3. r \in Seq(V) /\ Len(r) = i + 1 /\ \A k \in 1..(i + 1) : r[k] = t[(i + 1 - k) + 1]
  <2>1. r = [k \in 1..(i + 1) |-> t[(i + 1 - k) + 1]]
    BY <1>1 DEF Reverse
  <2>2. \A k \in 1..(i + 1) : t[(i + 1 - k) + 1] \in V
    <3>1. \A k \in 1..(i + 1) : (i + 1 - k) + 1 \in 1..Len(t)
      BY <1>1
    <3>2. \A k \in 1..Len(t) : t[k] \in V
      BY <1>1
    <3> QED
      BY <3>1, <3>2
  <2> HIDE DEF r
  <2>3. i + 1 \in Nat
    OBVIOUS
  <2> QED
    BY <2>1, <2>2, <2>3
<1>4. w \in Seq(V) /\ Len(w) = j /\ \A k \in 1..j : w[k] = u[k + 1]
  <2>1. u # <<>>
    BY <1>2
  <2>2. w \in Seq(V) /\ Len(w) = Len(u) - 1 /\ \A k \in 1..Len(w) : w[k] = u[k + 1]
    BY <1>2, <2>1, HeadTailProperties
  <2> HIDE DEF w
  <2>3. Len(w) = j
    BY <1>2, <2>2
  <2> QED
    BY <2>2, <2>3
<1> HIDE DEF r, w
<1>5. s \in Seq(V) /\ Len(s) = i + j + 1
      /\ \A k \in 1..(i + j + 1) : s[k] = IF k <= i + 1 THEN r[k] ELSE w[k - (i + 1)]
  <2>1. s \in Seq(V) /\ Len(s) = Len(r) + Len(w)
        /\ \A k \in 1..(Len(r) + Len(w)) : s[k] = IF k <= Len(r) THEN r[k] ELSE w[k - Len(r)]
    BY <1>3, <1>4, ConcatProperties
  <2> HIDE DEF s
  <2> QED
    BY <1>3, <1>4, <2>1
<1> HIDE DEF s
<1>6. \A k \in 1..(i + 1) : s[k] = t[(i + 2) - k]
  <2>1. \A k \in 1..(i + 1) : (i + 1 - k) + 1 = (i + 2) - k
    OBVIOUS
  <2> QED
    BY <1>3, <1>5, <2>1
<1>7. \A k \in 1..j : s[i + 1 + k] = u[k + 1]
  <2>1. \A k \in 1..j : i + 1 + k \in 1..(i + j + 1) /\ ~(i + 1 + k <= i + 1) /\ (i + 1 + k) - (i + 1) = k
    OBVIOUS
  <2> QED
    BY <1>4, <1>5, <2>1
<1>8. s[1] = a
  BY <1>1, <1>6
<1>9. s[i + 1] = m
  BY <1>1, <1>6
<1>10. s[(i + j) + 1] = b
  <2>1. CASE j = 0
    BY <2>1, <1>2, <1>9
  <2>2. CASE j > 0
    <3>1. s[i + 1 + j] = u[j + 1]
      BY <1>7, <2>2
    <3> QED
      BY <3>1, <1>2
  <2> QED
    BY <2>1, <2>2
<1>11. ASSUME NEW k \in 1..(i + j) PROVE {s[k], s[k + 1]} \in L
  <2>1. CASE k <= i
    <3> DEFINE c == (i + 1) - k
    <3>1. c \in 1..i /\ (i + 2) - k = c + 1 /\ (i + 2) - (k + 1) = c
      BY <2>1
    <3>2. s[k] = t[c + 1] /\ s[k + 1] = t[c]
      BY <1>6, <2>1, <3>1
    <3>3. {t[c], t[c + 1]} \in L
      BY <1>1, <3>1
    <3>4. {t[c], t[c + 1]} = {s[k], s[k + 1]}
      BY <3>2
    <3> QED
      BY <3>3, <3>4
  <2>2. CASE k > i
    <3> DEFINE c == k - i
    <3>1. c \in 1..j /\ i + 1 + c = k + 1 /\ k = i + 1 + (c - 1)
      BY <2>2
    <3>2. s[k + 1] = u[c + 1]
      BY <1>7, <3>1
    <3>3. s[k] = u[c]
      <4>1. CASE c = 1
        BY <1>2, <1>9, <3>1, <4>1
      <4>2. CASE c > 1
        <5>1. c - 1 \in 1..j /\ (c - 1) + 1 = c
          BY <3>1, <4>2
        <5>2. s[i + 1 + (c - 1)] = u[(c - 1) + 1]
          BY <1>7, <5>1
        <5> HIDE DEF c
        <5> QED
          BY <3>1, <5>1, <5>2
      <4> QED
        BY <3>1, <4>1, <4>2
    <3>4. {u[c], u[c + 1]} \in L
      BY <1>2, <3>1
    <3> QED
      BY <3>2, <3>3, <3>4
  <2> QED
    BY <2>1, <2>2
<1>12. IsPathOf(V, L, s, a, b, i + j)
  <2> DEFINE n == i + j
  <2>1. s \in Seq(V) /\ Len(s) = n + 1 /\ s[1] = a /\ s[n + 1] = b /\ \A k \in 1..n : {s[k], s[k + 1]} \in L
    BY <1>5, <1>8, <1>10, <1>11
  <2> HIDE DEF n
  <2>2. IsPathOf(V, L, s, a, b, n)
    BY <2>1 DEF IsPathOf
  <2> QED
    BY <2>2 DEF n
<1> QED
  BY <1>12 DEF s, r, w

\* A node met by the side at a is as far as can be from both ends.
LEMMA Meeting ==
    ASSUME NEW V, NEW L, NEW a \in V, NEW b \in V, NEW e \in Nat, NEW o \in Nat,
           NEW parents, NEW edge, NEW others, NEW far,
           Knows(V, L, a, e, parents, edge), Knows(V, L, b, o, others, far),
           \A k \in 0..(e + o) : ~Walk(V, L, a, b, k),
           NEW n \in edge, NEW m \in V, {n, m} \in L, m \in DOMAIN others
    PROVE  /\ IsTrail(V, L, a, Trail(With(parents, [k \in {m} |-> n]), m), m, e + 1)
           /\ IsTrail(V, L, b, Trail(others, m), m, o)
           /\ Walk(V, L, a, b, (e + 1) + o)
<1> DEFINE D == Reach(V, L, a, e)
           j == Hops(V, L, b, m)
           h == Hops(V, L, a, m)
           p == [k \in {m} |-> n]
<1>1. DOMAIN parents = D /\ edge = Ring(V, L, a, e) /\ Tree(V, L, a, parents, HopsFrom(V, L, a, D))
  BY DEF Knows
<1>2. DOMAIN others = Reach(V, L, b, o) /\ Tree(V, L, b, others, HopsFrom(V, L, b, Reach(V, L, b, o)))
  BY DEF Knows
<1>3. j \in 0..o /\ Walk(V, L, m, b, j)
  <2>1. j \in 0..o /\ Walk(V, L, b, m, j)
    BY <1>2, ReachHops
  <2>2. j \in Nat
    BY <2>1
  <2> HIDE DEF j
  <2> QED
    BY <2>1, <2>2, WalksTurn
<1>4. Walk(V, L, a, n, e) /\ n \in V /\ Hops(V, L, a, n) = e /\ n \in D
  <2>1. Walk(V, L, a, n, e) /\ n \in V /\ Hops(V, L, a, n) = e
    BY <1>1, RingHops
  <2>2. e \in 0..e
    OBVIOUS
  <2> QED
    BY <2>1, <2>2 DEF Reach
<1>5. Walk(V, L, a, m, e + 1)
  BY <1>4, WalkAndLink
<1>6. j = o
  <2>1. j \in Nat /\ e + 1 \in Nat
    BY <1>3
  <2>2. Walk(V, L, a, b, (e + 1) + j)
    <3> HIDE DEF j
    <3> QED
      BY <1>3, <1>5, <2>1, WalksJoin
  <2>3. (e + 1) + j \notin 0..(e + o)
    BY <2>2
  <2> HIDE DEF j
  <2> QED
    BY <1>3, <2>1, <2>3
<1>7. Walk(V, L, a, b, (e + 1) + o)
  <2>1. e + 1 \in Nat
    OBVIOUS
  <2> HIDE DEF j
  <2> QED
    BY <1>3, <1>5, <1>6, <2>1, WalksJoin
<1>8. h = e + 1
  <2>1. h \in 0..(e + 1) /\ Walk(V, L, a, m, h)
    <3>1. e + 1 \in Nat
      OBVIOUS
    <3> QED
      BY <1>5, <3>1, HopsFacts
  <2>2. h \in Nat
    BY <2>1
  <2> HIDE DEF h, j
  <2>3. Walk(V, L, a, b, h + o)
    BY <1>3, <1>6, <2>1, <2>2, WalksJoin
  <2>4. h + o \notin 0..(e + o)
    BY <2>3
  <2> QED
    BY <2>1, <2>2, <2>4
<1>9. m \notin D /\ m # a
  <2>1. \A x \in D : Hops(V, L, a, x) \in 0..e
    BY ReachHops
  <2>2. h \notin 0..e
    BY <1>8
  <2>3. m \notin D
    <3> HIDE DEF D
    <3> QED
      BY <2>1, <2>2
  <2>4. a \in D
    <3>1. Walk(V, L, a, a, 0) /\ 0 \in 0..e
      BY WalkOfNone
    <3> QED
      BY <3>1 DEF Reach
  <2> HIDE DEF D
  <2> QED
    BY <2>3, <2>4
<1>10. p \in [{m} -> D] /\ p[m] = n
  <2> HIDE DEF D
  <2> QED
    BY <1>4
<1>11. Tree(V, L, a, With(parents, p), HopsFrom(V, L, a, D \cup {m}))
  <2>1. \A k \in {m} : {p[k], k} \in L /\ Hops(V, L, a, k) = Hops(V, L, a, p[k]) + 1
    <3> HIDE DEF D
    <3> QED
      BY <1>4, <1>8, <1>10
  <2>2. {m} \subseteq V /\ {m} \cap D = {} /\ a \notin {m}
    <3> HIDE DEF D
    <3> QED
      BY <1>9
  <2> HIDE DEF D, p
  <2> QED
    BY <1>1, <1>10, <2>1, <2>2, TreeGrows
<1>12. IsTrail(V, L, a, Trail(With(parents, p), m), m, e + 1)
  <2>1. m \in DOMAIN With(parents, p)
    BY <1>10 DEF With
  <2>2. HopsFrom(V, L, a, D \cup {m})[m] = e + 1
    BY <1>8 DEF HopsFrom
  <2> HIDE DEF D, p
  <2> QED
    BY <1>11, <2>1, <2>2, TrailIs
<1>13. IsTrail(V, L, b, Trail(others, m), m, o)
  <2>1. HopsFrom(V, L, b, Reach(V, L, b, o))[m] = o
    BY <1>2, <1>6 DEF HopsFrom
  <2> QED
    BY <1>2, <2>1, TrailIs
<1> QED
  BY <1>7, <1>12, <1>13

\* Where no neighbour of the edge is known to the other side, the ends are further apart.
LEMMA NoMeeting ==
    ASSUME NEW V, NEW L, NEW a \in V, NEW b \in V, NEW e \in Nat, NEW o \in Nat,
           NEW parents, NEW edge, NEW others, NEW far,
           Knows(V, L, a, e, parents, edge), Knows(V, L, b, o, others, far),
           \A k \in 0..(e + o) : ~Walk(V, L, a, b, k),
           \A n \in edge : \A m \in V : {n, m} \in L => m \notin DOMAIN others
    PROVE  \A k \in 0..((e + 1) + o) : ~Walk(V, L, a, b, k)
<1> DEFINE d == (e + 1) + o
<1>1. d \in Nat /\ e \in 0..d /\ d - e = o + 1
  OBVIOUS
<1>2. SUFFICES ASSUME Walk(V, L, a, b, d) PROVE FALSE
  <2>1. \A k \in 0..d : k = d \/ k \in 0..(e + o)
    OBVIOUS
  <2> QED
    BY <2>1
<1>3. PICK x \in V : Walk(V, L, a, x, e) /\ Walk(V, L, x, b, o + 1)
  <2>1. \E x \in V : Walk(V, L, a, x, e) /\ Walk(V, L, x, b, d - e)
    <3> HIDE DEF d
    <3> QED
      BY <1>1, <1>2, WalksCut
  <2> QED
    BY <1>1, <2>1
<1>4. PICK y \in V : Walk(V, L, x, y, 1) /\ Walk(V, L, y, b, o)
  <2>1. o + 1 \in Nat /\ 1 \in 0..(o + 1) /\ (o + 1) - 1 = o
    OBVIOUS
  <2> QED
    BY <1>3, <2>1, WalksCut
<1>5. {x, y} \in L
  BY <1>4, WalkOfOne
<1>6. y \in DOMAIN others
  <2>1. Walk(V, L, b, y, o) /\ o \in 0..o
    BY <1>4, WalksTurn
  <2> QED
    BY <2>1 DEF Knows, Reach
<1>7. x \in edge
  <2>1. ASSUME NEW k \in 0..(e - 1) PROVE ~Walk(V, L, a, x, k)
    <3> SUFFICES ASSUME Walk(V, L, a, x, k) PROVE FALSE
      OBVIOUS
    <3>1. k \in Nat /\ o + 1 \in Nat /\ k + (o + 1) \in 0..(e + o)
      OBVIOUS
    <3>2. Walk(V, L, a, b, k + (o + 1))
      BY <1>3, <3>1, WalksJoin
    <3> QED
      BY <3>1, <3>2
  <2> QED
    BY <1>3, <2>1 DEF Knows, Ring
<1> QED
  BY <1>5, <1>6, <1>7

\* With an empty edge there is nothing further.
LEMMA NothingFurther ==
    ASSUME NEW V, NEW L, NEW a, NEW b, NEW e \in Nat, NEW parents,
           Knows(V, L, a, e, parents, {}), \A k \in 0..e : ~Walk(V, L, a, b, k)
    PROVE  \A k \in Nat : ~Walk(V, L, a, b, k)
<1> SUFFICES ASSUME NEW k \in Nat, Walk(V, L, a, b, k) PROVE FALSE
  OBVIOUS
<1> DEFINE h == Hops(V, L, a, b)
<1>1. h \in Nat /\ Walk(V, L, a, b, h) /\ \A i \in Nat : Walk(V, L, a, b, i) => h <= i
  BY HopsFacts
<1> HIDE DEF h
<1>2. e < h
  BY <1>1
<1>3. PICK x \in V : Walk(V, L, a, x, e) /\ Walk(V, L, x, b, h - e)
  BY <1>1, <1>2, WalksCut, e \in 0..h
<1>4. ASSUME NEW i \in 0..(e - 1) PROVE ~Walk(V, L, a, x, i)
  <2> SUFFICES ASSUME Walk(V, L, a, x, i) PROVE FALSE
    OBVIOUS
  <2>1. i \in Nat /\ h - e \in Nat /\ ~(h <= i + (h - e)) /\ i + (h - e) \in Nat
    BY <1>1, <1>2
  <2>2. Walk(V, L, a, b, i + (h - e))
    BY <1>3, <2>1, WalksJoin
  <2> QED
    BY <1>1, <2>1, <2>2
<1>5. x \in Ring(V, L, a, e)
  BY <1>3, <1>4 DEF Ring
<1> QED
  BY <1>5 DEF Knows

-----------------------------------------------------------------------------
\* What the answer to a query about two nodes must be, in terms of walks.
Answered(V, L, a, b, reach, s) ==
    IF \E k \in 0..reach : Walk(V, L, a, b, k)
    THEN \E n \in 0..reach : IsPathOf(V, L, s, a, b, n) /\ \A k \in 0..(n - 1) : ~Walk(V, L, a, b, k)
    ELSE s = <<>>

\* A running search: both sides know everything up to their hops, side 1 is at
\* most one expansion ahead, and the ends are further apart than both reach.
Searching ==
    /\ NoNode \notin viewNodes /\ depth \in Nat /\ answer = <<>>
    /\ ends[1] # ends[2] /\ \A s \in Side : ends[s] \in viewNodes
    /\ expanded \in [Side -> 0..HalfDepth]
    /\ expanded[1] = expanded[2] + turnOf - 1
    /\ DOMAIN from = Side /\ DOMAIN frontier = Side
    /\ \A s \in Side : Knows(viewNodes, viewLinks, ends[s], expanded[s], from[s], frontier[s])
    /\ \A s \in Side : \A k \in 0..(expanded[s] + expanded[Other(s)]) :
            ~Walk(viewNodes, viewLinks, ends[s], ends[Other(s)], k)

SearchReach == IF ends[1] = ends[2] THEN 0 ELSE 2 * HalfDepth

QueryInv ==
    /\ turnOf \in {0} \cup Side
    /\ turnOf # 0 => Searching
    /\ turnOf = 0 /\ ends[1] # NoNode =>
            /\ depth \in Nat
            /\ Answered(viewNodes, viewLinks, ends[1], ends[2], SearchReach, answer)

\* Each side makes at least one expansion.
LEMMA HalfDepthIs == ASSUME depth \in Nat PROVE HalfDepth \in Nat /\ HalfDepth >= 1
<1>1. depth \div 2 \in Nat
  OBVIOUS
<1> DEFINE S == {1, depth \div 2}
<1>2. \E x \in S : \A y \in S : x >= y
  BY <1>1
<1>3. HalfDepth = CHOOSE x \in S : \A y \in S : x >= y
  BY DEF HalfDepth, Max
<1>4. HalfDepth \in S /\ \A y \in S : HalfDepth >= y
  <2> HIDE DEF S
  <2> QED
    BY <1>2, <1>3
<1> QED
  BY <1>1, <1>4

\* The two sides of a search.
LEMMA Sides ==
    /\ Side = {1, 2} /\ Other(1) = 2 /\ Other(2) = 1
    /\ \A s \in Side : Other(s) \in Side /\ Other(Other(s)) = s /\ Other(s) # s
  BY DEF Side, Other

\* No query has been asked at first.
LEMMA QueryStarts == QueryInit => QueryInv
  BY DEF QueryInit, QueryInv, NoNode

\* A query that needs no search is answered at once; another begins with what
\* each side knows of its end.
LEMMA AskAnswers ==
    ASSUME NEW view, NEW links, NEW a \in Node, NEW b \in Node, NEW bound \in Nat,
           NoNode \notin view, Ask(view, links, a, b, bound)
    PROVE  QueryInv'
<1> USE DEF Side
<1>1. /\ viewNodes' = view /\ viewLinks' = links /\ ends' = <<a, b>> /\ depth' = bound
      /\ from' = [s \in Side |-> [n \in {ends'[s]} |-> NoNode]]
      /\ frontier' = [s \in Side |-> {ends'[s]}]
      /\ expanded' = [s \in Side |-> 0]
      /\ answer' = IF a = b /\ a \in view THEN <<a>> ELSE <<>>
      /\ turnOf' = IF a # b /\ {a, b} \subseteq view THEN 1 ELSE 0
  BY DEF Ask
<1>2. ends'[1] = a /\ ends'[2] = b /\ a # NoNode
  BY <1>1, NodeAssumption
<1>3. CASE a # b /\ {a, b} \subseteq view
  <2>1. turnOf' = 1 /\ answer' = <<>>
    BY <1>1, <1>3
  <2>2. HalfDepth' \in Nat
    <3>1. (depth \in Nat)'
      BY <1>1
    <3>2. (depth \in Nat => HalfDepth \in Nat)'
      BY HalfDepthIs, PTL
    <3> QED
      BY <3>1, <3>2
  <2>3. Searching'
    <3>1. \A s \in Side : ends'[s] \in view /\ from'[s] = [n \in {ends'[s]} |-> NoNode]
                          /\ frontier'[s] = {ends'[s]} /\ expanded'[s] = 0
      BY <1>1, <1>2, <1>3
    <3>2. \A s \in Side : Knows(view, links, ends'[s], 0, from'[s], frontier'[s])
      <4> SUFFICES ASSUME NEW s \in Side PROVE Knows(view, links, ends'[s], 0, from'[s], frontier'[s])
        OBVIOUS
      <4>1. Knows(view, links, ends'[s], 0, [n \in {ends'[s]} |-> NoNode], {ends'[s]})
        <5> DEFINE c == ends'[s]
        <5>1. c \in view
          BY <3>1
        <5> HIDE DEF c
        <5>2. Knows(view, links, c, 0, [n \in {c} |-> NoNode], {c})
          BY <5>1, KnowsStart
        <5> QED
          BY <5>2 DEF c
      <4> QED
        BY <3>1, <4>1
    <3>3. \A s \in Side : ends'[s] # ends'[Other(s)]
      BY <1>2, <1>3, Sides
    <3>4. \A s \in Side : \A k \in 0..(expanded'[s] + expanded'[Other(s)]) :
              ~Walk(view, links, ends'[s], ends'[Other(s)], k)
      <4>1. \A s \in Side : ~Walk(view, links, ends'[s], ends'[Other(s)], 0)
        BY <3>3, WalkOfNone
      <4>2. \A s \in Side : expanded'[s] + expanded'[Other(s)] = 0
        BY <3>1, Sides
      <4> QED
        BY <4>1, <4>2
    <3>5. expanded' \in [Side -> 0..HalfDepth']
      BY <1>1, <2>2
    <3>6. expanded'[1] = expanded'[2] + turnOf' - 1
      BY <3>1, <2>1
    <3> QED
      BY <1>1, <1>2, <1>3, <2>1, <3>1, <3>2, <3>4, <3>5, <3>6 DEF Searching
  <2> QED
    BY <2>1, <2>3 DEF QueryInv
<1>4. CASE a = b /\ a \in view
  <2>1. turnOf' = 0 /\ answer' = <<a>> /\ SearchReach' = 0
    BY <1>1, <1>2, <1>4 DEF SearchReach
  <2>2. Walk(view, links, a, b, 0)
    BY <1>4, WalkOfNone
  <2>3. IsPathOf(view, links, <<a>>, a, b, 0)
    BY <1>4 DEF IsPathOf
  <2>4. Answered(view, links, a, b, 0, <<a>>)
    <3>1. 0 \in 0..0 /\ \A k \in 0..(0 - 1) : FALSE
      OBVIOUS
    <3> QED
      BY <2>2, <2>3, <3>1 DEF Answered
  <2> QED
    BY <1>1, <1>2, <2>1, <2>4 DEF QueryInv
<1>5. CASE ~({a, b} \subseteq view)
  <2>1. turnOf' = 0 /\ answer' = <<>>
    BY <1>1, <1>5
  <2>2. \A k \in Nat : ~Walk(view, links, a, b, k)
    BY <1>5, WalkEnds
  <2>3. SearchReach' \in Nat
    <3>1. (depth \in Nat)'
      BY <1>1
    <3>2. (depth \in Nat => HalfDepth \in Nat)'
      BY HalfDepthIs, PTL
    <3> QED
      BY <3>1, <3>2 DEF SearchReach
  <2>4. Answered(view, links, a, b, SearchReach', <<>>)
    <3>1. \A k \in 0..SearchReach' : k \in Nat
      BY <2>3
    <3> QED
      BY <2>2, <3>1 DEF Answered
  <2> QED
    BY <1>1, <1>2, <2>1, <2>4 DEF QueryInv
<1> QED
  BY <1>3, <1>4, <1>5

\* Two sides that meet have found a shortest path.
LEMMA MeetAnswers ==
    ASSUME NEW s \in Side, Searching, Meet(s)
    PROVE  QueryInv'
<1> USE DEF Side
<1> DEFINE o == Other(s)
           a == ends[s]
           b == ends[o]
           e == expanded[s]
           f == expanded[o]
<1>0. PICK n \in frontier[s] : \E m \in Neighbors(n) \cap DOMAIN from[o] :
          answer' = Reconstruct([from EXCEPT ![s] = With(@, [k \in {m} |-> n])], m)
  BY DEF Meet
<1>1. PICK m \in Neighbors(n) \cap DOMAIN from[o] :
          answer' = Reconstruct([from EXCEPT ![s] = With(@, [k \in {m} |-> n])], m)
  BY <1>0
<1>2. /\ MayExpand(s) /\ turnOf = s /\ turnOf' = 0
      /\ viewNodes' = viewNodes /\ viewLinks' = viewLinks /\ ends' = ends /\ depth' = depth
  BY DEF Meet
<1>3. m \in viewNodes /\ {n, m} \in viewLinks /\ m \in DOMAIN from[o]
  BY DEF Neighbors
<1>4. /\ o \in Side /\ o # s /\ a \in viewNodes /\ b \in viewNodes
      /\ e \in Nat /\ f \in Nat /\ HalfDepth \in Nat /\ e < HalfDepth /\ f <= HalfDepth
      /\ Knows(viewNodes, viewLinks, a, e, from[s], frontier[s])
      /\ Knows(viewNodes, viewLinks, b, f, from[o], frontier[o])
      /\ \A k \in 0..(e + f) : ~Walk(viewNodes, viewLinks, a, b, k)
  <2>1. HalfDepth \in Nat
    BY HalfDepthIs DEF Searching
  <2> QED
    BY <1>2, <2>1, Sides DEF Searching, MayExpand
<1> DEFINE mine == Trail(With(from[s], [k \in {m} |-> n]), m)
           theirs == Trail(from[o], m)
<1>5. /\ IsTrail(viewNodes, viewLinks, a, mine, m, e + 1)
      /\ IsTrail(viewNodes, viewLinks, b, theirs, m, f)
      /\ Walk(viewNodes, viewLinks, a, b, (e + 1) + f)
  <2> HIDE DEF a, b, e, f, o
  <2> QED
    BY <1>3, <1>4, Meeting
<1> HIDE DEF mine, theirs
<1> DEFINE d == (e + 1) + f
<1>6. d \in Nat /\ d \in 0..(2 * HalfDepth) /\ \A k \in 0..(d - 1) : k \in 0..(e + f)
  BY <1>4
<1>7. IsPathOf(viewNodes, viewLinks, answer', ends[1], ends[2], d)
  <2>1. CASE s = 1
    <3>1. o = 2 /\ answer' = Reverse(mine) \o Tail(theirs)
      BY <1>1, <2>1, Sides DEF Reconstruct, Searching, mine, theirs
    <3>2. e + 1 \in Nat
      BY <1>4
    <3> HIDE DEF e, f, o
    <3>3. IsPathOf(viewNodes, viewLinks, answer', a, b, (e + 1) + f)
      BY <1>4, <1>5, <3>1, <3>2, TrailsJoin
    <3> QED
      BY <2>1, <3>1, <3>3
  <2>2. CASE s = 2
    <3>1. o = 1 /\ answer' = Reverse(theirs) \o Tail(mine)
      BY <1>1, <2>2, Sides DEF Reconstruct, Searching, mine, theirs
    <3>2. e + 1 \in Nat /\ f + (e + 1) = (e + 1) + f
      BY <1>4
    <3> HIDE DEF e, f, o
    <3>3. IsPathOf(viewNodes, viewLinks, answer', b, a, f + (e + 1))
      BY <1>4, <1>5, <3>1, <3>2, TrailsJoin
    <3> QED
      BY <2>2, <3>1, <3>2, <3>3
  <2> QED
    BY <2>1, <2>2
<1> HIDE DEF d
<1>8. Walk(viewNodes, viewLinks, ends[1], ends[2], d) /\ \A k \in 0..(d - 1) : ~Walk(viewNodes, viewLinks, ends[1], ends[2], k)
  <2>1. CASE s = 1
    <3>1. a = ends[1] /\ b = ends[2]
      BY <2>1, Sides
    <3> QED
      BY <1>4, <1>5, <1>6, <3>1 DEF d
  <2>2. CASE s = 2
    <3>1. a = ends[2] /\ b = ends[1]
      BY <2>2, Sides
    <3>2. Walk(viewNodes, viewLinks, ends[1], ends[2], d)
      BY <1>5, <1>6, <3>1, WalksTurn DEF d
    <3>3. ASSUME NEW k \in 0..(d - 1), Walk(viewNodes, viewLinks, ends[1], ends[2], k) PROVE FALSE
      <4>1. k \in Nat /\ k \in 0..(e + f)
        BY <1>6
      <4>2. Walk(viewNodes, viewLinks, a, b, k)
        BY <3>1, <3>3, <4>1, WalksTurn
      <4> QED
        BY <1>4, <4>1, <4>2
    <3> QED
      BY <3>2, <3>3
  <2> QED
    BY <2>1, <2>2
<1>9. SearchReach' = 2 * HalfDepth
  BY <1>2 DEF Searching, SearchReach, HalfDepth
<1>10. Answered(viewNodes, viewLinks, ends[1], ends[2], 2 * HalfDepth, answer')
  <2>1. d \in 0..(2 * HalfDepth)
    BY <1>6
  <2> QED
    BY <1>7, <1>8, <2>1 DEF Answered
<1>11. depth' \in Nat
  BY <1>2 DEF Searching
<1> QED
  BY <1>2, <1>9, <1>10, <1>11 DEF QueryInv

\* An expansion that meets nothing leaves both sides knowing all within reach.
LEMMA ExpandSearches ==
    ASSUME NEW s \in Side, Searching, Expand(s)
    PROVE  QueryInv'
<1> USE DEF Side
<1> DEFINE o == Other(s)
           a == ends[s]
           b == ends[o]
           e == expanded[s]
           f == expanded[o]
           V == viewNodes
           L == viewLinks
           new == (UNION {Neighbors(n) : n \in frontier[s]}) \ DOMAIN from[s]
<1>1. PICK p \in [new -> frontier[s]] :
          (\A m \in new : p[m] \in Neighbors(m)) /\ from' = [from EXCEPT ![s] = With(@, p)]
  BY DEF Expand
<1>2. /\ turnOf = s /\ turnOf' = o /\ MayExpand(s)
      /\ \A n \in frontier[s] : Neighbors(n) \cap DOMAIN from[o] = {}
      /\ frontier' = [frontier EXCEPT ![s] = new] /\ expanded' = [expanded EXCEPT ![s] = @ + 1]
      /\ viewNodes' = V /\ viewLinks' = L /\ ends' = ends /\ depth' = depth /\ answer' = answer
  BY DEF Expand
<1>3. /\ o \in Side /\ o # s /\ a \in V /\ b \in V /\ NoNode \notin V
      /\ e \in Nat /\ f \in Nat /\ HalfDepth \in Nat /\ e < HalfDepth /\ f <= HalfDepth
      /\ Knows(V, L, a, e, from[s], frontier[s])
      /\ Knows(V, L, b, f, from[o], frontier[o])
      /\ \A k \in 0..(e + f) : ~Walk(V, L, a, b, k)
  <2>1. HalfDepth \in Nat
    BY HalfDepthIs DEF Searching
  <2> QED
    BY <1>2, <2>1, Sides DEF Searching, MayExpand
<1>4. new = Around(V, L, frontier[s]) \ DOMAIN from[s]
  BY DEF Around, Neighbors
<1>5. \A m \in new : {p[m], m} \in L
  <2> SUFFICES ASSUME NEW m \in new PROVE {p[m], m} \in L
    OBVIOUS
  <2>1. {m, p[m]} \in L
    BY <1>1 DEF Neighbors
  <2>2. {m, p[m]} = {p[m], m}
    OBVIOUS
  <2> QED
    BY <2>1, <2>2
<1> HIDE DEF new
<1>6. Knows(V, L, a, e + 1, With(from[s], p), new)
  <2> HIDE DEF a, e, V, L
  <2> QED
    BY <1>1, <1>3, <1>4, <1>5, KnowsGrows
<1>7. \A k \in 0..((e + 1) + f) : ~Walk(V, L, a, b, k)
  <2>1. \A n \in frontier[s] : \A m \in V : {n, m} \in L => m \notin DOMAIN from[o]
    BY <1>2 DEF Neighbors
  <2> HIDE DEF a, b, e, f, V, L, o
  <2> QED
    BY <1>3, <2>1, NoMeeting
<1>8. /\ from'[s] = With(from[s], p) /\ from'[o] = from[o] /\ DOMAIN from' = Side
      /\ frontier'[s] = new /\ frontier'[o] = frontier[o] /\ DOMAIN frontier' = Side
      /\ expanded'[s] = e + 1 /\ expanded'[o] = f
      /\ expanded' \in [Side -> 0..HalfDepth]
  BY <1>1, <1>2, <1>3 DEF Searching
<1>9. HalfDepth' = HalfDepth
  BY <1>2 DEF HalfDepth
<1>10. \A t \in Side : t = s \/ t = o
  BY Sides
<1>11. \A t \in Side : Knows(V, L, ends[t], expanded'[t], from'[t], frontier'[t])
  <2> SUFFICES ASSUME NEW t \in Side PROVE Knows(V, L, ends[t], expanded'[t], from'[t], frontier'[t])
    OBVIOUS
  <2>1. CASE t = s
    BY <1>6, <1>8, <2>1
  <2>2. CASE t = o
    BY <1>3, <1>8, <2>2
  <2> QED
    BY <1>10, <2>1, <2>2
<1>12. ASSUME NEW t \in Side, NEW k \in 0..(expanded'[t] + expanded'[Other(t)])
       PROVE  ~Walk(V, L, ends[t], ends[Other(t)], k)
  <2>1. CASE t = s
    <3>1. k \in 0..((e + 1) + f)
      BY <1>8, <2>1
    <3> QED
      BY <1>7, <2>1, <3>1
  <2>2. CASE t = o
    <3>1. Other(t) = s
      BY <2>2, Sides
    <3>2. k \in 0..((e + 1) + f) /\ k \in Nat
      BY <1>3, <1>8, <2>2, <3>1
    <3> SUFFICES ASSUME Walk(V, L, b, a, k) PROVE FALSE
      BY <2>2, <3>1
    <3>3. Walk(V, L, a, b, k)
      BY <3>2, WalksTurn
    <3> QED
      BY <1>7, <3>2, <3>3
  <2> QED
    BY <1>10, <2>1, <2>2
<1>13. expanded'[1] = expanded'[2] + turnOf' - 1
  <2>1. CASE s = 1
    BY <1>2, <1>3, <1>8, <2>1, Sides DEF Searching
  <2>2. CASE s = 2
    BY <1>2, <1>3, <1>8, <2>2, Sides DEF Searching
  <2> QED
    BY <2>1, <2>2
<1>14. Searching'
  <2>1. NoNode \notin viewNodes' /\ depth' \in Nat /\ answer' = <<>>
        /\ ends'[1] # ends'[2] /\ \A t \in Side : ends'[t] \in viewNodes'
    BY <1>2 DEF Searching
  <2>2. expanded' \in [Side -> 0..HalfDepth']
    BY <1>8, <1>9
  <2>3. /\ \A t \in Side : Knows(viewNodes', viewLinks', ends'[t], expanded'[t], from'[t], frontier'[t])
        /\ \A t \in Side : \A k \in 0..(expanded'[t] + expanded'[Other(t)]) :
                ~Walk(viewNodes', viewLinks', ends'[t], ends'[Other(t)], k)
    <3> HIDE DEF Side
    <3> QED
      BY <1>2, <1>11, <1>12
  <2> QED
    BY <1>8, <1>13, <2>1, <2>2, <2>3 DEF Searching
<1> QED
  BY <1>2, <1>3, <1>14 DEF QueryInv

\* A search that ends without a meeting has used up its depth or its nodes.
LEMMA GivingUpAnswers ==
    ASSUME Searching, turnOf \in Side, GiveUp
    PROVE  QueryInv'
<1> USE DEF Side
<1> DEFINE V == viewNodes
           L == viewLinks
           Apart(k) == ~Walk(V, L, ends[1], ends[2], k)
<1>1. /\ ~MayExpand(turnOf)
      /\ turnOf' = IF turnOf = 2 /\ MayExpand(1) THEN 1 ELSE 0
      /\ viewNodes' = V /\ viewLinks' = L /\ ends' = ends /\ depth' = depth /\ answer' = answer
  BY DEF GiveUp
<1>2. /\ HalfDepth \in Nat /\ expanded[1] \in 0..HalfDepth /\ expanded[2] \in 0..HalfDepth
      /\ Knows(V, L, ends[1], expanded[1], from[1], frontier[1])
      /\ Knows(V, L, ends[2], expanded[2], from[2], frontier[2])
      /\ \A k \in 0..(expanded[1] + expanded[2]) : Apart(k)
  <2>1. HalfDepth \in Nat
    BY HalfDepthIs DEF Searching
  <2> QED
    BY <2>1, Sides DEF Searching
<1>3. \A k \in Nat : Walk(V, L, ends[1], ends[2], k) => Walk(V, L, ends[2], ends[1], k)
  BY WalksTurn
<1>4. CASE frontier[1] = {}
  <2>1. \A k \in 0..expanded[1] : Apart(k)
    BY <1>2
  <2>2. \A k \in Nat : Apart(k)
    BY <1>2, <1>4, <2>1, NothingFurther
  <2>3. turnOf' = 0 /\ \A k \in 0..(2 * HalfDepth) : Apart(k)
    BY <1>1, <1>2, <1>4, <2>2 DEF MayExpand
  <2> QED
    BY <1>1, <2>3 DEF QueryInv, Answered, Searching, SearchReach, HalfDepth
<1>5. CASE frontier[2] = {}
  <2>1. \A k \in 0..expanded[2] : ~Walk(V, L, ends[2], ends[1], k)
    <3> SUFFICES ASSUME NEW k \in 0..expanded[2], Walk(V, L, ends[2], ends[1], k) PROVE FALSE
      OBVIOUS
    <3>1. k \in Nat /\ k \in 0..(expanded[1] + expanded[2])
      BY <1>2
    <3>2. Walk(V, L, ends[1], ends[2], k)
      BY <3>1, WalksTurn
    <3> QED
      BY <1>2, <3>1, <3>2
  <2>2. \A k \in Nat : ~Walk(V, L, ends[2], ends[1], k)
    BY <1>2, <1>5, <2>1, NothingFurther
  <2>3. turnOf' = 0 /\ \A k \in 0..(2 * HalfDepth) : Apart(k)
    BY <1>1, <1>2, <1>3, <1>5, <2>2 DEF MayExpand
  <2> QED
    BY <1>1, <2>3 DEF QueryInv, Answered, Searching, SearchReach, HalfDepth
<1>6. CASE frontier[1] # {} /\ frontier[2] # {}
  <2>1. expanded[1] = expanded[2] + turnOf - 1
    BY DEF Searching
  <2>2. turnOf = 1 /\ expanded[1] = HalfDepth /\ expanded[2] = HalfDepth
    BY <1>1, <1>2, <1>6, <2>1 DEF MayExpand
  <2>3. turnOf' = 0 /\ \A k \in 0..(2 * HalfDepth) : Apart(k)
    BY <1>1, <1>2, <2>2
  <2> QED
    BY <1>1, <2>3 DEF QueryInv, Answered, Searching, SearchReach, HalfDepth
<1> QED
  BY <1>4, <1>5, <1>6

\* What is not asked of the query leaves it alone.
LEMMA QueryKept ==
    ASSUME QueryInv, UNCHANGED queryVars
    PROVE  QueryInv'
BY DEF QueryInv, queryVars, Searching, Answered, SearchReach, HalfDepth

\* Every step of a search keeps what the sides know, or answers the query.
LEMMA SearchStepKeeps ==
    ASSUME QueryInv, SearchStep
    PROVE  QueryInv'
<1>1. CASE \E s \in Side : Meet(s)
  <2>1. PICK s \in Side : Meet(s)
    BY <1>1
  <2>2. Searching
    BY <2>1 DEF QueryInv, Meet, Side
  <2> QED
    BY <2>1, <2>2, MeetAnswers
<1>2. CASE \E s \in Side : Expand(s)
  <2>1. PICK s \in Side : Expand(s)
    BY <1>2
  <2>2. Searching
    BY <2>1 DEF QueryInv, Expand, Side
  <2> QED
    BY <2>1, <2>2, ExpandSearches
<1>3. CASE GiveUp
  <2>1. Searching /\ turnOf \in Side
    BY <1>3 DEF QueryInv, GiveUp
  <2> QED
    BY <1>3, <2>1, GivingUpAnswers
<1> QED
  BY <1>1, <1>2, <1>3 DEF SearchStep

\* What the invariant says of an answer is the property.
LEMMA ShortestAnswer == QueryInv => ShortestWithinBound
<1> SUFFICES ASSUME QueryInv, turnOf = 0, ends[1] # NoNode
             PROVE  IF ends[2] \in Within[SearchReach]
                    THEN /\ answer # <<>> /\ IsPath(answer)
                         /\ answer[1] = ends[1] /\ Last(answer) = ends[2]
                         /\ \A n \in 0..(Len(answer) - 2) : ends[2] \notin Within[n]
                    ELSE answer = <<>>
  BY DEF ShortestWithinBound, SearchReach
<1> DEFINE V == viewNodes
           L == viewLinks
<1>1. depth \in Nat /\ Answered(V, L, ends[1], ends[2], SearchReach, answer)
  BY DEF QueryInv
<1>2. SearchReach \in Nat
  BY <1>1, HalfDepthIs DEF SearchReach
<1>3. \A n \in Nat : ends[2] \in Within[n] <=> \E k \in 0..n : Walk(V, L, ends[1], ends[2], k)
  BY WithinIs
<1>4. CASE \E k \in 0..SearchReach : Walk(V, L, ends[1], ends[2], k)
  <2>1. PICK n \in 0..SearchReach :
            IsPathOf(V, L, answer, ends[1], ends[2], n) /\ \A k \in 0..(n - 1) : ~Walk(V, L, ends[1], ends[2], k)
    BY <1>1, <1>4 DEF Answered
  <2>2. /\ answer \in Seq(V) /\ Len(answer) = n + 1 /\ answer[1] = ends[1] /\ answer[n + 1] = ends[2]
        /\ \A i \in 1..n : {answer[i], answer[i + 1]} \in L /\ n \in Nat
    BY <1>2, <2>1 DEF IsPathOf
  <2>3. n \in Nat
    BY <1>2
  <2>4. answer # <<>> /\ Last(answer) = ends[2]
    BY <2>2, <2>3 DEF Last
  <2>5. IsPath(answer)
    <3>1. \A i \in 1..Len(answer) : answer[i] \in V
      BY <2>2
    <3>2. Len(answer) - 1 = n
      BY <2>2, <2>3
    <3> QED
      BY <2>2, <3>1, <3>2 DEF IsPath
  <2>6. \A i \in 0..(Len(answer) - 2) : ends[2] \notin Within[i]
    <3> SUFFICES ASSUME NEW i \in 0..(Len(answer) - 2), ends[2] \in Within[i] PROVE FALSE
      OBVIOUS
    <3>1. i \in 0..(n - 1) /\ i \in Nat
      BY <2>2, <2>3
    <3>2. PICK k \in 0..i : Walk(V, L, ends[1], ends[2], k)
      BY <1>3, <3>1
    <3>3. k \in 0..(n - 1)
      BY <2>3, <3>1
    <3> QED
      BY <2>1, <3>2, <3>3
  <2> QED
    BY <1>2, <1>3, <1>4, <2>2, <2>4, <2>5, <2>6
<1>5. CASE ~\E k \in 0..SearchReach : Walk(V, L, ends[1], ends[2], k)
  BY <1>1, <1>2, <1>3, <1>5 DEF Answered
<1> QED
  BY <1>4, <1>5

-----------------------------------------------------------------------------
\* The layered indexes.

\* How far apart two vectors are is a number.
LEMMA DistanceIs ==
    ASSUME NEW a \in Vector, NEW b \in Vector
    PROVE  Distance(a, b) \in Nat
<1>1. a[1] \in Int /\ a[2] \in Int /\ b[1] \in Int /\ b[2] \in Int
  BY DEF Vector
<1>2. \A d \in Int : d * d \in Nat
  OBVIOUS
<1>3. /\ (a[1] - b[1]) * (a[1] - b[1]) \in Nat
      /\ (a[2] - b[2]) * (a[2] - b[2]) \in Nat
  <2>1. a[1] - b[1] \in Int /\ a[2] - b[2] \in Int
    BY <1>1
  <2> QED
    BY <1>2, <2>1
<1> QED
  BY <1>3 DEF Distance

\* Of two points of a circle the nearer one to a third is the more similar to it.
LEMMA NearerIsMoreSimilar ==
    ASSUME NEW a \in Vector, NEW b \in Vector, NEW q \in Vector,
           Similarity(a, a) = Similarity(b, b), Distance(a, q) <= Distance(b, q)
    PROVE  /\ Similarity(a, q) \in Int /\ Similarity(b, q) \in Int
           /\ Similarity(b, q) <= Similarity(a, q)
<1>1. /\ a[1] \in Int /\ a[2] \in Int /\ b[1] \in Int /\ b[2] \in Int
      /\ q[1] \in Int /\ q[2] \in Int
  BY DEF Vector
<1>2. ASSUME NEW x \in Int, NEW y \in Int
      PROVE  (x - y) * (x - y) = x * x - 2 * (x * y) + y * y
  OBVIOUS
<1>3. ASSUME NEW c \in Vector, c[1] \in Int, c[2] \in Int
      PROVE  /\ Distance(c, q) = Similarity(c, c) - 2 * Similarity(c, q) + Similarity(q, q)
             /\ Similarity(c, c) \in Int /\ Similarity(c, q) \in Int /\ Similarity(q, q) \in Int
  <2>1. /\ c[1] * c[1] \in Int /\ c[2] * c[2] \in Int /\ c[1] * q[1] \in Int
        /\ c[2] * q[2] \in Int /\ q[1] * q[1] \in Int /\ q[2] * q[2] \in Int
    BY <1>1, <1>3
  <2>2. /\ (c[1] - q[1]) * (c[1] - q[1]) = c[1] * c[1] - 2 * (c[1] * q[1]) + q[1] * q[1]
        /\ (c[2] - q[2]) * (c[2] - q[2]) = c[2] * c[2] - 2 * (c[2] * q[2]) + q[2] * q[2]
    BY <1>1, <1>2, <1>3
  <2> QED
    BY <2>1, <2>2 DEF Distance, Similarity
<1>4. /\ Distance(a, q) = Similarity(a, a) - 2 * Similarity(a, q) + Similarity(q, q)
      /\ Distance(b, q) = Similarity(b, b) - 2 * Similarity(b, q) + Similarity(q, q)
      /\ Similarity(a, a) \in Int /\ Similarity(b, b) \in Int /\ Similarity(q, q) \in Int
      /\ Similarity(a, q) \in Int /\ Similarity(b, q) \in Int
  BY <1>1, <1>3
<1> QED
  BY <1>4

\* How near the nodes of an index are is a number, and being closer orders them.
LEMMA Nearness ==
    ASSUME NEW vec \in Seq(Vector), NEW v \in Vector
    PROVE  /\ \A i \in DOMAIN vec : Distance(vec[i], v) \in Nat
           /\ \A i \in DOMAIN vec : ~Closer(vec, v, i, i)
           /\ \A i, j \in DOMAIN vec : Closer(vec, v, i, j) => Distance(vec[i], v) <= Distance(vec[j], v)
<1>1. \A i \in DOMAIN vec : Distance(vec[i], v) \in Nat /\ i \in Nat
  <2>1. \A i \in DOMAIN vec : vec[i] \in Vector /\ i \in Nat
    OBVIOUS
  <2> QED
    BY <2>1, DistanceIs
<1>2. \A i \in DOMAIN vec : ~Closer(vec, v, i, i)
  BY <1>1 DEF Closer
<1>3. \A i, j \in DOMAIN vec : Closer(vec, v, i, j) => Distance(vec[i], v) <= Distance(vec[j], v)
  BY <1>1 DEF Closer
<1> QED
  BY <1>1, <1>2, <1>3

\* The nearest of some nodes exists, and is one of them.
LEMMA NearestIs ==
    ASSUME NEW vec \in Seq(Vector), NEW v \in Vector, NEW S, S \subseteq DOMAIN vec, S # {}
    PROVE  /\ Nearest(vec, v, S) \in S
           /\ \A j \in S \ {Nearest(vec, v, S)} : Closer(vec, v, Nearest(vec, v, S), j)
           /\ \A j \in S : Distance(vec[Nearest(vec, v, S)], v) <= Distance(vec[j], v)
<1> DEFINE far == {Distance(vec[i], v) : i \in S}
<1>1. PICK d \in far : \A k \in far : d <= k
  <2>1. far \subseteq Nat /\ far # {}
    BY Nearness
  <2> HIDE DEF far
  <2> QED
    BY <2>1, SmallestOf
<1> DEFINE behind == {Len(vec) - i : i \in {k \in S : Distance(vec[k], v) = d}}
<1>2. PICK c \in behind : \A k \in behind : c <= k
  <2>1. behind \subseteq Nat /\ behind # {}
    BY <1>1
  <2> HIDE DEF behind
  <2> QED
    BY <2>1, SmallestOf
<1>3. PICK i \in S : Distance(vec[i], v) = d /\ c = Len(vec) - i
  BY <1>2
<1>4. \A j \in S \ {i} : Closer(vec, v, i, j)
  <2> SUFFICES ASSUME NEW j \in S \ {i} PROVE Closer(vec, v, i, j)
    OBVIOUS
  <2>1. d <= Distance(vec[j], v) /\ Distance(vec[j], v) \in Nat /\ d \in Nat
    BY <1>1, Nearness
  <2>2. CASE Distance(vec[j], v) = d
    <3>1. Len(vec) - j \in behind
      BY <2>2
    <3>2. i \in Nat /\ j \in Nat /\ i # j /\ Len(vec) \in Nat
      OBVIOUS
    <3>3. i > j
      <4>1. Len(vec) - i <= Len(vec) - j
        <5> HIDE DEF behind
        <5> QED
          BY <1>2, <1>3, <3>1
      <4> QED
        BY <3>2, <4>1
    <3> QED
      BY <1>3, <2>2, <3>3 DEF Closer
  <2>3. CASE Distance(vec[j], v) # d
    BY <1>3, <2>1, <2>3 DEF Closer
  <2> QED
    BY <2>2, <2>3
<1> DEFINE n == Nearest(vec, v, S)
<1>5. n \in S /\ \A j \in S \ {n} : Closer(vec, v, n, j)
  BY <1>4 DEF Nearest
<1>6. \A j \in S : Distance(vec[n], v) <= Distance(vec[j], v)
  <2> SUFFICES ASSUME NEW j \in S PROVE Distance(vec[n], v) <= Distance(vec[j], v)
    OBVIOUS
  <2> HIDE DEF n
  <2>1. n \in DOMAIN vec /\ j \in DOMAIN vec
    BY <1>5
  <2>2. Distance(vec[n], v) \in Nat
    BY <2>1, Nearness
  <2>3. CASE j = n
    BY <2>2, <2>3
  <2>4. CASE j # n
    BY <1>5, <2>1, <2>4, Nearness
  <2> QED
    BY <2>3, <2>4
<1> QED
  BY <1>5, <1>6

\* The nodes of an index are finitely many.
LEMMA NodesFinite ==
    ASSUME NEW vec \in Seq(Vector), NEW S, S \subseteq DOMAIN vec
    PROVE  IsFiniteSet(S) /\ Cardinality(S) \in Nat
<1>1. IsFiniteSet(1..Len(vec))
  BY FS_Interval
<1> QED
  BY <1>1, FS_Subset, FS_CardinalityType

\* The best of a set are in it, all of it when they are few enough, and the
\* nearest is one of them; the best of the best are the same.
LEMMA BestIs ==
    ASSUME NEW vec \in Seq(Vector), NEW v \in Vector, NEW n \in Nat, NEW S, S \subseteq DOMAIN vec
    PROVE  /\ Best(vec, v, n, S) \subseteq S
           /\ Cardinality(S) <= n => Best(vec, v, n, S) = S
           /\ S # {} /\ n # 0 => Nearest(vec, v, S) \in Best(vec, v, n, S)
           /\ Best(vec, v, n, Best(vec, v, n, S)) = Best(vec, v, n, S)
<1> DEFINE Before(i, T) == {j \in T : Closer(vec, v, j, i)}
           B == Best(vec, v, n, S)
<1>1. B \subseteq S /\ \A i \in S : i \in B <=> Cardinality(Before(i, S)) < n
  BY DEF Best
<1>2. \A i \in S : Cardinality(Before(i, S)) \in Nat
  BY NodesFinite
<1>3. ASSUME Cardinality(S) <= n, NEW i \in S PROVE i \in B
  <2>1. Before(i, S) \subseteq S /\ Before(i, S) # S
    BY Nearness
  <2>2. Cardinality(Before(i, S)) < Cardinality(S)
    <3> HIDE DEF Before
    <3>1. IsFiniteSet(S)
      BY NodesFinite
    <3>2. Cardinality(Before(i, S)) <= Cardinality(S)
          /\ (Cardinality(S) = Cardinality(Before(i, S)) => Before(i, S) = S)
      BY <2>1, <3>1, FS_Subset
    <3>3. Cardinality(S) \in Nat /\ Cardinality(Before(i, S)) \in Nat
      BY <1>2, NodesFinite
    <3> QED
      BY <2>1, <3>2, <3>3
  <2>3. Cardinality(S) \in Nat
    BY NodesFinite
  <2> HIDE DEF Before
  <2> QED
    BY <1>1, <1>2, <1>3, <2>2, <2>3
<1>4. ASSUME S # {}, n # 0 PROVE Nearest(vec, v, S) \in B
  <2> DEFINE i == Nearest(vec, v, S)
  <2>1. i \in S /\ \A j \in S \ {i} : Closer(vec, v, i, j)
    BY <1>4, NearestIs
  <2>2. Before(i, S) = {}
    <3> SUFFICES ASSUME NEW j \in S, Closer(vec, v, j, i) PROVE FALSE
      OBVIOUS
    <3> HIDE DEF i
    <3>1. j # i
      BY <2>1, Nearness
    <3>2. Closer(vec, v, i, j)
      BY <2>1, <3>1
    <3>3. Distance(vec[i], v) \in Nat /\ Distance(vec[j], v) \in Nat /\ i \in Nat /\ j \in Nat
      <4>1. i \in DOMAIN vec /\ j \in DOMAIN vec /\ \A k \in DOMAIN vec : k \in Nat
        BY <2>1
      <4> QED
        BY <4>1, Nearness
    <3> QED
      BY <3>2, <3>3 DEF Closer
  <2>3. Cardinality(Before(i, S)) = 0
    BY <2>2, FS_EmptySet
  <2> HIDE DEF i, Before
  <2> QED
    BY <1>1, <1>4, <2>1, <2>3 DEF i
<1>5. \A i \in B : i \in Best(vec, v, n, B)
  <2> SUFFICES ASSUME NEW i \in B PROVE i \in Best(vec, v, n, B)
    OBVIOUS
  <2>1. Before(i, B) \subseteq Before(i, S) /\ IsFiniteSet(Before(i, S))
    BY <1>1, NodesFinite
  <2>2. Cardinality(Before(i, B)) <= Cardinality(Before(i, S)) /\ Cardinality(Before(i, B)) \in Nat
    BY <2>1, FS_Subset, FS_CardinalityType
  <2>3. Cardinality(Before(i, S)) < n /\ Cardinality(Before(i, S)) \in Nat
    BY <1>1, <1>2
  <2>4. Cardinality(Before(i, B)) < n
    <3> HIDE DEF Before
    <3> QED
      BY <2>2, <2>3
  <2> HIDE DEF B
  <2> QED
    BY <2>4 DEF Best
<1>6. Best(vec, v, n, B) \subseteq B
  BY DEF Best
<1> QED
  BY <1>1, <1>3, <1>4, <1>5, <1>6

\* The states of a search, and how much of the layer it has left.
Beams(vec) == [seen : SUBSET DOMAIN vec, open : SUBSET DOMAIN vec, found : SUBSET DOMAIN vec]
Left(vec, b) == 2 * Cardinality(DOMAIN vec \ b.seen) + Cardinality(b.open)

\* An index of which every list leads to nodes of the index.
Linked(vec, links) == vec \in Seq(Vector) /\ links \in [DOMAIN vec -> SUBSET DOMAIN vec]

\* Expanding a node keeps a beam within the index and leaves less of the layer.
LEMMA WidenedIs ==
    ASSUME NEW vec, NEW links, Linked(vec, links), NEW v \in Vector, NEW ef \in Nat,
           NEW b \in Beams(vec), b.open # {}
    PROVE  /\ Widened(vec, links, v, b, ef) \in Beams(vec)
           /\ Left(vec, Widened(vec, links, v, b, ef)) < Left(vec, b)
           /\ Left(vec, b) \in Nat /\ Left(vec, Widened(vec, links, v, b, ef)) \in Nat
<1> DEFINE D       == DOMAIN vec
           current == Nearest(vec, v, b.open)
           new     == links[current] \ b.seen
           kept    == Best(vec, v, ef, b.found \cup new)
           w       == Widened(vec, links, v, b, ef)
           rest    == D \ b.seen
           later   == rest \ new
           fewer   == b.open \ {current}
           more    == new \cap kept
<1>1. vec \in Seq(Vector) /\ links \in [D -> SUBSET D]
  BY DEF Linked
<1>2. b.seen \subseteq D /\ b.open \subseteq D /\ b.found \subseteq D
  BY DEF Beams
<1>3. current \in b.open
  BY <1>1, <1>2, NearestIs
<1>4. new \subseteq rest /\ kept \subseteq D
  <2>1. new \subseteq rest
    BY <1>1, <1>2, <1>3
  <2>2. b.found \cup new \subseteq D
    BY <1>2, <2>1
  <2> HIDE DEF new
  <2> QED
    BY <1>1, <2>1, <2>2, BestIs
<1>5. w = [seen |-> b.seen \cup new, open |-> fewer \cup more, found |-> kept]
  BY DEF Widened
<1> HIDE DEF current, new, kept, w
<1>6. w \in Beams(vec)
  BY <1>2, <1>4, <1>5 DEF Beams
<1>7. D \ w.seen = later /\ w.open = fewer \cup more
  BY <1>5
<1>8. Cardinality(later) = Cardinality(rest) - Cardinality(new)
  <2>1. rest \cap new = new /\ IsFiniteSet(rest)
    BY <1>1, <1>4, NodesFinite
  <2> HIDE DEF rest
  <2> QED
    BY <2>1, FS_Difference
<1>9. Cardinality(fewer \cup more) <= Cardinality(fewer) + Cardinality(more)
  <2>1. IsFiniteSet(fewer) /\ IsFiniteSet(more) /\ fewer \cap more \subseteq D
    BY <1>1, <1>2, <1>4, NodesFinite
  <2>2. Cardinality(fewer \cup more) = Cardinality(fewer) + Cardinality(more) - Cardinality(fewer \cap more)
    <3> HIDE DEF fewer, more
    <3> QED
      BY <2>1, FS_Union
  <2>3. Cardinality(fewer \cap more) \in Nat /\ Cardinality(fewer) \in Nat /\ Cardinality(more) \in Nat
    BY <1>1, <1>2, <1>4, NodesFinite
  <2> HIDE DEF fewer, more
  <2> QED
    BY <2>2, <2>3
<1>10. Cardinality(fewer) = Cardinality(b.open) - 1
  <2>1. IsFiniteSet(b.open)
    BY <1>1, <1>2, NodesFinite
  <2> QED
    BY <1>3, <2>1, FS_RemoveElement
<1>11. Cardinality(more) <= Cardinality(new)
  <2>1. IsFiniteSet(new) /\ more \subseteq new
    BY <1>1, <1>4, NodesFinite
  <2> HIDE DEF more
  <2> QED
    BY <2>1, FS_Subset
<1>12. /\ Cardinality(rest) \in Nat /\ Cardinality(later) \in Nat /\ Cardinality(new) \in Nat
       /\ Cardinality(fewer \cup more) \in Nat /\ Cardinality(b.open) \in Nat
       /\ Cardinality(fewer) \in Nat /\ Cardinality(more) \in Nat
  <2>1. rest \subseteq D /\ later \subseteq D /\ new \subseteq D /\ fewer \subseteq D /\ more \subseteq D
        /\ fewer \cup more \subseteq D
    BY <1>2, <1>4
  <2> HIDE DEF rest, later, fewer, more
  <2> QED
    BY <1>1, <1>2, <2>1, NodesFinite
<1>13. Left(vec, b) = 2 * Cardinality(rest) + Cardinality(b.open)
  BY DEF Left
<1>14. Left(vec, w) = 2 * Cardinality(later) + Cardinality(fewer \cup more)
  BY <1>7 DEF Left
<1> HIDE DEF rest, later, fewer, more, D
<1>15. Left(vec, w) < Left(vec, b) /\ Left(vec, b) \in Nat /\ Left(vec, w) \in Nat
  BY <1>8, <1>9, <1>10, <1>11, <1>12, <1>13, <1>14
<1> QED
  BY <1>6, <1>15 DEF w

\* What _search_layer computes, by its next state.
Beam(f, vec, links, v, ef) ==
    /\ f \in [Beams(vec) -> SUBSET DOMAIN vec]
    /\ \A b \in Beams(vec) :
          f[b] = IF Exhausted(vec, v, b, ef) THEN b.found ELSE f[Widened(vec, links, v, b, ef)]
    /\ \A e : SearchLayer(vec, links, v, e, ef) = f[[seen |-> {e}, open |-> {e}, found |-> {e}]]

\* The search of a layer is the value of a recursion that ends.
LEMMA SearchLayerIs ==
    ASSUME NEW vec, NEW links, Linked(vec, links), NEW v \in Vector, NEW ef \in Nat
    PROVE  \E f : Beam(f, vec, links, v, ef)
<1> DEFINE B    == Beams(vec)
           Ids  == SUBSET DOMAIN vec
           Eq(f) == f = [b \in B |-> IF Exhausted(vec, v, b, ef) THEN b.found ELSE f[Widened(vec, links, v, b, ef)]]
           mu   == [b \in B |-> Left(vec, b)]
           stop == {b \in B : Exhausted(vec, v, b, ef)}
           next == [b \in B |-> IF b.open = {} THEN b ELSE Widened(vec, links, v, b, ef)]
           base == [b \in B |-> b.found]
           op   == [x \in B \X Ids |-> x[2]]
<1>1. \A b \in B : Left(vec, b) \in Nat
  <2> SUFFICES ASSUME NEW b \in B PROVE Left(vec, b) \in Nat
    OBVIOUS
  <2>1. vec \in Seq(Vector) /\ DOMAIN vec \ b.seen \subseteq DOMAIN vec /\ b.open \subseteq DOMAIN vec
    BY DEF Linked, Beams
  <2>2. Cardinality(DOMAIN vec \ b.seen) \in Nat /\ Cardinality(b.open) \in Nat
    BY <2>1, NodesFinite
  <2> QED
    BY <2>2 DEF Left
<1>2. \A b \in B : b \notin stop => b.open # {} /\ next[b] = Widened(vec, links, v, b, ef)
  BY DEF Exhausted
<1>3. Descends(B, Ids, mu, stop, next, base, op)
  <2>1. mu \in [B -> Nat]
    BY <1>1
  <2>2. next \in [B -> B]
    <3> SUFFICES ASSUME NEW b \in B, b.open # {} PROVE Widened(vec, links, v, b, ef) \in B
      OBVIOUS
    <3> QED
      BY WidenedIs
  <2>3. base \in [B -> Ids]
    BY DEF Beams
  <2>4. op \in [B \X Ids -> Ids]
    OBVIOUS
  <2>5. ASSUME NEW b \in B, b \notin stop PROVE mu[next[b]] < mu[b]
    <3>1. b.open # {} /\ next[b] = Widened(vec, links, v, b, ef)
      BY <1>2, <2>5
    <3>2. next[b] \in B /\ Left(vec, next[b]) < Left(vec, b)
      BY <3>1, WidenedIs
    <3> HIDE DEF next
    <3> QED
      BY <3>2
  <2> HIDE DEF B, Ids, mu, stop, next, base, op
  <2> QED
    BY <2>1, <2>2, <2>3, <2>4, <2>5 DEF Descends
<1>4. PICK f : Recurses(f, B, Ids, stop, next, base, op)
  <2> HIDE DEF B, Ids, mu, stop, next, base, op
  <2> QED
    BY <1>3, RecursionAlong
<1>5. f \in [B -> Ids] /\ \A b \in B : f[b] = IF b \in stop THEN base[b] ELSE op[<<b, f[next[b]]>>]
  <2> HIDE DEF B, Ids, stop, next, base, op
  <2> QED
    BY <1>4 DEF Recurses
<1>6. \A b \in B : f[b] = IF Exhausted(vec, v, b, ef) THEN b.found ELSE f[Widened(vec, links, v, b, ef)]
  <2> SUFFICES ASSUME NEW b \in B
               PROVE  f[b] = IF Exhausted(vec, v, b, ef) THEN b.found ELSE f[Widened(vec, links, v, b, ef)]
    OBVIOUS
  <2>1. CASE b \in stop
    BY <1>5, <2>1
  <2>2. CASE b \notin stop
    <3>1. b.open # {} /\ next[b] = Widened(vec, links, v, b, ef)
      BY <1>2, <2>2
    <3>2. next[b] \in B
      BY <3>1, WidenedIs
    <3>3. f[next[b]] \in Ids
      BY <1>5, <3>2
    <3>4. f[b] = op[<<b, f[next[b]]>>]
      BY <1>5, <2>2
    <3>5. op[<<b, f[next[b]]>>] = f[next[b]]
      BY <3>3
    <3>6. ~Exhausted(vec, v, b, ef)
      BY <2>2
    <3> HIDE DEF op, next
    <3> QED
      BY <3>1, <3>4, <3>5, <3>6
  <2> QED
    BY <2>1, <2>2
<1>7. Eq(f)
  <2>1. f = [b \in B |-> f[b]]
    BY <1>5
  <2> HIDE DEF B
  <2> QED
    BY <1>6, <2>1
<1> DEFINE g == CHOOSE h : Eq(h)
<1>8. Eq(g)
  <2> HIDE DEF Eq
  <2> QED
    BY <1>7
<1>9. \A b \in B : g[b] = IF Exhausted(vec, v, b, ef) THEN b.found ELSE g[Widened(vec, links, v, b, ef)]
  <2> HIDE DEF g, B
  <2> QED
    BY <1>8
<1>10. g = [b \in B |-> g[b]]
  <2> HIDE DEF g, B
  <2> QED
    BY <1>8
<1> DEFINE Off == {k \in Nat : \E b \in B : Left(vec, b) = k /\ g[b] \notin Ids}
<1>11. Off = {}
  <2> SUFFICES ASSUME Off # {} PROVE FALSE
    OBVIOUS
  <2>1. PICK k \in Off : \A j \in Off : k <= j
    <3>1. Off \subseteq Nat
      OBVIOUS
    <3> HIDE DEF Off
    <3> QED
      BY <3>1, SmallestOf
  <2> HIDE DEF g
  <2>2. PICK b \in B : Left(vec, b) = k /\ g[b] \notin Ids
    OBVIOUS
  <2>3. CASE Exhausted(vec, v, b, ef)
    <3>1. g[b] = b.found
      BY <1>9, <2>3
    <3> QED
      BY <2>2, <3>1 DEF Beams
  <2>4. CASE ~Exhausted(vec, v, b, ef)
    <3> DEFINE w == Widened(vec, links, v, b, ef)
    <3>1. b.open # {} /\ g[b] = g[w]
      BY <1>9, <2>4 DEF Exhausted
    <3>2. w \in B /\ Left(vec, w) < Left(vec, b) /\ Left(vec, w) \in Nat
      BY <3>1, WidenedIs
    <3> HIDE DEF w
    <3>3. Left(vec, w) \in Off
      BY <2>2, <3>1, <3>2
    <3> QED
      BY <2>1, <2>2, <3>2, <3>3
  <2> QED
    BY <2>3, <2>4
<1>12. g \in [B -> Ids]
  <2>1. \A b \in B : g[b] \in Ids
    <3> HIDE DEF g, B, Ids
    <3> QED
      BY <1>1, <1>11
  <2> HIDE DEF g, B, Ids
  <2> QED
    BY <1>10, <2>1
<1>13. \A e : SearchLayer(vec, links, v, e, ef) = g[[seen |-> {e}, open |-> {e}, found |-> {e}]]
  BY DEF SearchLayer, Beams
<1> HIDE DEF g
<1>14. Beam(g, vec, links, v, ef)
  BY <1>9, <1>12, <1>13 DEF Beam
<1> QED
  BY <1>14

\* A search that begins in a set of nodes that no list leaves finds nodes of it.
LEMMA SearchStaysIn ==
    ASSUME NEW vec, NEW links, Linked(vec, links), NEW v \in Vector, NEW ef \in Nat \ {0},
           NEW C, C \subseteq DOMAIN vec, \A i \in C : links[i] \subseteq C, NEW e \in C
    PROVE  /\ SearchLayer(vec, links, v, e, ef) \subseteq C
           /\ SearchLayer(vec, links, v, e, ef) # {}
<1> DEFINE In(b) == b.open \subseteq C /\ b.found \subseteq C /\ b.found # {}
           Good(r) == r \subseteq C /\ r # {}
<1>0. ef \in Nat /\ ef # 0 /\ vec \in Seq(Vector) /\ links \in [DOMAIN vec -> SUBSET DOMAIN vec]
  BY DEF Linked
<1>1. PICK f : Beam(f, vec, links, v, ef)
  BY <1>0, SearchLayerIs
<1>2. /\ \A b \in Beams(vec) :
            f[b] = IF Exhausted(vec, v, b, ef) THEN b.found ELSE f[Widened(vec, links, v, b, ef)]
      /\ \A x : SearchLayer(vec, links, v, x, ef) = f[[seen |-> {x}, open |-> {x}, found |-> {x}]]
  BY <1>1 DEF Beam
<1> DEFINE Off == {k \in Nat : \E b \in Beams(vec) : In(b) /\ Left(vec, b) = k /\ ~Good(f[b])}
<1>3. Off = {}
  <2> SUFFICES ASSUME Off # {} PROVE FALSE
    OBVIOUS
  <2>1. PICK k \in Off : \A j \in Off : k <= j
    <3>1. Off \subseteq Nat
      OBVIOUS
    <3> HIDE DEF Off
    <3> QED
      BY <3>1, SmallestOf
  <2>2. PICK b \in Beams(vec) : In(b) /\ Left(vec, b) = k /\ ~Good(f[b])
    OBVIOUS
  <2>3. CASE Exhausted(vec, v, b, ef)
    BY <1>2, <2>2, <2>3
  <2>4. CASE ~Exhausted(vec, v, b, ef)
    <3> DEFINE current == Nearest(vec, v, b.open)
               new     == links[current] \ b.seen
               kept    == Best(vec, v, ef, b.found \cup new)
               w       == Widened(vec, links, v, b, ef)
    <3>1. b.open # {} /\ f[b] = f[w]
      BY <1>2, <2>4 DEF Exhausted
    <3>2. w \in Beams(vec) /\ Left(vec, w) < Left(vec, b) /\ Left(vec, w) \in Nat
      BY <1>0, <3>1, WidenedIs
    <3>3. current \in b.open
      BY <1>0, <2>2, <3>1, NearestIs
    <3>4. new \subseteq C /\ b.found \cup new # {} /\ b.found \cup new \subseteq DOMAIN vec
      BY <2>2, <3>3
    <3>5. kept \subseteq C /\ kept # {}
      <4> DEFINE all == b.found \cup new
      <4>1. all \subseteq C /\ all # {} /\ all \subseteq DOMAIN vec
        BY <2>2, <3>4
      <4> HIDE DEF all
      <4>2. Best(vec, v, ef, all) \subseteq all /\ Nearest(vec, v, all) \in Best(vec, v, ef, all)
        BY <1>0, <4>1, BestIs
      <4> QED
        BY <4>1, <4>2 DEF all
    <3>6. w.open = (b.open \ {current}) \cup (new \cap kept) /\ w.found = kept
      BY DEF Widened
    <3>7. In(w)
      <4> HIDE DEF current, new, kept, w
      <4> QED
        BY <2>2, <3>4, <3>5, <3>6
    <3> HIDE DEF w, Good, In
    <3>8. Left(vec, w) \in Off
      BY <2>2, <3>1, <3>2, <3>7
    <3> QED
      BY <2>1, <2>2, <3>2, <3>8
  <2> QED
    BY <2>3, <2>4
<1> DEFINE b == [seen |-> {e}, open |-> {e}, found |-> {e}]
<1>4. b \in Beams(vec) /\ In(b)
  BY DEF Beams
<1>5. Left(vec, b) \in Nat
  <2>1. b.open # {}
    OBVIOUS
  <2> HIDE DEF b
  <2> QED
    BY <1>0, <1>4, <2>1, WidenedIs
<1>6. Good(f[b])
  <2> HIDE DEF b, Good, In
  <2> QED
    BY <1>3, <1>4, <1>5
<1> QED
  BY <1>2, <1>6

\* Where every node of the set is linked with every other, the search finds the best of it.
LEMMA SearchFindsBest ==
    ASSUME NEW vec, NEW links, Linked(vec, links), NEW v \in Vector, NEW ef \in Nat \ {0},
           NEW C, C \subseteq DOMAIN vec, \A i \in C : links[i] = C \ {i}, NEW e \in C
    PROVE  SearchLayer(vec, links, v, e, ef) = Best(vec, v, ef, C)
<1> DEFINE B     == Best(vec, v, ef, C)
           In(b) == b.open \subseteq C /\ C \subseteq b.seen /\ b.found = B
<1>0. ef \in Nat /\ ef # 0 /\ vec \in Seq(Vector) /\ links \in [DOMAIN vec -> SUBSET DOMAIN vec]
  BY DEF Linked
<1>1. PICK f : Beam(f, vec, links, v, ef)
  BY <1>0, SearchLayerIs
<1>2. /\ \A b \in Beams(vec) :
            f[b] = IF Exhausted(vec, v, b, ef) THEN b.found ELSE f[Widened(vec, links, v, b, ef)]
      /\ \A x : SearchLayer(vec, links, v, x, ef) = f[[seen |-> {x}, open |-> {x}, found |-> {x}]]
  BY <1>1 DEF Beam
<1>3. Best(vec, v, ef, B) = B
  BY <1>0, BestIs
<1> DEFINE Off == {k \in Nat : \E b \in Beams(vec) : In(b) /\ Left(vec, b) = k /\ f[b] # B}
<1>4. Off = {}
  <2> SUFFICES ASSUME Off # {} PROVE FALSE
    OBVIOUS
  <2>1. PICK k \in Off : \A j \in Off : k <= j
    <3>1. Off \subseteq Nat
      OBVIOUS
    <3> HIDE DEF Off
    <3> QED
      BY <3>1, SmallestOf
  <2>2. PICK b \in Beams(vec) : In(b) /\ Left(vec, b) = k /\ f[b] # B
    OBVIOUS
  <2>3. CASE Exhausted(vec, v, b, ef)
    BY <1>2, <2>2, <2>3
  <2>4. CASE ~Exhausted(vec, v, b, ef)
    <3> DEFINE current == Nearest(vec, v, b.open)
               new     == links[current] \ b.seen
               kept    == Best(vec, v, ef, b.found \cup new)
               w       == Widened(vec, links, v, b, ef)
    <3>1. b.open # {} /\ f[b] = f[w]
      BY <1>2, <2>4 DEF Exhausted
    <3>2. w \in Beams(vec) /\ Left(vec, w) < Left(vec, b) /\ Left(vec, w) \in Nat
      BY <1>0, <3>1, WidenedIs
    <3>3. current \in b.open
      BY <1>0, <2>2, <3>1, NearestIs
    <3>4. new = {}
      BY <2>2, <3>3
    <3>5. kept = B
      <4>1. b.found \cup new = B
        BY <2>2, <3>4
      <4> QED
        BY <1>3, <4>1
    <3>6. /\ w.open = (b.open \ {current}) \cup (new \cap kept) /\ w.found = kept
          /\ w.seen = b.seen \cup new
      BY DEF Widened
    <3>7. In(w)
      <4> HIDE DEF current, new, kept, w, B
      <4> QED
        BY <2>2, <3>4, <3>5, <3>6
    <3> HIDE DEF w, B, In
    <3>8. Left(vec, w) \in Off
      BY <2>2, <3>1, <3>2, <3>7
    <3> QED
      BY <2>1, <2>2, <3>2, <3>8
  <2> QED
    BY <2>3, <2>4
<1> DEFINE b == [seen |-> {e}, open |-> {e}, found |-> {e}]
           w == Widened(vec, links, v, b, ef)
<1>5. b \in Beams(vec)
  BY DEF Beams
<1>6. Nearest(vec, v, {e}) = e /\ Farthest(vec, v, {e}) = e
  <2>1. \A i \in {e} : {e} \ {i} = {}
    OBVIOUS
  <2> QED
    BY <2>1 DEF Nearest, Farthest
<1>7. ~Exhausted(vec, v, b, ef)
  <2>1. Distance(vec[e], v) \in Nat
    BY <1>0, Nearness
  <2> QED
    BY <1>6, <2>1 DEF Exhausted
<1>8. w \in Beams(vec) /\ Left(vec, w) \in Nat /\ f[b] = f[w]
  <2>1. b.open # {}
    OBVIOUS
  <2> HIDE DEF b
  <2> QED
    BY <1>0, <1>2, <1>5, <1>7, <2>1, WidenedIs
<1>9. In(w)
  <2>1. links[e] \ {e} = C \ {e} /\ {e} \cup (C \ {e}) = C
    OBVIOUS
  <2>2. /\ w.open = ({e} \ {e}) \cup ((C \ {e}) \cap Best(vec, v, ef, C)) /\ w.found = B
        /\ w.seen = {e} \cup (C \ {e})
    BY <1>6, <2>1 DEF Widened
  <2> HIDE DEF w, B
  <2> QED
    BY <2>1, <2>2
<1>10. f[b] = B
  <2> HIDE DEF b, w, B, In
  <2> QED
    BY <1>4, <1>8, <1>9
<1> QED
  BY <1>2, <1>10

\* A greedy walk ends in any set of nodes that no list leaves, where it began in it.
LEMMA GreedyStaysIn ==
    ASSUME NEW vec, NEW links, Linked(vec, links), NEW v \in Vector,
           NEW C, C \subseteq DOMAIN vec, \A i \in C : links[i] \subseteq C, NEW e \in C
    PROVE  GreedyClosest(vec, links, v, e) \in C
<1> DEFINE D         == DOMAIN vec
           far       == [i \in D |-> Distance(vec[i], v)]
           better(i) == {j \in links[i] : Distance(vec[j], v) < Distance(vec[i], v)}
           Eq(f)     == f = [i \in D |-> IF better(i) = {} THEN i ELSE f[Nearest(vec, v, better(i))]]
           stop      == {i \in D : better(i) = {}}
           next      == [i \in D |-> IF better(i) = {} THEN i ELSE Nearest(vec, v, better(i))]
           base      == [i \in D |-> i]
           op        == [x \in D \X D |-> x[2]]
<1>0. vec \in Seq(Vector) /\ links \in [D -> SUBSET D]
  BY DEF Linked
<1>1. \A i \in D : far[i] \in Nat /\ far[i] = Distance(vec[i], v)
  BY <1>0, Nearness
<1>2. ASSUME NEW i \in D, better(i) # {}
      PROVE  Nearest(vec, v, better(i)) \in links[i] /\ far[Nearest(vec, v, better(i))] < far[i]
             /\ Nearest(vec, v, better(i)) \in D
  <2>1. better(i) \subseteq D
    BY <1>0
  <2>2. Nearest(vec, v, better(i)) \in better(i)
    <3> HIDE DEF better
    <3> QED
      BY <1>0, <1>2, <2>1, NearestIs
  <2> QED
    BY <1>1, <2>1, <2>2
<1>3. Descends(D, D, far, stop, next, base, op)
  <2>1. far \in [D -> Nat] /\ base \in [D -> D] /\ op \in [D \X D -> D]
    BY <1>1
  <2>2. next \in [D -> D]
    BY <1>2
  <2>3. ASSUME NEW i \in D, i \notin stop PROVE far[next[i]] < far[i]
    <3>1. better(i) # {} /\ next[i] = Nearest(vec, v, better(i))
      BY <2>3
    <3> HIDE DEF better, far, next
    <3> QED
      BY <1>2, <3>1
  <2> HIDE DEF D, far, stop, next, base, op
  <2> QED
    BY <2>1, <2>2, <2>3 DEF Descends
<1>4. PICK f : Recurses(f, D, D, stop, next, base, op)
  <2> HIDE DEF D, far, stop, next, base, op
  <2> QED
    BY <1>3, RecursionAlong
<1>5. f \in [D -> D] /\ \A i \in D : f[i] = IF i \in stop THEN base[i] ELSE op[<<i, f[next[i]]>>]
  <2> HIDE DEF D, stop, next, base, op
  <2> QED
    BY <1>4 DEF Recurses
<1>6. \A i \in D : f[i] = IF better(i) = {} THEN i ELSE f[Nearest(vec, v, better(i))]
  <2> SUFFICES ASSUME NEW i \in D PROVE f[i] = IF better(i) = {} THEN i ELSE f[Nearest(vec, v, better(i))]
    OBVIOUS
  <2> HIDE DEF better
  <2>1. CASE better(i) = {}
    BY <1>5, <2>1
  <2>2. CASE better(i) # {}
    <3> DEFINE n == Nearest(vec, v, better(i))
    <3>1. next[i] = n /\ n \in D /\ i \notin stop
      BY <1>2, <2>2
    <3>2. f[n] \in D /\ f[i] = op[<<i, f[n]>>]
      BY <1>5, <3>1
    <3>3. op[<<i, f[n]>>] = f[n]
      BY <3>2
    <3> HIDE DEF n
    <3> QED
      BY <2>2, <3>2, <3>3 DEF n
  <2> QED
    BY <2>1, <2>2
<1>7. Eq(f)
  <2>1. f = [i \in D |-> f[i]]
    BY <1>5
  <2> HIDE DEF D, better
  <2> QED
    BY <1>6, <2>1
<1> DEFINE g == CHOOSE h : Eq(h)
<1>8. Eq(g)
  <2> HIDE DEF Eq
  <2> QED
    BY <1>7
<1>9. \A i \in D : g[i] = IF better(i) = {} THEN i ELSE g[Nearest(vec, v, better(i))]
  <2> HIDE DEF g, D, better
  <2> QED
    BY <1>8
<1> DEFINE Off == {k \in Nat : \E i \in C : far[i] = k /\ g[i] \notin C}
<1>10. Off = {}
  <2> SUFFICES ASSUME Off # {} PROVE FALSE
    OBVIOUS
  <2>1. PICK k \in Off : \A j \in Off : k <= j
    <3>1. Off \subseteq Nat
      OBVIOUS
    <3> HIDE DEF Off
    <3> QED
      BY <3>1, SmallestOf
  <2> HIDE DEF g
  <2>2. PICK i \in C : far[i] = k /\ g[i] \notin C
    OBVIOUS
  <2>3. better(i) # {} /\ g[i] = g[Nearest(vec, v, better(i))]
    <3> HIDE DEF better
    <3> QED
      BY <1>9, <2>2
  <2> DEFINE n == Nearest(vec, v, better(i))
  <2>4. n \in C /\ far[n] < far[i] /\ far[n] \in Nat
    <3> HIDE DEF better, far
    <3> QED
      BY <1>1, <1>2, <2>3
  <2> HIDE DEF n, better, far
  <2>5. far[n] \in Off
    BY <2>2, <2>3, <2>4 DEF n
  <2> QED
    BY <1>1, <2>1, <2>2, <2>4, <2>5
<1>11. GreedyClosest(vec, links, v, e) = g[e]
  BY DEF GreedyClosest
<1> QED
  <2> HIDE DEF g, far
  <2> QED
    BY <1>1, <1>10, <1>11

\* Both indexes descend from the entry point alike, and search the layers of a
\* new node alike.
Descent(vec, lists, v, first, layer, top) ==
    LET down[l \in layer..top] ==
            IF l = top THEN first ELSE GreedyClosest(vec, lists[l + 1], v, down[l + 1])
    IN  down[layer]

Searched(vec, lists, v, first, top) ==
    LET found[l \in 0..top] ==
            SearchLayer(vec, lists[l], v,
                IF l = top THEN first ELSE Nearest(vec, v, found[l + 1]), EfConstruction)
    IN  found

\* Nodes of the layers of an index that no list of the layer leaves, more of them
\* the lower the layer.
Layered(vec, lists, at, layer, top) ==
    /\ vec \in Seq(Vector) /\ layer \in Nat /\ top \in Nat /\ layer <= top
    /\ \A l \in layer..top : /\ at[l] \subseteq DOMAIN vec /\ Linked(vec, lists[l])
                             /\ \A i \in at[l] : lists[l][i] \subseteq at[l]
    /\ \A l \in layer..(top - 1) : at[l + 1] \subseteq at[l]

\* A descent stays within nodes that the lists do not leave.
LEMMA DescentStaysIn ==
    ASSUME NEW vec, NEW lists, NEW at, NEW layer, NEW top, Layered(vec, lists, at, layer, top),
           NEW v \in Vector, NEW first \in at[top]
    PROVE  Descent(vec, lists, v, first, layer, top) \in at[layer]
<1> DEFINE S    == layer..top
           D    == DOMAIN vec
           Eq(f) == f = [l \in S |-> IF l = top THEN first ELSE GreedyClosest(vec, lists[l + 1], v, f[l + 1])]
           mu   == [l \in S |-> top - l]
           next == [l \in S |-> IF l = top THEN l ELSE l + 1]
           base == [l \in S |-> first]
           op   == [x \in S \X D |-> IF x[1] = top THEN first ELSE GreedyClosest(vec, lists[x[1] + 1], v, x[2])]
<1>0. /\ vec \in Seq(Vector) /\ layer \in Nat /\ top \in Nat /\ layer <= top
      /\ \A l \in layer..top : /\ at[l] \subseteq DOMAIN vec /\ Linked(vec, lists[l])
                               /\ \A i \in at[l] : lists[l][i] \subseteq at[l]
      /\ \A l \in layer..(top - 1) : at[l + 1] \subseteq at[l]
  BY DEF Layered
<1>1. /\ \A l \in S : l \in Nat /\ (l # top => l + 1 \in S /\ l \in layer..(top - 1))
      /\ top \in S /\ layer \in S /\ first \in D
  BY <1>0
<1>2. \A l \in S : \A i \in D : GreedyClosest(vec, lists[l], v, i) \in D
  <2> SUFFICES ASSUME NEW l \in S, NEW i \in D PROVE GreedyClosest(vec, lists[l], v, i) \in D
    OBVIOUS
  <2>1. Linked(vec, lists[l]) /\ \A j \in D : lists[l][j] \subseteq D
    BY <1>0 DEF Linked
  <2> QED
    BY <2>1, GreedyStaysIn
<1>3. Descends(S, D, mu, {top}, next, base, op)
  <2>1. mu \in [S -> Nat] /\ next \in [S -> S] /\ base \in [S -> D]
    BY <1>0, <1>1
  <2>2. op \in [S \X D -> D]
    <3> SUFFICES ASSUME NEW l \in S, NEW i \in D, l # top PROVE GreedyClosest(vec, lists[l + 1], v, i) \in D
      BY <1>1
    <3>1. l + 1 \in S
      BY <1>1
    <3> QED
      BY <1>2, <3>1
  <2>3. \A l \in S : l \notin {top} => mu[next[l]] < mu[l]
    BY <1>0, <1>1
  <2> HIDE DEF S, D, mu, next, base, op
  <2> QED
    BY <2>1, <2>2, <2>3 DEF Descends
<1>4. PICK f : Recurses(f, S, D, {top}, next, base, op)
  <2> HIDE DEF S, D, mu, next, base, op
  <2> QED
    BY <1>3, RecursionAlong
<1>5. f \in [S -> D] /\ \A l \in S : f[l] = IF l \in {top} THEN base[l] ELSE op[<<l, f[next[l]]>>]
  <2> HIDE DEF S, D, next, base, op
  <2> QED
    BY <1>4 DEF Recurses
<1>6. \A l \in S : f[l] = IF l = top THEN first ELSE GreedyClosest(vec, lists[l + 1], v, f[l + 1])
  <2> SUFFICES ASSUME NEW l \in S
               PROVE  f[l] = IF l = top THEN first ELSE GreedyClosest(vec, lists[l + 1], v, f[l + 1])
    OBVIOUS
  <2>1. CASE l = top
    BY <1>5, <2>1
  <2>2. CASE l # top
    <3>1. l + 1 \in S /\ next[l] = l + 1 /\ f[l + 1] \in D
      BY <1>1, <1>5, <2>2
    <3>2. f[l] = op[<<l, f[l + 1]>>]
      BY <1>5, <2>2, <3>1
    <3>3. op[<<l, f[l + 1]>>] = GreedyClosest(vec, lists[l + 1], v, f[l + 1])
      BY <2>2, <3>1
    <3> QED
      BY <2>2, <3>2, <3>3
  <2> QED
    BY <2>1, <2>2
<1>7. Eq(f)
  <2>1. f = [l \in S |-> f[l]]
    BY <1>5
  <2> HIDE DEF S
  <2> QED
    BY <1>6, <2>1
<1> DEFINE g == CHOOSE h : Eq(h)
<1>8. Eq(g)
  <2> HIDE DEF Eq
  <2> QED
    BY <1>7
<1>9. \A l \in S : g[l] = IF l = top THEN first ELSE GreedyClosest(vec, lists[l + 1], v, g[l + 1])
  <2> HIDE DEF g, S
  <2> QED
    BY <1>8
<1>10. Descent(vec, lists, v, first, layer, top) = g[layer]
  BY DEF Descent
<1> HIDE DEF g
<1> DEFINE Off == {k \in Nat : \E l \in S : top - l = k /\ g[l] \notin at[l]}
<1>11. Off = {}
  <2> SUFFICES ASSUME Off # {} PROVE FALSE
    OBVIOUS
  <2>1. PICK k \in Off : \A j \in Off : k <= j
    <3>1. Off \subseteq Nat
      OBVIOUS
    <3> HIDE DEF Off
    <3> QED
      BY <3>1, SmallestOf
  <2>2. PICK l \in S : top - l = k /\ g[l] \notin at[l]
    OBVIOUS
  <2>3. l # top /\ g[l] = GreedyClosest(vec, lists[l + 1], v, g[l + 1])
    <3> HIDE DEF S
    <3> QED
      BY <1>9, <2>2
  <2>4. l + 1 \in S /\ at[l + 1] \subseteq at[l]
    BY <1>0, <1>1, <2>3
  <2>5. g[l + 1] \in at[l + 1]
    <3> SUFFICES ASSUME g[l + 1] \notin at[l + 1] PROVE FALSE
      OBVIOUS
    <3>1. top - (l + 1) \in Nat /\ top - (l + 1) < k
      BY <1>0, <2>2, <2>4
    <3>2. top - (l + 1) \in Off
      BY <2>4, <3>1
    <3> QED
      BY <2>1, <3>1, <3>2
  <2>6. GreedyClosest(vec, lists[l + 1], v, g[l + 1]) \in at[l + 1]
    <3> DEFINE u == l + 1
    <3>1. at[u] \subseteq DOMAIN vec /\ Linked(vec, lists[u]) /\ (\A i \in at[u] : lists[u][i] \subseteq at[u])
          /\ g[u] \in at[u]
      BY <1>0, <2>4, <2>5
    <3> HIDE DEF u
    <3>2. GreedyClosest(vec, lists[u], v, g[u]) \in at[u]
      BY <3>1, GreedyStaysIn
    <3> QED
      BY <3>2 DEF u
  <2> QED
    BY <2>2, <2>3, <2>4, <2>6
<1>12. top - layer \in Nat /\ layer \in S
  BY <1>0
<1> QED
  BY <1>10, <1>11, <1>12

FoundAmong(vec, lists, v, at, top, found) ==
    /\ \A l \in 0..top : found[l] \subseteq at[l] /\ found[l] # {}
    /\ (\A i \in at[0] : lists[0][i] = at[0] \ {i}) => found[0] = Best(vec, v, EfConstruction, at[0])

\* So does what the layers of an insertion find.
LEMMA SearchedStaysIn ==
    ASSUME NEW vec, NEW lists, NEW at, NEW top, Layered(vec, lists, at, 0, top),
           NEW v \in Vector, NEW first \in at[top]
    PROVE  FoundAmong(vec, lists, v, at, top, Searched(vec, lists, v, first, top))
<1> DEFINE S    == 0..top
           D    == DOMAIN vec
           W    == (SUBSET D) \ {{}}
           Step(l, r) == SearchLayer(vec, lists[l], v, IF l = top THEN first ELSE Nearest(vec, v, r), EfConstruction)
           Eq(f) == f = [l \in S |-> Step(l, f[l + 1])]
           mu   == [l \in S |-> top - l]
           next == [l \in S |-> IF l = top THEN l ELSE l + 1]
           base == [l \in S |-> Step(top, {})]
           op   == [x \in S \X W |-> Step(x[1], x[2])]
<1>0. /\ vec \in Seq(Vector) /\ top \in Nat /\ EfConstruction \in Nat \ {0}
      /\ \A l \in 0..top : /\ at[l] \subseteq DOMAIN vec /\ Linked(vec, lists[l])
                           /\ \A i \in at[l] : lists[l][i] \subseteq at[l]
      /\ \A l \in 0..(top - 1) : at[l + 1] \subseteq at[l]
  BY IndexAssumption DEF Layered
<1>1. /\ \A l \in S : l \in Nat /\ (l # top => l + 1 \in S /\ l \in 0..(top - 1))
      /\ top \in S /\ 0 \in S /\ first \in D
  BY <1>0
<1>2. ASSUME NEW l \in S, NEW r, l = top \/ r \in W PROVE Step(l, r) \in W
  <2> DEFINE e == IF l = top THEN first ELSE Nearest(vec, v, r)
  <2>1. e \in D
    BY <1>0, <1>1, <1>2, NearestIs
  <2>2. Linked(vec, lists[l]) /\ \A j \in D : lists[l][j] \subseteq D
    BY <1>0 DEF Linked
  <2> HIDE DEF e
  <2>3. SearchLayer(vec, lists[l], v, e, EfConstruction) \subseteq D
        /\ SearchLayer(vec, lists[l], v, e, EfConstruction) # {}
    BY <1>0, <2>1, <2>2, SearchStaysIn
  <2> QED
    BY <2>3 DEF e
<1>3. Descends(S, W, mu, {top}, next, base, op)
  <2>1. mu \in [S -> Nat] /\ next \in [S -> S]
    BY <1>0, <1>1
  <2>2. base \in [S -> W]
    <3>1. Step(top, {}) \in W
      BY <1>1, <1>2
    <3> HIDE DEF W, S, Step
    <3> QED
      BY <3>1
  <2>3. op \in [S \X W -> W]
    <3>1. ASSUME NEW x \in S \X W PROVE Step(x[1], x[2]) \in W
      <4>1. x[1] \in S /\ x[2] \in W
        OBVIOUS
      <4> HIDE DEF W, S, Step
      <4> QED
        BY <1>2, <4>1
    <3> HIDE DEF W, S, Step
    <3> QED
      BY <3>1
  <2>4. \A l \in S : l \notin {top} => mu[next[l]] < mu[l]
    BY <1>0, <1>1
  <2> HIDE DEF S, W, mu, next, base, op
  <2> QED
    BY <2>1, <2>2, <2>3, <2>4 DEF Descends
<1>4. PICK f : Recurses(f, S, W, {top}, next, base, op)
  <2> HIDE DEF S, W, mu, next, base, op
  <2> QED
    BY <1>3, RecursionAlong
<1>5. f \in [S -> W] /\ \A l \in S : f[l] = IF l \in {top} THEN base[l] ELSE op[<<l, f[next[l]]>>]
  <2> HIDE DEF S, W, next, base, op
  <2> QED
    BY <1>4 DEF Recurses
<1>6. \A l \in S : f[l] = Step(l, f[l + 1])
  <2> SUFFICES ASSUME NEW l \in S PROVE f[l] = Step(l, f[l + 1])
    OBVIOUS
  <2>1. CASE l = top
    <3>1. f[l] = base[top]
      BY <1>1, <1>5, <2>1
    <3>2. base[top] = Step(top, {})
      BY <1>1
    <3>3. Step(top, {}) = Step(top, f[l + 1])
      OBVIOUS
    <3> HIDE DEF Step, base
    <3> QED
      BY <2>1, <3>1, <3>2, <3>3
  <2>2. CASE l # top
    <3>1. l + 1 \in S /\ next[l] = l + 1 /\ f[l + 1] \in W
      <4> HIDE DEF W
      <4> QED
        BY <1>1, <1>5, <2>2
    <3>2. f[l] = op[<<l, f[l + 1]>>]
      <4> HIDE DEF W, op, base
      <4> QED
        BY <1>5, <2>2, <3>1
    <3>3. op[<<l, f[l + 1]>>] = Step(l, f[l + 1])
      <4> HIDE DEF Step, W
      <4> QED
        BY <3>1
    <3> HIDE DEF Step, op
    <3> QED
      BY <3>2, <3>3
  <2> QED
    BY <2>1, <2>2
<1>7. Eq(f)
  <2>1. f = [l \in S |-> f[l]]
    BY <1>5
  <2> HIDE DEF S, Step
  <2> QED
    BY <1>6, <2>1
<1> DEFINE g == CHOOSE h : Eq(h)
<1>8. Eq(g)
  <2> HIDE DEF Eq
  <2> QED
    BY <1>7
<1>9. \A l \in S : g[l] = Step(l, g[l + 1])
  <2> HIDE DEF g, S, Step
  <2> QED
    BY <1>8
<1>10. Searched(vec, lists, v, first, top) = g
  BY DEF Searched
<1> HIDE DEF g
<1> DEFINE From(l) == IF l = top THEN first ELSE Nearest(vec, v, g[l + 1])
           Good(l) == g[l] \subseteq at[l] /\ g[l] # {}
           Off     == {k \in Nat : \E l \in S : top - l = k /\ ~Good(l)}
<1>11. ASSUME NEW l \in S, l = top \/ Good(l + 1) PROVE From(l) \in at[l]
  <2>1. CASE l = top
    BY <2>1
  <2>2. CASE l # top
    <3> DEFINE u == l + 1
    <3>1. g[u] \subseteq at[u] /\ g[u] # {} /\ at[u] \subseteq at[l] /\ at[u] \subseteq D
      BY <1>0, <1>1, <1>11, <2>2
    <3> HIDE DEF u
    <3>2. Nearest(vec, v, g[u]) \in g[u]
      BY <1>0, <3>1, NearestIs
    <3> QED
      BY <2>2, <3>1, <3>2 DEF u
  <2> QED
    BY <2>1, <2>2
<1>12. ASSUME NEW l \in S, From(l) \in at[l] PROVE Good(l)
  <2> HIDE DEF From
  <2>1. /\ at[l] \subseteq D /\ Linked(vec, lists[l])
        /\ \A i \in at[l] : lists[l][i] \subseteq at[l]
    BY <1>0
  <2>2. SearchLayer(vec, lists[l], v, From(l), EfConstruction) \subseteq at[l]
        /\ SearchLayer(vec, lists[l], v, From(l), EfConstruction) # {}
    BY <1>0, <1>12, <2>1, SearchStaysIn
  <2>3. g[l] = SearchLayer(vec, lists[l], v, From(l), EfConstruction)
    BY <1>9 DEF From
  <2> QED
    BY <2>2, <2>3
<1>13. Off = {}
  <2> SUFFICES ASSUME Off # {} PROVE FALSE
    OBVIOUS
  <2>1. PICK k \in Off : \A j \in Off : k <= j
    <3>1. Off \subseteq Nat
      OBVIOUS
    <3> HIDE DEF Off
    <3> QED
      BY <3>1, SmallestOf
  <2> HIDE DEF Good, From
  <2>2. PICK l \in S : top - l = k /\ ~Good(l)
    OBVIOUS
  <2>3. l # top /\ ~Good(l + 1)
    BY <1>11, <1>12, <2>2
  <2>4. l + 1 \in S /\ top - (l + 1) \in Nat /\ top - (l + 1) < k
    BY <1>0, <1>1, <2>2, <2>3
  <2>5. top - (l + 1) \in Off
    BY <2>3, <2>4
  <2> QED
    BY <2>1, <2>4, <2>5
<1>14. \A l \in S : Good(l)
  <2>1. \A l \in S : top - l \in Nat
    BY <1>0
  <2> HIDE DEF Good, S
  <2> QED
    BY <1>13, <2>1
<1>15. ASSUME \A i \in at[0] : lists[0][i] = at[0] \ {i}
       PROVE  g[0] = Best(vec, v, EfConstruction, at[0])
  <2>1. From(0) \in at[0]
    <3>1. 0 = top \/ Good(0 + 1)
      <4> HIDE DEF Good
      <4> QED
        BY <1>1, <1>14
    <3> HIDE DEF Good, From
    <3> QED
      BY <1>1, <1>11, <3>1
  <2>2. g[0] = SearchLayer(vec, lists[0], v, From(0), EfConstruction)
    BY <1>1, <1>9 DEF From
  <2> DEFINE A == at[0]
             K == lists[0]
             e == From(0)
  <2>3. A \subseteq D /\ Linked(vec, K) /\ e \in A /\ \A i \in A : K[i] = A \ {i}
    <3> HIDE DEF From
    <3> QED
      BY <1>0, <1>15, <2>1
  <2> HIDE DEF A, K, e
  <2>4. SearchLayer(vec, K, v, e, EfConstruction) = Best(vec, v, EfConstruction, A)
    <3>1. /\ A \subseteq DOMAIN vec /\ Linked(vec, K) /\ e \in A /\ \A i \in A : K[i] = A \ {i}
          /\ EfConstruction \in Nat \ {0}
      BY <1>0, <2>3
    <3> HIDE DEF D
    <3> QED
      BY <3>1, SearchFindsBest
  <2> QED
    BY <2>2, <2>4 DEF A, K, e
<1> QED
  BY <1>10, <1>14, <1>15 DEF FoundAmong

-----------------------------------------------------------------------------
\* An index whose lists lead to its own nodes, and in which every node of layer 0
\* is linked with every other while the lists need no cut.
Indexed(vec, lists) ==
    /\ vec \in Seq(Vector)
    /\ \A l \in Layer : lists[l] \in Seq(SUBSET (1..Len(vec))) /\ Len(lists[l]) = Len(vec)
    /\ Len(vec) <= 2 * M + 1 => \A i \in 1..Len(vec) : lists[0][i] = (1..Len(vec)) \ {i}

\* A layer of an index leads to nodes of the index.
LEMMA IndexedLinks ==
    ASSUME NEW vec, NEW lists, Indexed(vec, lists), NEW l \in Layer
    PROVE  DOMAIN vec = 1..Len(vec) /\ Linked(vec, lists[l])
<1>1. vec \in Seq(Vector) /\ lists[l] \in Seq(SUBSET (1..Len(vec))) /\ Len(lists[l]) = Len(vec)
  BY DEF Indexed
<1>2. DOMAIN vec = 1..Len(vec)
  BY <1>1
<1> DEFINE S == SUBSET (1..Len(vec))
<1>3. lists[l] \in [1..Len(vec) -> S]
  <2> HIDE DEF S
  <2> QED
    BY <1>1 DEF S
<1> QED
  BY <1>1, <1>2, <1>3 DEF Linked

\* A layer of an index of n nodes that one more joins, and what it changes there.
Joining(vec, n, links, S, l) ==
    /\ vec \in Seq(Vector) /\ n \in Nat /\ Len(vec) = n + 1 /\ l \in Layer
    /\ links \in [1..(n + 1) -> SUBSET (1..n)] /\ S \subseteq 1..n

Joined(lists, n, links, S, l) ==
    /\ lists \in [1..(n + 1) -> SUBSET (1..(n + 1))]
    /\ lists[n + 1] \subseteq S
    /\ \A i \in 1..n : lists[i] \subseteq links[i] \cup {n + 1} /\ (i \notin S => lists[i] = links[i])
    /\ (/\ l = 0 /\ n <= 2 * M /\ S = 1..n
        /\ \A i \in 1..n : links[i] = (1..n) \ {i})
         => \A i \in 1..(n + 1) : lists[i] = (1..(n + 1)) \ {i}

\* Linking a node changes the lists of the chosen nodes only, and leaves every
\* node linked with every other while the lists need no cut.
LEMMA LinkIs ==
    ASSUME NEW vec, NEW n, NEW links, NEW S, NEW l, Joining(vec, n, links, S, l)
    PROVE  Joined(Link(vec, links, n + 1, S, l), n, links, S, l)
<1> /\ vec \in Seq(Vector) /\ n \in Nat /\ Len(vec) = n + 1 /\ l \in Layer
    /\ links \in [1..(n + 1) -> SUBSET (1..n)] /\ S \subseteq 1..n
  BY DEF Joining
<1> DEFINE new    == n + 1
           lists  == Link(vec, links, new, S, l)
           D      == 1..new
           m      == MaxConn(l)
           chosen == Best(vec, vec[new], m, S)
           more(i) == links[i] \cup {new}
<1>1. DOMAIN vec = D /\ new \in D /\ (\A i \in D : vec[i] \in Vector) /\ S \subseteq D
  BY DEF D
<1>2. m \in Nat /\ (l = 0 => m = 2 * M)
  BY IndexAssumption DEF MaxConn
<1>3. chosen \subseteq S
  <2> HIDE DEF m, D, new
  <2> QED
    BY <1>1, <1>2, BestIs
<1>4. \A i \in D : more(i) \subseteq D
  <2> SUFFICES ASSUME NEW i \in D PROVE more(i) \subseteq D
    OBVIOUS
  <2>1. links[i] \subseteq 1..n
    BY DEF D
  <2>2. 1..n \subseteq D
    BY DEF D
  <2> QED
    BY <1>1, <2>1, <2>2
<1>5. \A i \in D : Best(vec, vec[i], m, more(i)) \subseteq more(i)
  <2> SUFFICES ASSUME NEW i \in D PROVE Best(vec, vec[i], m, more(i)) \subseteq more(i)
    OBVIOUS
  <2>1. more(i) \subseteq D
    BY <1>4
  <2> HIDE DEF m, D, more
  <2> QED
    BY <1>1, <1>2, <2>1, BestIs
<1>6. lists = [i \in D |-> IF i = new THEN chosen
                           ELSE IF i \in chosen THEN Best(vec, vec[i], m, more(i)) ELSE links[i]]
  BY DEF Link, SelectNeighbors
<1>7. \A i \in D : lists[i] = IF i = new THEN chosen
                              ELSE IF i \in chosen THEN Best(vec, vec[i], m, more(i)) ELSE links[i]
  <2> HIDE DEF lists, D, new, m, chosen, more
  <2> QED
    BY <1>6
<1>8. \A i \in D : lists[i] \in SUBSET D
  <2>1. \A i \in D : links[i] \subseteq D
    BY <1>4
  <2> HIDE DEF lists, D, new, m, chosen, more
  <2> QED
    BY <1>1, <1>3, <1>4, <1>5, <1>7, <2>1
<1>9. lists \in [D -> SUBSET D]
  <2>1. lists = [i \in D |-> lists[i]]
    <3> HIDE DEF D
    <3> QED
      BY <1>6
  <2> HIDE DEF lists, D
  <2> QED
    BY <1>8, <2>1
<1>10. lists[new] \subseteq S
  <2> HIDE DEF lists, D, m, chosen, more
  <2> QED
    BY <1>1, <1>3, <1>7
<1>11. \A i \in 1..n : i \in D /\ i # new
  BY DEF D
<1>12. \A i \in 1..n : lists[i] \subseteq links[i] \cup {new} /\ (i \notin S => lists[i] = links[i])
  <2> SUFFICES ASSUME NEW i \in 1..n
               PROVE  lists[i] \subseteq links[i] \cup {new} /\ (i \notin S => lists[i] = links[i])
    OBVIOUS
  <2>1. lists[i] = IF i \in chosen THEN Best(vec, vec[i], m, more(i)) ELSE links[i]
    <3> HIDE DEF lists, D, m, chosen, more, new
    <3> QED
      BY <1>7, <1>11
  <2>2. Best(vec, vec[i], m, more(i)) \subseteq more(i)
    BY <1>5, <1>11
  <2> HIDE DEF lists, D, m, chosen, new
  <2> QED
    BY <1>3, <2>1, <2>2
<1>13. ASSUME l = 0, n <= 2 * M, S = 1..n, \A i \in 1..n : links[i] = (1..n) \ {i}
       PROVE  \A i \in D : lists[i] = D \ {i}
  <2>0. m = 2 * M
    BY <1>2, <1>13
  <2>1. chosen = S
    <3>1. Cardinality(S) = n
      BY <1>13, FS_Interval
    <3>2. Cardinality(S) <= m
      BY <1>13, <2>0, <3>1
    <3> HIDE DEF m, D, new
    <3> QED
      BY <1>1, <1>2, <3>2, BestIs
  <2>2. ASSUME NEW i \in 1..n PROVE more(i) = D \ {i} /\ Best(vec, vec[i], m, more(i)) = more(i)
    <3>1. more(i) = D \ {i}
      BY <1>13 DEF D
    <3>2. Cardinality(D \ {i}) = n
      <4>1. IsFiniteSet(D) /\ Cardinality(D) = n + 1
        BY FS_Interval DEF D
      <4>2. i \in D
        BY <1>11
      <4> HIDE DEF D
      <4>3. Cardinality(D \ {i}) = Cardinality(D) - 1
        BY <4>1, <4>2, FS_RemoveElement
      <4> QED
        BY <4>1, <4>3
    <3>3. Cardinality(more(i)) <= m
      <4> HIDE DEF more, D
      <4> QED
        BY <1>13, <2>0, <3>1, <3>2
    <3>4. more(i) \subseteq D /\ i \in D
      BY <1>4, <1>11
    <3> HIDE DEF m, D, more, new
    <3>5. Best(vec, vec[i], m, more(i)) = more(i)
      BY <1>1, <1>2, <3>3, <3>4, BestIs
    <3> QED
      BY <3>1, <3>5
  <2> SUFFICES ASSUME NEW i \in D PROVE lists[i] = D \ {i}
    OBVIOUS
  <2>3. CASE i = new
    <3>1. lists[i] = chosen
      <4> HIDE DEF lists, D, m, chosen, more, new
      <4> QED
        BY <1>7, <2>3
    <3>2. S = D \ {new}
      BY <1>13 DEF D
    <3> QED
      BY <2>1, <2>3, <3>1, <3>2
  <2>4. CASE i # new
    <3>1. i \in 1..n
      BY <2>4 DEF D
    <3>2. i \in chosen
      BY <1>13, <2>1, <3>1
    <3>3. lists[i] = Best(vec, vec[i], m, more(i))
      <4> HIDE DEF lists, D, m, chosen, more, new
      <4> QED
        BY <1>7, <2>4, <3>2
    <3> HIDE DEF lists, D, m, chosen, more, new
    <3> QED
      BY <2>2, <3>1, <3>3
  <2> QED
    BY <2>3, <2>4
<1> HIDE DEF lists, D
<1> QED
  BY <1>9, <1>10, <1>12, <1>13 DEF lists, D, Joined

\* An index with room for one more node, which no list leads to yet.
Roomy(vec, links, wider) ==
    /\ wider \in [1..(Len(vec) + 1) -> SUBSET (1..Len(vec))]
    /\ \A i \in 1..Len(vec) : wider[i] = links[i]
    /\ wider[Len(vec) + 1] = {}

\* Room for a node leaves the lists as they were.
LEMMA GrownIs ==
    ASSUME NEW vec, NEW lists, Indexed(vec, lists), NEW l \in Layer
    PROVE  Roomy(vec, lists[l], Append(lists[l], {}))
<1> DEFINE n == Len(vec)
           S == SUBSET (1..n)
           k == lists[l]
           g == Append(k, {})
<1>1. vec \in Seq(Vector) /\ k \in Seq(S) /\ Len(k) = n /\ n \in Nat
  BY DEF Indexed
<1>2. {} \in S
  OBVIOUS
<1> HIDE DEF S, k
<1>3. g \in Seq(S) /\ Len(g) = n + 1 /\ (\A i \in 1..n : g[i] = k[i]) /\ g[n + 1] = {}
  <2>1. g \in Seq(S)
    BY <1>1, <1>2
  <2> QED
    BY <1>1, <1>2, <2>1, AppendProperties
<1>4. g \in [1..(n + 1) -> S]
  <2> HIDE DEF g, n
  <2> QED
    BY <1>3
<1> QED
  BY <1>3, <1>4 DEF S, k, Roomy

\* The lists after a new node has been linked on the layers up to top.
Inserting(vec, lists, v, top, found, after) ==
    /\ Indexed(vec, lists) /\ v \in Vector
    /\ top \in Int /\ top <= TopLayer /\ (vec # <<>> => top >= 0)
    /\ \A l \in 0..top : found[l] \subseteq 1..Len(vec)
    /\ vec # <<>> /\ Len(vec) + 1 <= 2 * M + 1 => found[0] = 1..Len(vec)
    /\ \A l \in Layer : after[l] =
           IF l <= top THEN Link(Append(vec, v), Append(lists[l], {}), Len(vec) + 1, found[l], l)
           ELSE Append(lists[l], {})

Inserted(vec, lists, v, top, found, after) ==
    /\ Indexed(Append(vec, v), after)
    /\ \A l \in Layer :
          /\ after[l][Len(vec) + 1] \subseteq IF l <= top THEN found[l] ELSE {}
          /\ \A i \in 1..Len(vec) :
                /\ after[l][i] \subseteq lists[l][i] \cup {Len(vec) + 1}
                /\ ~(l <= top /\ i \in found[l]) => after[l][i] = lists[l][i]

\* An insertion keeps an index.
LEMMA InsertIs ==
    ASSUME NEW vec, NEW lists, NEW v, NEW top, NEW found, NEW after,
           Inserting(vec, lists, v, top, found, after)
    PROVE  Inserted(vec, lists, v, top, found, after)
<1>0. /\ Indexed(vec, lists) /\ v \in Vector
      /\ top \in Int /\ top <= TopLayer /\ (vec # <<>> => top >= 0)
      /\ \A l \in 0..top : found[l] \subseteq 1..Len(vec)
      /\ vec # <<>> /\ Len(vec) + 1 <= 2 * M + 1 => found[0] = 1..Len(vec)
      /\ \A l \in Layer : after[l] =
             IF l <= top THEN Link(Append(vec, v), Append(lists[l], {}), Len(vec) + 1, found[l], l)
             ELSE Append(lists[l], {})
  BY DEF Inserting
<1> DEFINE n  == Len(vec)
           w  == Append(vec, v)
           g(l) == Append(lists[l], {})
<1>1. /\ w \in Seq(Vector) /\ n \in Nat /\ Len(w) = n + 1
      /\ \A l \in Layer : /\ g(l) \in [1..(n + 1) -> SUBSET (1..n)]
                          /\ \A i \in 1..n : g(l)[i] = lists[l][i]
                          /\ g(l)[n + 1] = {}
  <2>1. w \in Seq(Vector) /\ n \in Nat /\ Len(w) = n + 1
    <3>1. vec \in Seq(Vector)
      BY <1>0 DEF Indexed
    <3> QED
      BY <1>0, <3>1, AppendProperties
  <2>2. ASSUME NEW l \in Layer
        PROVE  /\ g(l) \in [1..(n + 1) -> SUBSET (1..n)]
               /\ \A i \in 1..n : g(l)[i] = lists[l][i]
               /\ g(l)[n + 1] = {}
    BY <1>0, GrownIs DEF Roomy
  <2> QED
    BY <2>1, <2>2
<1> HIDE DEF n, w, g
<1>2. ASSUME NEW l \in Layer
      PROVE  /\ after[l] \in [1..(n + 1) -> SUBSET (1..(n + 1))]
             /\ after[l][n + 1] \subseteq IF l <= top THEN found[l] ELSE {}
             /\ \A i \in 1..n : /\ after[l][i] \subseteq lists[l][i] \cup {n + 1}
                                /\ ~(l <= top /\ i \in found[l]) => after[l][i] = lists[l][i]
  <2>0. g(l) \in [1..(n + 1) -> SUBSET (1..n)] /\ (\A i \in 1..n : g(l)[i] = lists[l][i]) /\ g(l)[n + 1] = {}
    BY <1>1
  <2>1. CASE l <= top
    <3> DEFINE k == g(l)
               S == found[l]
               r == Link(w, k, n + 1, S, l)
    <3>1. after[l] = r
      BY <1>0, <2>1 DEF g, n, w
    <3>2. S \subseteq 1..n
      <4>1. l \in 0..top
        BY <1>0, <2>1, IndexAssumption DEF Layer
      <4> QED
        BY <1>0, <4>1 DEF n
    <3> HIDE DEF k, S
    <3>3. /\ r \in [1..(n + 1) -> SUBSET (1..(n + 1))] /\ r[n + 1] \subseteq S
          /\ \A i \in 1..n : r[i] \subseteq k[i] \cup {n + 1} /\ (i \notin S => r[i] = k[i])
      <4>1. Joining(w, n, k, S, l)
        BY <1>1, <2>0, <3>2 DEF Joining, k
      <4>2. Joined(r, n, k, S, l)
        BY <4>1, LinkIs
      <4> HIDE DEF r
      <4> QED
        BY <4>2 DEF Joined
    <3> HIDE DEF r
    <3> QED
      BY <2>0, <2>1, <3>1, <3>3 DEF k, S
  <2>2. CASE ~(l <= top)
    <3>1. after[l] = g(l)
      BY <1>0, <2>2 DEF g
    <3>2. SUBSET (1..n) \subseteq SUBSET (1..(n + 1))
      <4>1. 1..n \subseteq 1..(n + 1)
        BY <1>1
      <4> QED
        BY <4>1
    <3> QED
      BY <2>0, <2>2, <3>1, <3>2
  <2> QED
    BY <2>1, <2>2
<1>3. ASSUME n + 1 <= 2 * M + 1 PROVE \A i \in 1..(n + 1) : after[0][i] = (1..(n + 1)) \ {i}
  <2>0. 0 \in Layer /\ M \in Nat
    BY IndexAssumption DEF Layer
  <2>1. \A i \in 1..n : g(0)[i] = (1..n) \ {i}
    <3>1. \A i \in 1..n : lists[0][i] = (1..n) \ {i}
      BY <1>0, <1>1, <1>3, <2>0 DEF Indexed, n
    <3> QED
      BY <1>1, <2>0, <3>1
  <2>2. CASE vec = <<>>
    <3>1. n = 0
      BY <2>2 DEF n
    <3>2. after[0][n + 1] \subseteq {}
      <4>1. after[0][n + 1] \subseteq IF 0 <= top THEN found[0] ELSE {}
        BY <1>2, <2>0
      <4>2. 0 <= top => found[0] \subseteq 1..0
        BY <1>0, <2>0, <3>1 DEF n
      <4> QED
        BY <4>1, <4>2
    <3>3. 1..(n + 1) = {1} /\ n + 1 = 1
      BY <3>1
    <3> QED
      BY <3>2, <3>3
  <2>3. CASE vec # <<>>
    <3> DEFINE k == g(0)
               S == found[0]
    <3>1. S = 1..n /\ 0 <= top /\ n <= 2 * M
      BY <1>0, <1>1, <1>3, <2>0, <2>3 DEF n
    <3>2. after[0] = Link(w, k, n + 1, S, 0)
      BY <1>0, <2>0, <3>1 DEF g, w, n
    <3>3. k \in [1..(n + 1) -> SUBSET (1..n)]
      BY <1>1, <2>0
    <3> HIDE DEF k, S
    <3>4. \A i \in 1..(n + 1) : Link(w, k, n + 1, S, 0)[i] = (1..(n + 1)) \ {i}
      <4>1. (\A i \in 1..n : k[i] = (1..n) \ {i}) /\ S \subseteq 1..n
        BY <2>1, <3>1 DEF k
      <4> DEFINE r == Link(w, k, n + 1, S, 0)
      <4>2. Joining(w, n, k, S, 0)
        BY <1>1, <2>0, <3>3, <4>1 DEF Joining
      <4>3. Joined(r, n, k, S, 0)
        BY <4>2, LinkIs
      <4> HIDE DEF r
      <4>4. \A i \in 1..(n + 1) : r[i] = (1..(n + 1)) \ {i}
        BY <3>1, <4>1, <4>3 DEF Joined
      <4> QED
        BY <4>4 DEF r
    <3> QED
      BY <3>2, <3>4
  <2> QED
    BY <2>2, <2>3
<1>4. \A l \in Layer : after[l] \in Seq(SUBSET (1..Len(w))) /\ Len(after[l]) = Len(w)
  <2> SUFFICES ASSUME NEW l \in Layer
               PROVE  after[l] \in Seq(SUBSET (1..Len(w))) /\ Len(after[l]) = Len(w)
    OBVIOUS
  <2> DEFINE S == SUBSET (1..(n + 1))
             r == after[l]
             m == n + 1
  <2>1. r \in [1..m -> S] /\ m \in Nat
    BY <1>1, <1>2
  <2> HIDE DEF S, r, m
  <2>2. r \in Seq(S) /\ Len(r) = m
    BY <2>1
  <2> QED
    BY <1>1, <2>2 DEF S, r, m
<1>5. Indexed(w, after)
  BY <1>1, <1>3, <1>4 DEF Indexed
<1> QED
  BY <1>2, <1>5 DEF n, w, Inserted

-----------------------------------------------------------------------------
\* The first index: a list holds nodes of its layer only, and belongs to one.
IndexInv ==
    /\ Indexed(vector, neighbors)
    /\ level \in Seq(Layer) /\ Len(level) = Len(vector)
    /\ \A l \in Layer : \A i \in 1..Len(vector) : neighbors[l][i] # {} =>
            level[i] >= l /\ \A j \in neighbors[l][i] : level[j] >= l
    /\ IF vector = <<>> THEN entry = 0 /\ maxLevel = -1
       ELSE entry \in 1..Len(vector) /\ level[entry] = maxLevel /\ maxLevel \in Layer

AnnInv ==
    /\ Indexed(annVector, annNeighbors)
    /\ IF annVector = <<>> THEN annEntry = 0 /\ annMaxLayer = -1
       ELSE annEntry \in 1..Len(annVector) /\ annMaxLayer \in Layer

\* No list of a layer of the first index leaves the nodes of that level.
LEMMA LevelsLayered ==
    ASSUME IndexInv, vector # <<>>, NEW layer \in Nat, layer <= maxLevel
    PROVE  Layered(vector, neighbors, [l \in Layer |-> {i \in 1..Len(vector) : level[i] >= l}], layer, maxLevel)
<1> DEFINE D  == 1..Len(vector)
           at == [l \in Layer |-> {i \in D : level[i] >= l}]
<1>1. vector \in Seq(Vector) /\ DOMAIN vector = D /\ maxLevel \in Layer /\ \A i \in D : level[i] \in Layer
  BY DEF IndexInv, Indexed
<1>2. \A l \in layer..maxLevel : l \in Layer /\ l \in Nat
  BY <1>1, IndexAssumption DEF Layer
<1>3. ASSUME NEW l \in layer..maxLevel
      PROVE  /\ at[l] \subseteq DOMAIN vector /\ Linked(vector, neighbors[l])
             /\ \A i \in at[l] : neighbors[l][i] \subseteq at[l]
  <2>1. l \in Layer /\ at[l] = {i \in D : level[i] >= l}
    BY <1>2
  <2>2. Linked(vector, neighbors[l])
    BY <2>1, IndexedLinks DEF IndexInv
  <2>3. \A i \in D : neighbors[l][i] \subseteq D
    BY <1>1, <2>2 DEF Linked
  <2>4. \A i \in D : \A j \in neighbors[l][i] : level[j] >= l
    BY <2>1 DEF IndexInv
  <2> HIDE DEF at, D
  <2> QED
    BY <1>1, <2>1, <2>2, <2>3, <2>4
<1>4. \A l \in layer..(maxLevel - 1) : at[l + 1] \subseteq at[l]
  <2> SUFFICES ASSUME NEW l \in layer..(maxLevel - 1) PROVE at[l + 1] \subseteq at[l]
    OBVIOUS
  <2>1. maxLevel \in Int /\ l \in Nat
    BY <1>1, IndexAssumption DEF Layer
  <2>2. l \in layer..maxLevel /\ l + 1 \in layer..maxLevel
    BY <2>1
  <2>3. at[l] = {i \in D : level[i] >= l} /\ at[l + 1] = {i \in D : level[i] >= l + 1}
    BY <1>2, <2>2
  <2>4. \A i \in D : level[i] \in Int
    BY <1>1, IndexAssumption DEF Layer
  <2> HIDE DEF at, D
  <2> QED
    BY <2>1, <2>3, <2>4
<1> HIDE DEF at
<1>5. Layered(vector, neighbors, at, layer, maxLevel)
  BY <1>1, <1>2, <1>3, <1>4, IndexAssumption DEF Layered, Layer
<1> QED
  BY <1>5 DEF at

\* The lower layers of a stack of layers are one.
LEMMA LowerLayered ==
    ASSUME NEW vec, NEW lists, NEW at, NEW layer, NEW top, Layered(vec, lists, at, layer, top),
           NEW lower \in Nat, layer <= lower, lower <= top
    PROVE  Layered(vec, lists, at, layer, lower)
<1>1. layer \in Nat /\ top \in Nat
  BY DEF Layered
<1>2. \A l \in layer..lower : l \in layer..top
  BY <1>1
<1>3. \A l \in layer..(lower - 1) : l \in layer..(top - 1)
  BY <1>1
<1> QED
  BY <1>1, <1>2, <1>3 DEF Layered

\* No list leaves the index.
LEMMA AllLayered ==
    ASSUME NEW vec, NEW lists, Indexed(vec, lists), NEW layer \in Nat, NEW top \in Layer, layer <= top
    PROVE  Layered(vec, lists, [l \in Layer |-> 1..Len(vec)], layer, top)
<1> DEFINE D  == 1..Len(vec)
           at == [l \in Layer |-> D]
<1>1. \A l \in layer..top : l \in Layer
  BY IndexAssumption DEF Layer
<1>2. ASSUME NEW l \in layer..top
      PROVE  at[l] \subseteq DOMAIN vec /\ Linked(vec, lists[l]) /\ \A i \in at[l] : lists[l][i] \subseteq at[l]
  <2>1. at[l] = D /\ D = DOMAIN vec /\ Linked(vec, lists[l])
    BY <1>1, IndexedLinks
  <2> HIDE DEF at, D
  <2> QED
    BY <2>1 DEF Linked
<1>3. \A l \in layer..(top - 1) : at[l + 1] = D /\ at[l] = D
  <2>1. \A l \in layer..(top - 1) : l \in Layer /\ l + 1 \in Layer
    BY IndexAssumption DEF Layer
  <2> QED
    BY <2>1
<1>4. vec \in Seq(Vector) /\ top \in Nat
  BY IndexAssumption DEF Indexed, Layer
<1> HIDE DEF at, D
<1>5. Layered(vec, lists, at, layer, top)
  BY <1>2, <1>3, <1>4 DEF Layered
<1> QED
  BY <1>5 DEF at, D

\* What no list leaves, none leaves when there is room for one more node.
LEMMA GrownLayered ==
    ASSUME NEW vec, NEW lists, Indexed(vec, lists), NEW v \in Vector, NEW at, NEW layer, NEW top,
           Layered(vec, lists, at, layer, top), top <= TopLayer,
           NEW grown, \A l \in Layer : grown[l] = Append(lists[l], {})
    PROVE  Layered(Append(vec, v), grown, at, layer, top)
<1> DEFINE n == Len(vec)
           w == Append(vec, v)
<1>1. /\ vec \in Seq(Vector) /\ layer \in Nat /\ top \in Nat /\ layer <= top /\ DOMAIN vec = 1..n
      /\ \A l \in layer..top : /\ at[l] \subseteq DOMAIN vec /\ Linked(vec, lists[l])
                               /\ \A i \in at[l] : lists[l][i] \subseteq at[l]
      /\ \A l \in layer..(top - 1) : at[l + 1] \subseteq at[l]
  BY DEF Layered
<1>2. n \in Nat /\ w \in Seq(Vector) /\ DOMAIN w = 1..(n + 1) /\ 1..n \subseteq 1..(n + 1)
  <2>1. n \in Nat
    BY <1>1
  <2>2. w \in Seq(Vector) /\ Len(w) = n + 1
    BY <1>1, AppendProperties
  <2> HIDE DEF w, n
  <2> QED
    BY <2>1, <2>2
<1> HIDE DEF w
<1>3. ASSUME NEW l \in layer..top
      PROVE  at[l] \subseteq DOMAIN w /\ Linked(w, grown[l]) /\ \A i \in at[l] : grown[l][i] \subseteq at[l]
  <2>1. l \in Layer
    BY <1>1, IndexAssumption DEF Layer
  <2> DEFINE g == grown[l]
  <2>2. g \in [1..(n + 1) -> SUBSET (1..n)] /\ \A i \in 1..n : g[i] = lists[l][i]
    <3>1. Roomy(vec, lists[l], Append(lists[l], {}))
      BY <2>1, GrownIs
    <3> QED
      BY <2>1, <3>1 DEF Roomy
  <2> HIDE DEF g, n
  <2>3. g \in [DOMAIN w -> SUBSET DOMAIN w]
    <3>1. SUBSET (1..n) \subseteq SUBSET (1..(n + 1))
      BY <1>2
    <3> QED
      BY <1>2, <2>2, <3>1
  <2>4. Linked(w, g)
    BY <1>2, <2>3 DEF Linked
  <2>5. \A i \in at[l] : g[i] \subseteq at[l]
    BY <1>1, <2>2
  <2> QED
    BY <1>1, <1>2, <2>4, <2>5 DEF g
<1>4. Layered(w, grown, at, layer, top)
  BY <1>1, <1>2, <1>3 DEF Layered
<1> QED
  BY <1>4 DEF w

\* An index without nodes.
LEMMA EmptyIndexed ==
    ASSUME NEW lists, \A l \in Layer : lists[l] = <<>>
    PROVE  Indexed(<<>>, lists)
<1> DEFINE vec == <<>>
           S   == SUBSET (1..Len(vec))
<1>1. vec \in Seq(Vector) /\ Len(vec) = 0 /\ vec \in Seq(S)
  OBVIOUS
<1>2. \A i \in 1..Len(vec) : FALSE
  BY <1>1
<1>3. \A l \in Layer : lists[l] \in Seq(S) /\ Len(lists[l]) = Len(vec)
  <2> HIDE DEF S
  <2> QED
    BY <1>1
<1> HIDE DEF vec
<1>4. Indexed(vec, lists)
  BY <1>1, <1>2, <1>3 DEF Indexed
<1> QED
  BY <1>4 DEF vec

\* The first index begins empty.
LEMMA IndexStarts == IndexInit => IndexInv
<1> SUFFICES ASSUME IndexInit PROVE IndexInv
  OBVIOUS
<1>1. /\ vector = <<>> /\ level = <<>> /\ \A l \in Layer : neighbors[l] = <<>>
      /\ entry = 0 /\ maxLevel = -1
  BY DEF IndexInit
<1>2. Indexed(vector, neighbors)
  BY <1>1, EmptyIndexed
<1> QED
  BY <1>1, <1>2 DEF IndexInv

\* So does the second.
LEMMA AnnStarts == AnnInit => AnnInv
<1> SUFFICES ASSUME AnnInit PROVE AnnInv
  OBVIOUS
<1>1. annVector = <<>> /\ (\A l \in Layer : annNeighbors[l] = <<>>) /\ annEntry = 0 /\ annMaxLayer = -1
  BY DEF AnnInit
<1>2. Indexed(annVector, annNeighbors)
  BY <1>1, EmptyIndexed
<1> QED
  BY <1>1, <1>2 DEF AnnInv

\* The smaller and the larger of two numbers.
LEMMA SmallerOf ==
    ASSUME NEW a \in Int, NEW b \in Int
    PROVE  /\ Min({a, b}) \in {a, b} /\ Min({a, b}) <= a /\ Min({a, b}) <= b
           /\ Max({a, b}) \in {a, b} /\ Max({a, b}) >= a /\ Max({a, b}) >= b
<1> DEFINE S == {a, b}
<1>1. (\E x \in S : \A y \in S : x <= y) /\ (\E x \in S : \A y \in S : x >= y)
  OBVIOUS
<1>2. Min(S) = (CHOOSE x \in S : \A y \in S : x <= y) /\ Max(S) = (CHOOSE x \in S : \A y \in S : x >= y)
  BY DEF Min, Max
<1>3. Min(S) \in S /\ (\A y \in S : Min(S) <= y) /\ Max(S) \in S /\ (\A y \in S : Max(S) >= y)
  <2> HIDE DEF S
  <2> QED
    BY <1>1, <1>2
<1> QED
  BY <1>3

\* While no list has been cut, a search of the lowest layer finds all of it.
Uncut(vec, lists, v, grown) ==
    /\ Indexed(vec, lists) /\ v \in Vector /\ Len(vec) + 1 <= 2 * M + 1
    /\ \A l \in Layer : grown[l] = Append(lists[l], {})

\* Such a search looks at every node, and has room for all of them.
LEMMA WholeLayerFound ==
    ASSUME NEW vec, NEW lists, NEW v, NEW grown, Uncut(vec, lists, v, grown)
    PROVE  /\ \A i \in 1..Len(vec) : grown[0][i] = (1..Len(vec)) \ {i}
           /\ Best(Append(vec, v), v, EfConstruction, 1..Len(vec)) = 1..Len(vec)
<1> DEFINE n == Len(vec)
           w == Append(vec, v)
<1>0. /\ Indexed(vec, lists) /\ v \in Vector /\ Len(vec) + 1 <= 2 * M + 1
      /\ \A l \in Layer : grown[l] = Append(lists[l], {})
  BY DEF Uncut
<1>1. 0 \in Layer /\ M \in Nat /\ EfConstruction \in Nat /\ EfConstruction >= 2 * M
  BY IndexAssumption DEF Layer
<1>2. vec \in Seq(Vector) /\ n \in Nat /\ w \in Seq(Vector) /\ Len(w) = n + 1
  <2>1. vec \in Seq(Vector)
    BY <1>0 DEF Indexed
  <2> QED
    BY <1>0, <2>1, AppendProperties
<1>3. \A i \in 1..n : grown[0][i] = (1..n) \ {i}
  <2>1. Roomy(vec, lists[0], Append(lists[0], {}))
    BY <1>0, <1>1, GrownIs
  <2>2. \A i \in 1..n : grown[0][i] = lists[0][i]
    BY <1>0, <1>1, <2>1 DEF Roomy
  <2>3. \A i \in 1..n : lists[0][i] = (1..n) \ {i}
    BY <1>0, <1>1, <1>2 DEF Indexed
  <2> QED
    BY <2>2, <2>3
<1>4. n + 1 <= 2 * M + 1
  BY <1>0
<1> HIDE DEF n, w
<1>5. Best(w, v, EfConstruction, 1..n) = 1..n
  <2>1. Cardinality(1..n) = n
    BY <1>2, FS_Interval
  <2>2. Cardinality(1..n) <= EfConstruction
    BY <1>1, <1>2, <1>4, <2>1
  <2>3. 1..n \subseteq DOMAIN w
    BY <1>2
  <2> QED
    BY <1>0, <1>1, <1>2, <2>2, <2>3, BestIs
<1> QED
  BY <1>3, <1>5 DEF n, w

\* An insertion keeps the first index: the new node is linked on the layers up to
\* its level, with nodes that were found on that layer.
LEMMA InsertKeeps ==
    ASSUME IndexInv, NEW v \in Vector, NEW lvl \in Layer, Insert(v, lvl)
    PROVE  IndexInv' /\ vector' = Append(vector, v)
<1> DEFINE vec   == Append(vector, v)
           n     == Len(vector)
           start == Min({lvl, maxLevel})
           grown == [l \in Layer |-> Append(neighbors[l], {})]
           at    == [l \in Layer |-> {i \in 1..n : level[i] >= l}]
           down  == Descend(v, start)
           found == Searched(vec, grown, v, down, start)
<1>1. /\ vector' = vec /\ level' = Append(level, lvl)
      /\ neighbors' = [l \in Layer |-> IF l <= start THEN Link(vec, grown[l], Len(vec), found[l], l) ELSE grown[l]]
      /\ entry' = EntryPoint(Len(vec), lvl) /\ maxLevel' = Max({lvl, maxLevel})
  BY DEF Insert, Searched
<1> HIDE DEF down, found, grown, start
<1>2. /\ Indexed(vector, neighbors) /\ vector \in Seq(Vector) /\ n \in Nat
      /\ level \in Seq(Layer) /\ Len(level) = n
      /\ vec \in Seq(Vector) /\ Len(vec) = n + 1
      /\ lvl \in Nat /\ lvl <= TopLayer /\ TopLayer \in Nat /\ maxLevel \in Int
      /\ (vector # <<>> => maxLevel \in Nat /\ maxLevel <= TopLayer)
      /\ (vector = <<>> <=> n = 0)
  <2>1. vector \in Seq(Vector) /\ n \in Nat /\ (vector = <<>> <=> n = 0)
    BY DEF IndexInv, Indexed
  <2>2. vec \in Seq(Vector) /\ Len(vec) = n + 1
    BY <2>1, AppendProperties
  <2> QED
    BY <2>1, <2>2, IndexAssumption DEF IndexInv, Layer
<1> HIDE DEF vec, n
<1>3. /\ start \in Int /\ start <= lvl /\ start <= maxLevel /\ start <= TopLayer
      /\ maxLevel' \in Int /\ maxLevel' = IF lvl > maxLevel THEN lvl ELSE maxLevel
      /\ (vector # <<>> => start \in Nat) /\ (vector = <<>> => start < 0)
  <2>1. vector = <<>> => maxLevel = -1
    BY DEF IndexInv
  <2>2. lvl \in Int /\ maxLevel \in Int
    BY <1>2
  <2>3. /\ start \in {lvl, maxLevel} /\ start <= lvl /\ start <= maxLevel
        /\ maxLevel' \in {lvl, maxLevel} /\ maxLevel' >= lvl /\ maxLevel' >= maxLevel
    <3>1. maxLevel' = Max({lvl, maxLevel})
      BY <1>1
    <3> QED
      BY <2>2, <3>1, SmallerOf DEF start
  <2> QED
    BY <1>2, <2>1, <2>3
<1>4. vector # <<>> =>
          /\ \A l \in 0..start : found[l] \subseteq at[l]
          /\ Len(vector) + 1 <= 2 * M + 1 => found[0] = 1..Len(vector)
  <2> SUFFICES ASSUME vector # <<>>
               PROVE  /\ \A l \in 0..start : found[l] \subseteq at[l]
                      /\ Len(vector) + 1 <= 2 * M + 1 => found[0] = 1..Len(vector)
    OBVIOUS
  <2>1. down \in at[start]
    <3>1. Layered(vector, neighbors, at, start, maxLevel)
      BY <1>2, <1>3, LevelsLayered DEF n
    <3>2. entry \in at[maxLevel]
      <4>1. entry \in 1..n /\ level[entry] = maxLevel /\ maxLevel \in Layer
        BY DEF IndexInv, n
      <4> QED
        BY <1>2, <4>1
    <3>3. down = Descent(vector, neighbors, v, entry, start, maxLevel)
      BY DEF down, Descend, Descent
    <3> HIDE DEF at
    <3> QED
      BY <3>1, <3>2, <3>3, DescentStaysIn
  <2>2. Layered(vec, grown, at, 0, start)
    <3>1. Layered(vector, neighbors, at, 0, maxLevel)
      BY <1>2, LevelsLayered DEF n
    <3>2. Layered(vector, neighbors, at, 0, start)
      <4>1. start \in Nat /\ 0 <= start /\ start <= maxLevel
        BY <1>3
      <4> HIDE DEF at, n
      <4> QED
        BY <3>1, <4>1, LowerLayered
    <3> HIDE DEF at
    <3> QED
      BY <1>2, <1>3, <3>2, GrownLayered DEF grown, vec
  <2> HIDE DEF at
  <2>3. /\ \A l \in 0..start : found[l] \subseteq at[l]
        /\ (\A i \in at[0] : grown[0][i] = at[0] \ {i}) => found[0] = Best(vec, v, EfConstruction, at[0])
    <3>1. found = Searched(vec, grown, v, down, start)
      BY DEF found
    <3>2. /\ Layered(vec, grown, at, 0, start) /\ v \in Vector /\ down \in at[start]
      BY <2>1, <2>2
    <3>3. FoundAmong(vec, grown, v, at, start, found)
      BY <3>1, <3>2, SearchedStaysIn
    <3> QED
      BY <3>3 DEF FoundAmong
  <2>4. ASSUME Len(vector) + 1 <= 2 * M + 1 PROVE found[0] = 1..Len(vector)
    <3>0. 0 \in Layer /\ M \in Nat /\ EfConstruction \in Nat /\ EfConstruction >= 2 * M
      BY IndexAssumption DEF Layer
    <3>1. at[0] = 1..n
      <4>1. \A i \in 1..n : level[i] \in Nat /\ level[i] >= 0
        <5>1. \A l \in Layer : l \in Nat /\ l >= 0
          BY IndexAssumption DEF Layer
        <5>2. \A i \in 1..n : level[i] \in Layer
          BY <1>2
        <5> QED
          BY <5>1, <5>2
      <4> QED
        BY <3>0, <4>1 DEF at
    <3>2. /\ \A i \in 1..n : grown[0][i] = (1..n) \ {i}
          /\ Best(vec, v, EfConstruction, 1..n) = 1..n
      <4> DEFINE wider == grown
      <4>1. \A l \in Layer : wider[l] = Append(neighbors[l], {})
        BY DEF grown
      <4> HIDE DEF wider, at
      <4>2. /\ \A i \in 1..Len(vector) : wider[0][i] = (1..Len(vector)) \ {i}
            /\ Best(Append(vector, v), v, EfConstruction, 1..Len(vector)) = 1..Len(vector)
        <5>1. Uncut(vector, neighbors, v, wider)
          BY <1>2, <2>4, <4>1 DEF Uncut
        <5> QED
          BY <5>1, WholeLayerFound
      <4> QED
        BY <4>2 DEF wider, n, vec
    <3>3. found[0] = Best(vec, v, EfConstruction, 1..n)
      BY <2>3, <3>1, <3>2
    <3> QED
      BY <3>2, <3>3 DEF n
  <2> QED
    BY <2>3, <2>4
<1>5. \A l \in 0..start : found[l] \subseteq 1..Len(vector)
  <2> SUFFICES ASSUME NEW l \in 0..start PROVE found[l] \subseteq 1..Len(vector)
    OBVIOUS
  <2>1. vector # <<>> /\ l \in Layer
    BY <1>2, <1>3 DEF Layer
  <2>2. at[l] \subseteq 1..n
    BY <2>1
  <2> HIDE DEF at
  <2> QED
    BY <1>4, <2>1, <2>2 DEF n
<1>6. \A l \in Layer : neighbors'[l] =
          IF l <= start THEN Link(Append(vector, v), Append(neighbors[l], {}), Len(vector) + 1, found[l], l)
          ELSE Append(neighbors[l], {})
  BY <1>1, <1>2 DEF grown, vec, n
<1>7. /\ Indexed(vec, neighbors')
      /\ \A l \in Layer :
             /\ neighbors'[l][n + 1] \subseteq IF l <= start THEN found[l] ELSE {}
             /\ \A i \in 1..n :
                   /\ neighbors'[l][i] \subseteq neighbors[l][i] \cup {n + 1}
                   /\ ~(l <= start /\ i \in found[l]) => neighbors'[l][i] = neighbors[l][i]
  <2> DEFINE after == neighbors'
  <2>1. \A l \in Layer : after[l] =
          IF l <= start THEN Link(Append(vector, v), Append(neighbors[l], {}), Len(vector) + 1, found[l], l)
          ELSE Append(neighbors[l], {})
    BY <1>6
  <2>2. vector # <<>> => start >= 0
    BY <1>3
  <2> HIDE DEF after, at
  <2>3. Inserting(vector, neighbors, v, start, found, after)
    BY <1>2, <1>3, <1>4, <1>5, <2>1, <2>2 DEF Inserting
  <2>4. Inserted(vector, neighbors, v, start, found, after)
    BY <2>3, InsertIs
  <2> QED
    BY <2>4 DEF after, vec, n, Inserted
<1>8. /\ level' \in Seq(Layer) /\ Len(level') = n + 1 /\ level'[n + 1] = lvl
      /\ \A i \in 1..n : level'[i] = level[i]
  BY <1>1, <1>2, AppendProperties
<1>9. \A l \in Layer : \A i \in 1..(n + 1) : neighbors'[l][i] # {} =>
          level'[i] >= l /\ \A j \in neighbors'[l][i] : level'[j] >= l
  <2> SUFFICES ASSUME NEW l \in Layer, NEW i \in 1..(n + 1), NEW j \in neighbors'[l][i]
               PROVE  level'[i] >= l /\ level'[j] >= l
    OBVIOUS
  <2>0. l \in Nat
    BY IndexAssumption DEF Layer
  <2>1. CASE i = n + 1
    <3>1. l <= start /\ j \in found[l]
      BY <1>7, <2>1
    <3>2. vector # <<>> /\ l \in 0..start
      BY <1>3, <2>0, <3>1
    <3>3. j \in 1..n /\ level[j] >= l
      <4>1. found[l] \subseteq at[l]
        BY <1>4, <3>2
      <4> QED
        BY <3>1, <4>1
    <3> QED
      BY <1>2, <1>3, <1>8, <2>0, <2>1, <3>1, <3>3
  <2>2. CASE i \in 1..n
    <3>1. CASE neighbors'[l][i] = neighbors[l][i]
      <4>1. j \in neighbors[l][i]
        BY <3>1
      <4>2. level[i] >= l /\ level[j] >= l
        BY <2>2, <4>1 DEF IndexInv, n
      <4>3. j \in 1..n
        <5>1. Linked(vector, neighbors[l]) /\ DOMAIN vector = 1..n
          BY <1>2, IndexedLinks DEF n
        <5> QED
          BY <2>2, <4>1, <5>1 DEF Linked
      <4> QED
        BY <1>8, <2>2, <4>2, <4>3
    <3>2. CASE neighbors'[l][i] # neighbors[l][i]
      <4>1. l <= start /\ i \in found[l] /\ j \in neighbors[l][i] \cup {n + 1}
        BY <1>7, <2>2, <3>2
      <4>2. vector # <<>> /\ l \in 0..start
        BY <1>3, <2>0, <4>1
      <4>3. level[i] >= l
        <5>1. found[l] \subseteq at[l]
          BY <1>4, <4>2
        <5> QED
          BY <4>1, <5>1
      <4>4. level'[j] >= l
        <5>1. CASE j = n + 1
          BY <1>2, <1>3, <1>8, <2>0, <4>1, <5>1
        <5>2. CASE j \in neighbors[l][i]
          <6>1. Linked(vector, neighbors[l]) /\ DOMAIN vector = 1..n
            BY <1>2, IndexedLinks DEF n
          <6>2. j \in 1..n
            BY <2>2, <5>2, <6>1 DEF Linked
          <6>3. level[j] >= l
            BY <2>2, <5>2 DEF IndexInv, n
          <6> QED
            BY <1>8, <6>2, <6>3
        <5> QED
          BY <4>1, <5>1, <5>2
      <4> QED
        BY <1>8, <2>2, <4>3, <4>4
    <3> QED
      BY <3>1, <3>2
  <2> QED
    BY <1>2, <2>1, <2>2
<1>10. entry' \in 1..(n + 1) /\ level'[entry'] = maxLevel' /\ maxLevel' \in Layer
  <2>1. CASE lvl > maxLevel
    BY <1>1, <1>2, <1>3, <1>8, <2>1 DEF EntryPoint
  <2>2. CASE ~(lvl > maxLevel)
    <3>1. vector # <<>>
      BY <1>2, <2>2 DEF IndexInv
    <3>2. entry \in 1..n /\ level[entry] = maxLevel /\ maxLevel \in Layer
      BY <3>1 DEF IndexInv, n
    <3>3. entry' = entry /\ maxLevel' = maxLevel
      BY <1>1, <1>3, <2>2 DEF EntryPoint
    <3> QED
      BY <1>2, <1>8, <3>2, <3>3
  <2> QED
    BY <2>1, <2>2
<1>11. vector' # <<>> /\ Len(vector') = n + 1
  BY <1>1, <1>2
<1> HIDE DEF at
<1> QED
  BY <1>1, <1>7, <1>8, <1>9, <1>10, <1>11 DEF IndexInv, vec

\* add keeps the second index, also on a layer that it has just opened.
LEMMA AnnAddKeeps ==
    ASSUME AnnInv, NEW v \in Vector, NEW lvl \in Layer, AnnAdd(v, lvl)
    PROVE  AnnInv' /\ annVector' = Append(annVector, v)
<1> DEFINE vec   == Append(annVector, v)
           n     == Len(annVector)
           top   == Max({lvl, annMaxLayer})
           grown == [l \in Layer |-> Append(annNeighbors[l], {})]
           at    == [l \in Layer |-> 1..n]
           down  == AnnDescend(v, lvl, top)
           found == Searched(vec, grown, v, down, lvl)
<1>1. /\ annVector' = vec
      /\ annNeighbors' =
             IF annEntry = 0 THEN grown
             ELSE [l \in Layer |-> IF l <= lvl THEN Link(vec, grown[l], Len(vec), found[l], l) ELSE grown[l]]
      /\ annEntry' = IF annEntry = 0 \/ lvl >= top THEN Len(vec) ELSE annEntry
      /\ annMaxLayer' = top
  BY DEF AnnAdd, AnnSearchLayer, Searched
<1> HIDE DEF down, found, grown, top
<1>2. /\ Indexed(annVector, annNeighbors) /\ annVector \in Seq(Vector) /\ n \in Nat
      /\ vec \in Seq(Vector) /\ Len(vec) = n + 1
      /\ lvl \in Nat /\ lvl <= TopLayer /\ TopLayer \in Nat /\ annMaxLayer \in Int
      /\ (annVector # <<>> => annMaxLayer \in Nat /\ annMaxLayer <= TopLayer /\ annEntry \in 1..n)
      /\ (annVector = <<>> => annMaxLayer = -1 /\ annEntry = 0)
      /\ (annVector = <<>> <=> n = 0)
  <2>1. annVector \in Seq(Vector) /\ n \in Nat /\ (annVector = <<>> <=> n = 0)
    BY DEF AnnInv, Indexed
  <2>2. vec \in Seq(Vector) /\ Len(vec) = n + 1
    BY <2>1, AppendProperties
  <2> QED
    BY <2>1, <2>2, IndexAssumption DEF AnnInv, Layer
<1> HIDE DEF vec, n
<1>3. top \in Nat /\ lvl <= top /\ top \in Layer
  <2>1. lvl \in Int /\ annMaxLayer \in Int
    BY <1>2
  <2>2. top \in {lvl, annMaxLayer} /\ lvl <= top
    BY <2>1, SmallerOf DEF top
  <2> QED
    BY <1>2, <2>2 DEF Layer
<1>4. annVector # <<>> =>
          /\ \A l \in 0..lvl : found[l] \subseteq 1..Len(annVector)
          /\ Len(annVector) + 1 <= 2 * M + 1 => found[0] = 1..Len(annVector)
  <2> SUFFICES ASSUME annVector # <<>>
               PROVE  /\ \A l \in 0..lvl : found[l] \subseteq 1..Len(annVector)
                      /\ Len(annVector) + 1 <= 2 * M + 1 => found[0] = 1..Len(annVector)
    OBVIOUS
  <2>0. \A l \in Layer : at[l] = 1..n
    OBVIOUS
  <2>1. down \in at[lvl]
    <3>1. Layered(annVector, annNeighbors, at, lvl, top)
      BY <1>2, <1>3, AllLayered DEF n
    <3>2. annEntry \in at[top]
      BY <1>2, <1>3, <2>0
    <3>3. down = Descent(annVector, annNeighbors, v, annEntry, lvl, top)
      BY DEF down, AnnDescend, Descent
    <3> HIDE DEF at
    <3> QED
      BY <3>1, <3>2, <3>3, DescentStaysIn
  <2>2. Layered(vec, grown, at, 0, lvl)
    <3>1. Layered(annVector, annNeighbors, at, 0, lvl)
      <4>1. 0 \in Nat /\ 0 <= lvl
        BY <1>2
      <4> QED
        BY <1>2, <4>1, AllLayered DEF n
    <3> HIDE DEF at
    <3> QED
      BY <1>2, <3>1, GrownLayered DEF grown, vec
  <2> HIDE DEF at
  <2>3. /\ \A l \in 0..lvl : found[l] \subseteq at[l]
        /\ (\A i \in at[0] : grown[0][i] = at[0] \ {i}) => found[0] = Best(vec, v, EfConstruction, at[0])
    <3>1. found = Searched(vec, grown, v, down, lvl)
      BY DEF found
    <3>2. /\ Layered(vec, grown, at, 0, lvl) /\ v \in Vector /\ down \in at[lvl]
      BY <2>1, <2>2
    <3>3. FoundAmong(vec, grown, v, at, lvl, found)
      BY <3>1, <3>2, SearchedStaysIn
    <3> QED
      BY <3>3 DEF FoundAmong
  <2>4. \A l \in 0..lvl : found[l] \subseteq 1..Len(annVector)
    <3>1. \A l \in 0..lvl : l \in Layer
      BY <1>2 DEF Layer
    <3> QED
      BY <2>0, <2>3, <3>1 DEF n
  <2>5. ASSUME Len(annVector) + 1 <= 2 * M + 1 PROVE found[0] = 1..Len(annVector)
    <3>1. at[0] = 1..n
      BY <2>0, IndexAssumption DEF Layer
    <3>2. /\ \A i \in 1..n : grown[0][i] = (1..n) \ {i}
          /\ Best(vec, v, EfConstruction, 1..n) = 1..n
      <4> DEFINE wider == grown
      <4>1. \A l \in Layer : wider[l] = Append(annNeighbors[l], {})
        BY DEF grown
      <4> HIDE DEF wider, at
      <4>2. /\ \A i \in 1..Len(annVector) : wider[0][i] = (1..Len(annVector)) \ {i}
            /\ Best(Append(annVector, v), v, EfConstruction, 1..Len(annVector)) = 1..Len(annVector)
        <5>1. Uncut(annVector, annNeighbors, v, wider)
          BY <1>2, <2>5, <4>1 DEF Uncut
        <5> QED
          BY <5>1, WholeLayerFound
      <4> QED
        BY <4>2 DEF wider, n, vec
    <3> QED
      BY <2>3, <3>1, <3>2 DEF n
  <2> QED
    BY <2>4, <2>5
<1>5. Indexed(vec, annNeighbors')
  <2> DEFINE after == annNeighbors'
             new   == IF annVector = <<>> THEN -1 ELSE lvl
  <2>1. \A l \in Layer : after[l] =
          IF l <= new THEN Link(Append(annVector, v), Append(annNeighbors[l], {}), Len(annVector) + 1, found[l], l)
          ELSE Append(annNeighbors[l], {})
    <3>1. CASE annVector = <<>>
      <4>1. \A l \in Layer : ~(l <= -1)
        BY IndexAssumption DEF Layer
      <4>2. after = grown
        BY <1>1, <1>2, <3>1
      <4> HIDE DEF after
      <4> QED
        BY <3>1, <4>1, <4>2 DEF grown
    <3>2. CASE annVector # <<>>
      <4>1. annEntry # 0
        BY <1>2, <3>2
      <4>2. after = [l \in Layer |-> IF l <= lvl THEN Link(vec, grown[l], n + 1, found[l], l) ELSE grown[l]]
        BY <1>1, <1>2, <4>1
      <4> HIDE DEF after
      <4> QED
        BY <3>2, <4>2 DEF grown, vec, n
    <3> QED
      BY <3>1, <3>2
  <2>2. new \in Int /\ new <= TopLayer /\ (annVector # <<>> => new >= 0)
    BY <1>2
  <2>3. \A l \in 0..new : found[l] \subseteq 1..Len(annVector)
    BY <1>2, <1>4
  <2> HIDE DEF after, new, at
  <2>4. Inserting(annVector, annNeighbors, v, new, found, after)
    BY <1>2, <1>4, <2>1, <2>2, <2>3 DEF Inserting
  <2>5. Inserted(annVector, annNeighbors, v, new, found, after)
    BY <2>4, InsertIs
  <2> QED
    BY <2>5 DEF after, vec, Inserted
<1>6. annVector' # <<>> /\ annEntry' \in 1..Len(annVector') /\ annMaxLayer' \in Layer
  <2>1. annVector' # <<>> /\ Len(annVector') = n + 1 /\ annMaxLayer' \in Layer
    BY <1>1, <1>2, <1>3
  <2>2. annEntry' = n + 1 \/ annEntry' \in 1..n
    BY <1>1, <1>2
  <2> QED
    BY <1>2, <2>1, <2>2
<1> QED
  BY <1>1, <1>5, <1>6 DEF AnnInv, vec

-----------------------------------------------------------------------------
\* The answer to a query is as near as any node, while no list has been cut.
LEMMA Answers ==
    ASSUME NEW vec, NEW lists, Indexed(vec, lists), NEW v \in Vector, vec # <<>>,
           Len(vec) <= 2 * M + 1, NEW first \in 1..Len(vec), NEW hit,
           hit = Nearest(vec, v, SearchLayer(vec, lists[0], v, first, EfSearch))
    PROVE  /\ Distance(vec[hit], v) = Min({Distance(vec[i], v) : i \in DOMAIN vec})
           /\ hit \in DOMAIN vec
           /\ \A i \in DOMAIN vec : Distance(vec[hit], v) <= Distance(vec[i], v)
<1> DEFINE C == DOMAIN vec
           S == {Distance(vec[i], v) : i \in C}
<1>1. /\ vec \in Seq(Vector) /\ C = 1..Len(vec) /\ C # {} /\ 0 \in Layer
      /\ EfSearch \in Nat \ {0} /\ EfSearch \in Nat /\ EfSearch # 0
  BY IndexAssumption DEF Indexed, Layer
<1>2. Linked(vec, lists[0]) /\ \A i \in C : lists[0][i] = C \ {i}
  BY <1>1, IndexedLinks DEF Indexed
<1> HIDE DEF C
<1>3. SearchLayer(vec, lists[0], v, first, EfSearch) = Best(vec, v, EfSearch, C)
  <2> DEFINE links == lists[0]
  <2>1. Linked(vec, links) /\ C \subseteq DOMAIN vec /\ (\A i \in C : links[i] = C \ {i}) /\ first \in C
    BY <1>1, <1>2 DEF C
  <2> HIDE DEF links
  <2>2. SearchLayer(vec, links, v, first, EfSearch) = Best(vec, v, EfSearch, C)
    <3>1. EfSearch \in Nat \ {0}
      BY <1>1
    <3>2. Linked(vec, links) /\ C \subseteq DOMAIN vec /\ first \in C /\ \A i \in C : links[i] = C \ {i}
      BY <2>1
    <3> HIDE DEF C
    <3> QED
      BY <3>1, <3>2, SearchFindsBest
  <2> QED
    BY <2>2 DEF links
<1> DEFINE B == Best(vec, v, EfSearch, C)
<1>4. B \subseteq C /\ Nearest(vec, v, C) \in B /\ C \subseteq DOMAIN vec
  <2>1. C \subseteq DOMAIN vec
    BY DEF C
  <2> QED
    BY <1>1, <2>1, BestIs
<1> HIDE DEF B
<1>5. /\ hit \in C
      /\ Distance(vec[hit], v) <= Distance(vec[Nearest(vec, v, C)], v)
  <2>1. hit = Nearest(vec, v, B)
    BY <1>3 DEF B
  <2>2. B \subseteq DOMAIN vec /\ B # {}
    BY <1>4
  <2> QED
    BY <1>1, <1>4, <2>1, <2>2, NearestIs
<1>6. \A i \in C : Distance(vec[Nearest(vec, v, C)], v) <= Distance(vec[i], v) /\ Nearest(vec, v, C) \in C
  BY <1>1, <1>4, NearestIs
<1>7. \A i \in C : Distance(vec[i], v) \in Nat
  BY <1>1, Nearness DEF C
<1> DEFINE d == Distance(vec[hit], v)
<1>8. \A i \in C : d <= Distance(vec[i], v)
  BY <1>5, <1>6, <1>7
<1>9. d \in S /\ S \subseteq Nat /\ \A x \in S : d <= x
  BY <1>5, <1>7, <1>8
<1> HIDE DEF S, d
<1>10. Min(S) = CHOOSE x \in S : \A y \in S : x <= y
  BY DEF Min
<1>11. Min(S) \in S /\ \A y \in S : Min(S) <= y
  BY <1>9, <1>10
<1>12. Min(S) = d
  <2>1. d \in Nat /\ Min(S) \in Nat /\ d <= Min(S) /\ Min(S) <= d
    BY <1>9, <1>11
  <2> QED
    BY <2>1
<1> QED
  BY <1>5, <1>8, <1>12 DEF S, d, C

-----------------------------------------------------------------------------
\* The first index holds directions, so that all its vectors have one length.
OnCircle == \A i \in DOMAIN vector : vector[i] \in {x.unit : x \in Point}

\* add keeps the first index, with a new direction or without one.
LEMMA AddKeeps ==
    ASSUME IndexInv, OnCircle, NEW x \in Point, NEW lvl \in Layer, Add(x, lvl)
    PROVE  IndexInv' /\ OnCircle'
<1>1. CASE x.norm = 0 /\ UNCHANGED indexVars
  BY <1>1 DEF IndexInv, OnCircle, indexVars
<1>2. CASE Insert(Normalized(x), lvl)
  <2>1. Normalized(x) \in Vector /\ Normalized(x) \in {y.unit : y \in Point}
    BY PointAssumption DEF Normalized
  <2>2. IndexInv' /\ vector' = Append(vector, Normalized(x))
    BY <1>2, <2>1, InsertKeeps
  <2>3. vector \in Seq(Vector)
    BY DEF IndexInv, Indexed
  <2>4. \A i \in DOMAIN vector' : \/ i \in DOMAIN vector /\ vector'[i] = vector[i]
                                  \/ vector'[i] = Normalized(x)
    BY <2>1, <2>2, <2>3, AppendProperties
  <2> QED
    BY <2>1, <2>2, <2>4 DEF OnCircle
<1> QED
  BY <1>1, <1>2 DEF Add

\* The queries together.
LookupInv ==
    /\ QueryInv
    /\ IndexInv
    /\ OnCircle
    /\ AnnInv

\* A step of the path query leaves the indexes alone.
LEMMA IndexesKept ==
    ASSUME IndexInv, OnCircle, AnnInv, UNCHANGED <<indexVars, annVars>>
    PROVE  IndexInv' /\ OnCircle' /\ AnnInv'
  BY DEF IndexInv, OnCircle, AnnInv, indexVars, annVars

\* A query is asked of nodes that may be named, on a view that may be served.
LEMMA AskPathKeeps ==
    ASSUME AskPath
    PROVE  QueryInv'
<1>1. PICK view \in View, a \in Node, b \in Node, d \in 0..MaxDepth :
         \E links \in SUBSET {l \in SUBSET view : Cardinality(l) = 2} : Ask(view, links, a, b, d)
  BY DEF AskPath
<1>2. PICK links \in SUBSET {l \in SUBSET view : Cardinality(l) = 2} : Ask(view, links, a, b, d)
  BY <1>1
<1>3. d \in Nat /\ NoNode \notin view
  BY ViewAssumption, DepthAssumption
<1> QED
  BY <1>2, <1>3, AskAnswers

\* The vector of an embedding is a pair of integers.
LEMMA RawIs == ASSUME NEW x \in Point PROVE Raw(x) \in Vector
<1>1. x.norm \in Int /\ x.unit[1] \in Int /\ x.unit[2] \in Int
  BY PointAssumption DEF Vector
<1>2. x.norm * x.unit[1] \in Int /\ x.norm * x.unit[2] \in Int
  BY <1>1
<1> QED
  BY <1>2 DEF Raw, Vector

\* An embedding goes into both indexes, or into the second alone.
LEMMA IndexNodeKeeps ==
    ASSUME IndexInv, OnCircle, AnnInv, IndexNode
    PROVE  IndexInv' /\ OnCircle' /\ AnnInv'
<1>1. PICK x \in Point, l \in Layer : Add(x, l) /\ AnnAdd(Raw(x), l)
  BY DEF IndexNode
<1>2. IndexInv' /\ OnCircle'
  BY <1>1, AddKeeps
<1>3. Raw(x) \in Vector
  BY RawIs
<1>4. AnnInv'
  BY <1>1, <1>3, AnnAddKeeps
<1> QED
  BY <1>2, <1>4

\* The inductive invariant of the queries: a search has found every node within
\* the links it has followed, and no neighbour list of layer 0 has left anything
\* out before there were more nodes than it may hold.
THEOREM LookupInvariance == Spec => []LookupInv
<1>1. Init => LookupInv
  <2>1. IndexInit => OnCircle
    BY DEF IndexInit, OnCircle
  <2> QED
    BY <2>1, QueryStarts, IndexStarts, AnnStarts DEF Init, LookupInv
<1>2. LookupInv /\ [Next]_vars => LookupInv'
  <2> SUFFICES ASSUME LookupInv, [Next]_vars PROVE LookupInv'
    OBVIOUS
  <2>0. QueryInv /\ IndexInv /\ OnCircle /\ AnnInv
    BY DEF LookupInv
  <2>1. CASE AskPath /\ UNCHANGED <<indexVars, annVars>>
    BY <2>0, <2>1, AskPathKeeps, IndexesKept DEF LookupInv
  <2>2. CASE SearchStep /\ UNCHANGED <<indexVars, annVars>>
    BY <2>0, <2>2, SearchStepKeeps, IndexesKept DEF LookupInv
  <2>3. CASE IndexNode /\ UNCHANGED queryVars
    BY <2>0, <2>3, IndexNodeKeeps, QueryKept DEF LookupInv
  <2>4. CASE UNCHANGED vars
    <3>1. UNCHANGED queryVars /\ UNCHANGED <<indexVars, annVars>>
      BY <2>4 DEF vars
    <3> QED
      BY <2>0, <3>1, QueryKept, IndexesKept DEF LookupInv
  <2> QED
    BY <2>1, <2>2, <2>3, <2>4 DEF Next
<1> QED
  BY <1>1, <1>2, PTL DEF Spec

\* find_known_bad_actor_path answers with a path of the view between the nodes
\* asked for, and no path is shorter; it answers with none only when the nodes
\* are farther apart than its searches reach (dashboard_path_query.py).
THEOREM PathsAreShortest == Spec => []ShortestWithinBound
<1>1. LookupInv => ShortestWithinBound
  BY ShortestAnswer DEF LookupInv
<1> QED
  BY <1>1, LookupInvariance, PTL

\* A list of a layer leads to nodes that have a list there, and a search begins
\* at a node of the top layer (hnsw_index.py).
THEOREM LayersAreSound == Spec => []LayersSound
<1>1. LookupInv => LayersSound
  <2> SUFFICES ASSUME IndexInv PROVE LayersSound
    BY DEF LookupInv
  <2>1. DOMAIN vector = 1..Len(vector)
    BY DEF IndexInv, Indexed
  <2> QED
    BY <2>1 DEF IndexInv, LayersSound
<1> QED
  BY <1>1, LookupInvariance, PTL

\* Where a descent ends is a node of the index.
LEMMA DescentEnds ==
    ASSUME NEW vec, NEW lists, Indexed(vec, lists), NEW top \in Layer,
           NEW first \in 1..Len(vec), NEW v \in Vector
    PROVE  Descent(vec, lists, v, first, 0, top) \in 1..Len(vec)
<1> DEFINE at == [l \in Layer |-> 1..Len(vec)]
<1>1. 0 \in Nat /\ 0 <= top
  BY IndexAssumption DEF Layer
<1>2. Layered(vec, lists, at, 0, top)
  BY <1>1, AllLayered
<1>3. first \in at[top] /\ at[0] = 1..Len(vec)
  BY IndexAssumption DEF Layer
<1> HIDE DEF at
<1>4. Descent(vec, lists, v, first, 0, top) \in at[0]
  BY <1>2, <1>3, DescentStaysIn
<1> QED
  BY <1>3, <1>4

\* Until a list of layer 0 had to be cut, each index answers every query with what
\* its own measure ranks first, in whatever order the nodes were added and whatever
\* levels were drawn: ann_hnsw.py as the exhaustive scan of campaign_predictor.py,
\* hnsw_index.py as a scan by the cosine would.
THEOREM ExactWhileUncut == Spec => []ExactUntilCut
<1>1. ASSUME LookupInv, vector # <<>>, Len(vector) <= 2 * M + 1, NEW x \in Point, x.norm # 0
      PROVE  Similarity(vector[Query(x)], Normalized(x)) = BestSimilarity(Normalized(x))
  <2> DEFINE v     == Normalized(x)
             first == Descend(v, 0)
             found == Query(x)
             C     == DOMAIN vector
             S     == {Similarity(vector[i], v) : i \in C}
  <2>0. v \in Vector
    BY PointAssumption DEF Normalized
  <2>1. Indexed(vector, neighbors) /\ entry \in 1..Len(vector) /\ maxLevel \in Layer
    BY <1>1 DEF LookupInv, IndexInv
  <2>2. found = Nearest(vector, v, SearchLayer(vector, neighbors[0], v, first, EfSearch))
    <3>1. entry # 0
      BY <2>1
    <3> QED
      BY <1>1, <3>1 DEF Query, Match
  <2>3. first = Descent(vector, neighbors, v, entry, 0, maxLevel)
    BY DEF Descend, Descent
  <2> HIDE DEF v, first, found
  <2>4. first \in 1..Len(vector)
    BY <2>0, <2>1, <2>3, DescentEnds
  <2>5. found \in C /\ \A i \in C : Distance(vector[found], v) <= Distance(vector[i], v)
    BY <1>1, <2>0, <2>1, <2>2, <2>4, Answers
  <2>6. \A i, j \in C : vector[i] \in Vector /\ Similarity(vector[i], vector[i]) = Similarity(vector[j], vector[j])
    BY <1>1, PointAssumption DEF LookupInv, OnCircle
  <2>7. \A i \in C : /\ Similarity(vector[i], v) \in Int
                     /\ Similarity(vector[i], v) <= Similarity(vector[found], v)
    <3> HIDE DEF C
    <3> QED
      BY <2>0, <2>5, <2>6, NearerIsMoreSimilar
  <2> DEFINE s == Similarity(vector[found], v)
  <2>8. s \in S /\ S \subseteq Int /\ \A y \in S : y <= s
    <3> HIDE DEF C
    <3> QED
      BY <2>5, <2>7
  <2>9. BestSimilarity(v) = Max(S)
    BY DEF BestSimilarity
  <2> HIDE DEF S, s
  <2>10. Max(S) \in S /\ \A y \in S : Max(S) >= y
    <3>1. Max(S) = CHOOSE z \in S : \A y \in S : z >= y
      BY DEF Max
    <3> QED
      BY <2>8, <3>1
  <2>11. Max(S) = s
    <3>1. s \in Int /\ Max(S) \in Int /\ s <= Max(S) /\ Max(S) <= s
      BY <2>8, <2>10
    <3> QED
      BY <3>1
  <2> QED
    BY <2>9, <2>11 DEF s, v, found
<1>2. ASSUME LookupInv, annVector # <<>>, Len(annVector) <= 2 * M + 1, NEW x \in Point
      PROVE  Distance(annVector[AnnQuery(Raw(x))], Raw(x)) = ScanDistance(Raw(x))
  <2> DEFINE v     == Raw(x)
             first == AnnDescend(v, 0, annMaxLayer)
             found == AnnQuery(v)
  <2>0. v \in Vector
    BY RawIs
  <2>1. Indexed(annVector, annNeighbors) /\ annEntry \in 1..Len(annVector) /\ annMaxLayer \in Layer
    BY <1>2 DEF LookupInv, AnnInv
  <2>2. found = Nearest(annVector, v, SearchLayer(annVector, annNeighbors[0], v, first, EfSearch))
    <3>1. annEntry # 0
      BY <2>1
    <3> QED
      BY <3>1 DEF AnnQuery, AnnSearchLayer
  <2>3. first = Descent(annVector, annNeighbors, v, annEntry, 0, annMaxLayer)
    BY DEF AnnDescend, Descent
  <2> HIDE DEF v, first, found
  <2>4. first \in 1..Len(annVector)
    BY <2>0, <2>1, <2>3, DescentEnds
  <2>5. Distance(annVector[found], v) = Min({Distance(annVector[i], v) : i \in DOMAIN annVector})
    BY <1>2, <2>0, <2>1, <2>2, <2>4, Answers
  <2> QED
    BY <2>5 DEF found, v, ScanDistance
<1>3. LookupInv => ExactUntilCut
  BY <1>1, <1>2 DEF ExactUntilCut
<1> QED
  BY <1>3, LookupInvariance, PTL

=============================================================================
