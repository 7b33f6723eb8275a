------------------------------ MODULE Recursion ------------------------------
(***************************************************************************)
(* What the proofs about recursive definitions rest on: a set of naturals  *)
(* has a smallest element, and a function that is defined by its value at  *)
(* one other argument, of a smaller measure, exists.                       *)
(*                                                                         *)
(* The library's induction theorems take an operator as a parameter, which *)
(* the provers cannot instantiate.  Here the step of a recursion is a      *)
(* function, and a proof by induction looks at the smallest counterexample.*)
(***************************************************************************)
EXTENDS Integers, FiniteSets, FiniteSetTheorems, WellFoundedInduction, TLAPS

\* A set of natural numbers has a smallest one.
LEMMA SmallestOf ==
    ASSUME NEW T, T \subseteq Nat, T # {}
    PROVE  \E m \in T : \A k \in T : m <= k
<1>1. PICK R : R = OpToRel(<, Nat)
  OBVIOUS
<1>2. IsWellFoundedOn(R, Nat)
  BY <1>1, NatLessThanWellFounded
<1>3. \A m, k \in Nat : k < m => <<k, m>> \in R
  BY <1>1 DEF OpToRel
<1>4. PICK m \in T : \A k \in T : ~(<<k, m>> \in R)
  BY <1>2, WFMin
<1>5. \A k \in T : ~(k < m)
  BY <1>3, <1>4
<1>6. \A k \in Nat : ~(k < m) => m <= k
  OBVIOUS
<1> QED
  BY <1>5, <1>6

\* A set that has 0 and, with each number, the next, has them all.
LEMMA AllNumbers ==
    ASSUME NEW G, 0 \in G, \A n \in Nat : n \in G => n + 1 \in G
    PROVE  Nat \subseteq G
<1> SUFFICES ASSUME Nat \ G # {} PROVE FALSE
  OBVIOUS
<1>1. PICK m \in Nat \ G : \A k \in Nat \ G : m <= k
  BY SmallestOf
<1>2. m - 1 \in Nat /\ m - 1 \in G
  BY <1>1
<1>3. (m - 1) + 1 \in G
  BY <1>2
<1> QED
  BY <1>1, <1>3

\* A function of S to V by its value at the next argument, up to where the
\* recursion stops: next lowers the measure mu.
Descends(S, V, mu, stop, next, base, op) ==
    /\ mu \in [S -> Nat] /\ next \in [S -> S]
    /\ base \in [S -> V] /\ op \in [S \X V -> V]
    /\ \A x \in S : x \notin stop => mu[next[x]] < mu[x]

Recurses(f, S, V, stop, next, base, op) ==
    /\ f \in [S -> V]
    /\ \A x \in S : f[x] = IF x \in stop THEN base[x] ELSE op[<<x, f[next[x]]>>]

\* The function is built for arguments of larger and larger measure: of two
\* that satisfy the equation so far, each is a part of the other.
LEMMA RecursionAlong ==
    ASSUME NEW S, NEW V, NEW mu, NEW stop, NEW next, NEW base, NEW op,
           Descends(S, V, mu, stop, next, base, op)
    PROVE  \E f : Recurses(f, S, V, stop, next, base, op)
<1> /\ mu \in [S -> Nat] /\ next \in [S -> S]
    /\ base \in [S -> V] /\ op \in [S \X V -> V]
    /\ \A x \in S : x \notin stop => mu[next[x]] < mu[x]
  BY DEF Descends
<1> DEFINE Below(n) == {x \in S : mu[x] < n}
           Parts(n) == {g \in [Below(n) -> V] :
                          \A x \in Below(n) : g[x] = IF x \in stop THEN base[x] ELSE op[<<x, g[next[x]]>>]}
           Built    == {n \in Nat : Parts(n) # {}}
<1>1. 0 \in Built
  <2>1. Below(0) = {}
    OBVIOUS
  <2>2. [x \in {} |-> x] \in Parts(0)
    BY <2>1
  <2> QED
    BY <2>2
<1>2. ASSUME NEW n \in Nat, n \in Built PROVE n + 1 \in Built
  <2>1. PICK g : g \in Parts(n)
    BY <1>2
  <2>2. \A x \in Below(n + 1) : x \notin stop => next[x] \in Below(n)
    OBVIOUS
  <2> DEFINE h == [x \in Below(n + 1) |-> IF x \in stop THEN base[x] ELSE op[<<x, g[next[x]]>>]]
  <2>3. \A x \in Below(n) : x \in Below(n + 1) /\ h[x] = g[x]
    BY <2>1
  <2>4. \A x \in Below(n + 1) : x \notin stop => op[<<x, g[next[x]]>>] \in V
    BY <2>1, <2>2
  <2>5. h \in [Below(n + 1) -> V]
    BY <2>4
  <2>6. ASSUME NEW x \in Below(n + 1)
        PROVE  h[x] = IF x \in stop THEN base[x] ELSE op[<<x, h[next[x]]>>]
    <3>1. CASE x \in stop
      BY <3>1
    <3>2. CASE x \notin stop
      <4>1. next[x] \in Below(n) /\ h[next[x]] = g[next[x]]
        BY <2>2, <2>3, <3>2
      <4>2. h[x] = op[<<x, g[next[x]]>>]
        BY <3>2
      <4> HIDE DEF h
      <4> QED
        BY <3>2, <4>1, <4>2
    <3> QED
      BY <3>1, <3>2
  <2>7. h \in Parts(n + 1)
    BY <2>5, <2>6
  <2> HIDE DEF Parts
  <2> QED
    BY <2>7
<1>3. Nat \subseteq Built
  <2> HIDE DEF Built
  <2> QED
    BY <1>1, <1>2, AllNumbers
<1>4. ASSUME NEW n \in Nat, NEW m \in Nat, NEW g \in Parts(n), NEW h \in Parts(m)
      PROVE  \A x \in Below(n) \cap Below(m) : g[x] = h[x]
  <2> DEFINE Apart == {k \in Nat : \E x \in Below(n) \cap Below(m) : mu[x] = k /\ g[x] # h[x]}
  <2>1. SUFFICES ASSUME Apart # {} PROVE FALSE
    OBVIOUS
  <2>2. PICK k \in Apart : \A j \in Apart : k <= j
    <3> HIDE DEF Apart
    <3>1. Apart \subseteq Nat
      BY DEF Apart
    <3> QED
      BY <2>1, <3>1, SmallestOf
  <2>3. PICK x \in Below(n) \cap Below(m) : mu[x] = k /\ g[x] # h[x]
    BY <2>2
  <2>4. x \notin stop
    BY <2>3
  <2>5. next[x] \in Below(n) \cap Below(m) /\ mu[next[x]] < k /\ mu[next[x]] \in Nat
    BY <2>3, <2>4
  <2>6. g[next[x]] = h[next[x]]
    BY <2>2, <2>5
  <2> QED
    BY <2>3, <2>4, <2>6
<1> DEFINE Part(n) == CHOOSE g : g \in Parts(n)
           f       == [x \in S |-> Part(mu[x] + 1)[x]]
<1>5. \A n \in Nat : Part(n) \in Parts(n)
  <2>1. \A n \in Nat : Parts(n) # {}
    BY <1>3
  <2> HIDE DEF Parts
  <2> QED
    BY <2>1
<1>6. \A x \in S : x \in Below(mu[x] + 1)
  OBVIOUS
<1>7. \A n \in Nat : \A g \in Parts(n) : \A x \in Below(n) :
          /\ g[x] \in V
          /\ g[x] = IF x \in stop THEN base[x] ELSE op[<<x, g[next[x]]>>]
  OBVIOUS
<1> HIDE DEF Part, Built, Parts, Below
<1>8. ASSUME NEW x \in S PROVE f[x] \in V
  <2>1. Part(mu[x] + 1) \in Parts(mu[x] + 1) /\ x \in Below(mu[x] + 1) /\ mu[x] + 1 \in Nat
    <3>1. mu[x] + 1 \in Nat
      OBVIOUS
    <3> QED
      BY <3>1, <1>5, <1>6
  <2> QED
    BY <2>1, <1>7
<1>9. ASSUME NEW x \in S
      PROVE  f[x] = IF x \in stop THEN base[x] ELSE op[<<x, f[next[x]]>>]
  <2>1. Part(mu[x] + 1) \in Parts(mu[x] + 1) /\ x \in Below(mu[x] + 1) /\ mu[x] + 1 \in Nat
    <3>1. mu[x] + 1 \in Nat
      OBVIOUS
    <3> QED
      BY <3>1, <1>5, <1>6
  <2>2. CASE x \in stop
    BY <2>1, <2>2, <1>7
  <2>3. CASE x \notin stop
    <3>1. next[x] \in S /\ mu[next[x]] < mu[x]
      BY <2>3
    <3>2. next[x] \in Below(mu[x] + 1) \cap Below(mu[next[x]] + 1)
      BY <3>1 DEF Below
    <3>3. Part(mu[next[x]] + 1) \in Parts(mu[next[x]] + 1)
      BY <1>5, <3>1
    <3>4. Part(mu[x] + 1)[next[x]] = Part(mu[next[x]] + 1)[next[x]]
      BY <1>4, <2>1, <3>1, <3>2, <3>3
    <3>5. Part(mu[x] + 1)[x] = op[<<x, Part(mu[x] + 1)[next[x]]>>]
      BY <2>1, <2>3, <1>7
    <3> QED
      BY <2>3, <3>1, <3>4, <3>5
  <2> QED
    BY <2>2, <2>3
<1>10. f \in [S -> V]
  BY <1>8
<1> QED
  BY <1>9, <1>10 DEF Recurses

=============================================================================
