----------------------------- MODULE Recursion -----------------------------
(***************************************************************************)
(* Induction over the natural numbers, functions defined by recursion and  *)
(* sums over finite sets, as facts about sets and functions.  (The library *)
(* states induction for a predicate parameter, which the provers cannot    *)
(* instantiate.)                                                           *)
(***************************************************************************)
EXTENDS Integers, FiniteSets, FiniteSetTheorems, WellFoundedInduction, TLAPS

(* A set of naturals that is not empty has a least element. *)
LEMMA LeastExists ==
    ASSUME NEW T, T \subseteq Nat, T # {}
    PROVE  \E x \in T : \A y \in T : x <= y
<1>. DEFINE R == OpToRel(<, Nat)
<1>1. IsWellFoundedOn(R, Nat)
  BY NatLessThanWellFounded
<1>. HIDE DEF R
<1>2. PICK x \in T : \A y \in T : ~(<<y, x>> \in R)
  BY <1>1, WFMin
<1>3. \A y \in T : ~(y < x)
  BY <1>2 DEF R, OpToRel
<1>4. \A y \in T : x <= y
  BY <1>3
<1>. QED BY <1>4

(* A set of naturals that is bounded and not empty has a greatest one. *)
LEMMA GreatestExists ==
    ASSUME NEW b \in Nat, NEW T, T \subseteq 0 .. b, T # {}
    PROVE  \E x \in T : \A y \in T : y <= x
<1>. DEFINE D == {b - x : x \in T}
<1>1. D \subseteq Nat /\ D # {}
  <2>1. \A x \in T : b - x \in Nat
    OBVIOUS
  <2>2. PICK x \in T : TRUE
    OBVIOUS
  <2>3. b - x \in D
    OBVIOUS
  <2>. QED BY <2>1, <2>3
<1>2. \E d \in D : \A c \in D : d <= c
  <2>. HIDE DEF D
  <2>. QED BY <1>1, LeastExists
<1>. QED BY <1>2

(* Induction: a set with 0 that is closed under successor holds every      *)
(* natural.                                                                *)
LEMMA SetInduction ==
    ASSUME NEW S, 0 \in S, \A n \in Nat : n \in S => n + 1 \in S
    PROVE  Nat \subseteq S
<1>. DEFINE T == Nat \ S
<1>. SUFFICES ASSUME T # {} PROVE FALSE
  OBVIOUS
<1>1. T \subseteq Nat
  OBVIOUS
<1>. HIDE DEF T
<1>2. PICK x \in T : \A y \in T : x <= y
  BY <1>1, LeastExists
<1>3. x \in Nat /\ x # 0 /\ x \notin S
  BY DEF T
<1>4. x - 1 \in Nat /\ ~(x <= x - 1) /\ (x - 1) + 1 = x
  BY <1>3
<1>5. x - 1 \in S
  BY <1>2, <1>4 DEF T
<1>. QED BY <1>3, <1>4, <1>5

(* The first n steps of f follow h from x, all of them do. *)
Follows(f, n, x, h) ==
    f[0] = x /\ \A i \in 1 .. n : f[i] = h[i - 1][f[i - 1]]

Iterates(f, X, x, h) ==
    f \in [Nat -> X] /\ f[0] = x /\ \A n \in Nat : f[n + 1] = h[n][f[n]]

Steps(X) == [Nat -> [X -> X]]

(* A function may be defined by recursion: from x, h[n] takes the value at *)
(* n to the value at n + 1.                                                *)
LEMMA RecursionExists ==
    ASSUME NEW X, NEW x \in X, NEW h \in Steps(X)
    PROVE  \E f : Iterates(f, X, x, h)
<1>. USE DEF Iterates, Steps
<1>. DEFINE Part(n) == {f \in [0 .. n -> X] : Follows(f, n, x, h)}
            S == {n \in Nat : Part(n) # {}}
<1>1. 0 \in S
  <2>1. [i \in 0 .. 0 |-> x] \in Part(0)
    BY DEF Follows
  <2>. QED BY <2>1
<1>2. ASSUME NEW n \in Nat, n \in S PROVE n + 1 \in S
  <2>1. PICK f \in [0 .. n -> X] : Follows(f, n, x, h)
    BY <1>2
  <2>. DEFINE g == [i \in 0 .. n + 1 |-> IF i = n + 1 THEN h[n][f[n]] ELSE f[i]]
  <2>2. f[n] \in X /\ h[n][f[n]] \in X
    OBVIOUS
  <2>3. g \in [0 .. n + 1 -> X]
    BY <2>2
  <2>4. g[0] = x
    BY <2>1 DEF Follows
  <2>5. ASSUME NEW i \in 1 .. n + 1 PROVE g[i] = h[i - 1][g[i - 1]]
    <3>1. CASE i = n + 1
      <4>1. i - 1 = n /\ g[n] = f[n] /\ g[i] = h[n][f[n]]
        BY <3>1
      <4>. QED BY <4>1
    <3>2. CASE i # n + 1
      <4>1. i \in 1 .. n /\ i - 1 \in 0 .. n /\ i - 1 # n + 1
        BY <3>2
      <4>. QED BY <2>1, <4>1 DEF Follows
    <3>. QED BY <3>1, <3>2
  <2>6. g \in Part(n + 1)
    BY <2>3, <2>4, <2>5 DEF Follows
  <2>. QED BY <2>6
<1>3. Nat \subseteq S
  <2>. HIDE DEF S
  <2>. QED BY <1>1, <1>2, SetInduction
<1>. DEFINE P == [n \in Nat |-> CHOOSE f \in Part(n) : TRUE]
            F == [n \in Nat |-> P[n][n]]
<1>4. \A n \in Nat : P[n] \in [0 .. n -> X] /\ Follows(P[n], n, x, h)
  BY <1>3
<1>. HIDE DEF P
<1>5. \A n \in Nat : \A m \in Nat : m >= n => P[m][n] = P[n][n]
  <2>. DEFINE A == {i \in Nat : \A k, m \in Nat : k >= i /\ m >= i => P[m][i] = P[k][i]}
  <2>1. 0 \in A
    BY <1>4 DEF Follows
  <2>2. ASSUME NEW i \in Nat, i \in A PROVE i + 1 \in A
    <3>. SUFFICES ASSUME NEW k \in Nat, NEW m \in Nat, k >= i + 1, m >= i + 1
                  PROVE  P[m][i + 1] = P[k][i + 1]
      OBVIOUS
    <3>1. i + 1 \in 1 .. k /\ i + 1 \in 1 .. m /\ (i + 1) - 1 = i /\ k >= i /\ m >= i
      OBVIOUS
    <3>2. P[m][i] = P[k][i]
      BY <2>2, <3>1
    <3>3. P[m][i + 1] = h[(i + 1) - 1][P[m][(i + 1) - 1]]
      BY <1>4, <3>1 DEF Follows
    <3>4. P[k][i + 1] = h[(i + 1) - 1][P[k][(i + 1) - 1]]
      BY <1>4, <3>1 DEF Follows
    <3>. QED BY <3>1, <3>2, <3>3, <3>4
  <2>3. Nat \subseteq A
    <3>. HIDE DEF A
    <3>. QED BY <2>1, <2>2, SetInduction
  <2>. QED BY <2>3
<1>6. F \in [Nat -> X]
  BY <1>4
<1>7. F[0] = x
  BY <1>4 DEF Follows
<1>8. ASSUME NEW n \in Nat PROVE F[n + 1] = h[n][F[n]]
  <2>1. n + 1 \in 1 .. n + 1 /\ n + 1 \in Nat /\ (n + 1) - 1 = n /\ n + 1 >= n
    OBVIOUS
  <2>2. P[n + 1][n + 1] = h[n][P[n + 1][n]]
    BY <1>4, <2>1 DEF Follows
  <2>3. P[n + 1][n] = P[n][n]
    BY <1>5, <2>1
  <2>. QED BY <2>1, <2>2, <2>3
<1>. HIDE DEF F
<1>. QED BY <1>6, <1>7, <1>8

-----------------------------------------------------------------------------
(* Sums over finite sets, as the folds of the library compute them.        *)

AnyOf(s) == CHOOSE x \in s : TRUE

Sums(g, S, d) ==
    \A s \in SUBSET S : g[s] = IF s = {} THEN 0 ELSE d[AnyOf(s)] + g[s \ {AnyOf(s)}]

(* A set that is not empty, without one of its elements. *)
LEMMA OneLess ==
    ASSUME NEW S, IsFiniteSet(S), NEW s \in SUBSET S
    PROVE  /\ IsFiniteSet(s) /\ Cardinality(s) \in Nat
           /\ Cardinality(s) = 0 <=> s = {}
           /\ s # {} => AnyOf(s) \in s
           /\ \A x \in s : s \ {x} \in SUBSET S /\ Cardinality(s \ {x}) = Cardinality(s) - 1
<1>1. IsFiniteSet(s)
  BY FS_Subset
<1>2. Cardinality(s) \in Nat /\ (Cardinality(s) = 0 <=> s = {})
  BY <1>1, FS_CardinalityType, FS_EmptySet
<1>3. s # {} => AnyOf(s) \in s
  BY DEF AnyOf
<1>4. \A x \in s : Cardinality(s \ {x}) = Cardinality(s) - 1
  BY <1>1, FS_RemoveElement
<1>. QED BY <1>1, <1>2, <1>3, <1>4

(* A sum exists: on sets of at most n elements the n-th of its             *)
(* approximations is final.                                                *)
LEMMA SumExists ==
    ASSUME NEW S, IsFiniteSet(S), NEW d \in [S -> Nat]
    PROVE  \E g \in [SUBSET S -> Nat] : Sums(g, S, d)
<1>. DEFINE X == [SUBSET S -> Nat]
            e(g, s) == IF s = {} THEN 0 ELSE d[AnyOf(s)] + g[s \ {AnyOf(s)}]
            z == [s \in SUBSET S |-> 0]
            h == [n \in Nat |-> [g \in X |-> [s \in SUBSET S |-> e(g, s)]]]
<1>1. ASSUME NEW g \in X, NEW s \in SUBSET S PROVE e(g, s) \in Nat
  <2>1. CASE s = {}
    BY <2>1
  <2>2. CASE s # {}
    <3>1. AnyOf(s) \in S /\ s \ {AnyOf(s)} \in SUBSET S
      BY <2>2, OneLess
    <3>. QED BY <2>2, <3>1
  <2>. QED BY <2>1, <2>2
<1>2. h \in Steps(X) /\ \A n \in Nat : \A g \in X : h[n][g] = [s \in SUBSET S |-> e(g, s)]
  <2>. HIDE DEF e
  <2>. QED BY <1>1 DEF Steps
<1>3. z \in X
  OBVIOUS
<1>. HIDE DEF X, h, z
<1>4. \E f : Iterates(f, X, z, h)
  BY <1>2, <1>3, RecursionExists
<1>5. PICK f : Iterates(f, X, z, h)
  BY <1>4
<1>6. /\ f \in [Nat -> X] /\ f[0] = z
      /\ \A n \in Nat : \A s \in SUBSET S : f[n + 1][s] = e(f[n], s)
  <2>1. f \in [Nat -> X] /\ f[0] = z /\ \A n \in Nat : f[n + 1] = h[n][f[n]]
    BY <1>5 DEF Iterates
  <2>. HIDE DEF e
  <2>2. ASSUME NEW n \in Nat PROVE f[n + 1] = [s \in SUBSET S |-> e(f[n], s)]
    <3>1. f[n] \in X
      BY <2>1
    <3>. QED BY <1>2, <2>1, <3>1
  <2>3. ASSUME NEW n \in Nat, NEW s \in SUBSET S PROVE f[n + 1][s] = e(f[n], s)
    BY <2>2
  <2>. QED BY <2>1, <2>3
<1>7. \A n \in Nat : f[n][{}] = 0
  <2>1. f[0][{}] = 0
    BY <1>6 DEF z
  <2>2. ASSUME NEW n \in Nat PROVE f[n + 1][{}] = 0
    BY <1>6
  <2>. DEFINE A == {n \in Nat : f[n][{}] = 0}
  <2>3. 0 \in A /\ \A n \in Nat : n \in A => n + 1 \in A
    BY <2>1, <2>2
  <2>4. Nat \subseteq A
    <3>. HIDE DEF A
    <3>. QED BY <2>3, SetInduction
  <2>. QED BY <2>4
<1>8. ASSUME NEW n \in Nat, NEW m \in Nat, m >= n, NEW s \in SUBSET S, Cardinality(s) <= n
      PROVE  f[m][s] = f[n][s]
  <2>. DEFINE A == {i \in Nat : \A k \in Nat : \A t \in SUBSET S :
                        k >= i /\ Cardinality(t) <= i => f[k][t] = f[i][t]}
  <2>1. 0 \in A
    <3>. SUFFICES ASSUME NEW k \in Nat, NEW t \in SUBSET S, Cardinality(t) <= 0
                  PROVE  f[k][t] = f[0][t]
      OBVIOUS
    <3>1. t = {}
      BY OneLess
    <3>. QED BY <1>7, <3>1
  <2>2. ASSUME NEW i \in Nat, i \in A PROVE i + 1 \in A
    <3>. SUFFICES ASSUME NEW k \in Nat, NEW t \in SUBSET S, k >= i + 1, Cardinality(t) <= i + 1
                  PROVE  f[k][t] = f[i + 1][t]
      OBVIOUS
    <3>1. CASE t = {}
      BY <1>7, <3>1
    <3>2. CASE t # {}
      <4>. DEFINE u == t \ {AnyOf(t)}
      <4>1. u \in SUBSET S /\ Cardinality(u) = Cardinality(t) - 1 /\ Cardinality(t) \in Nat
        BY <3>2, OneLess
      <4>2. k - 1 \in Nat /\ (k - 1) + 1 = k /\ k - 1 >= i /\ Cardinality(u) <= i
        <5>. HIDE DEF u
        <5>. QED BY <4>1
      <4>3. f[(k - 1) + 1][t] = d[AnyOf(t)] + f[k - 1][u] /\ f[i + 1][t] = d[AnyOf(t)] + f[i][u]
        BY <1>6, <3>2, <4>2
      <4>. HIDE DEF u
      <4>4. f[k - 1][u] = f[i][u]
        BY <2>2, <4>1, <4>2
      <4>. QED BY <4>2, <4>3, <4>4
    <3>. QED BY <3>1, <3>2
  <2>3. Nat \subseteq A
    <3>. HIDE DEF A
    <3>. QED BY <2>1, <2>2, SetInduction
  <2>. QED BY <1>8, <2>3
<1>. DEFINE g == [s \in SUBSET S |-> f[Cardinality(s)][s]]
<1>9. g \in [SUBSET S -> Nat]
  BY <1>6, OneLess DEF X
<1>10. ASSUME NEW s \in SUBSET S PROVE g[s] = e(g, s)
  <2>1. CASE s = {}
    <3>1. Cardinality(s) \in Nat
      BY OneLess
    <3>. QED BY <1>7, <2>1, <3>1
  <2>2. CASE s # {}
    <3>. DEFINE u == s \ {AnyOf(s)}
                k == Cardinality(u)
    <3>1. u \in SUBSET S /\ k = Cardinality(s) - 1 /\ Cardinality(s) \in Nat /\ Cardinality(s) # 0
      BY <2>2, OneLess
    <3>2. k \in Nat /\ Cardinality(s) = k + 1
      <4>. HIDE DEF k
      <4>. QED BY <3>1
    <3>3. f[k + 1][s] = d[AnyOf(s)] + f[k][u]
      BY <1>6, <2>2, <3>2
    <3>4. g[s] = f[k + 1][s] /\ g[u] = f[k][u]
      BY <3>1, <3>2
    <3>. HIDE DEF g
    <3>. QED BY <2>2, <3>3, <3>4
  <2>. QED BY <2>1, <2>2
<1>. HIDE DEF g
<1>11. Sums(g, S, d)
  BY <1>10 DEF Sums
<1>. QED BY <1>9, <1>11

(* A sum of naturals is one, and may be taken apart at any element. *)
LEMMA SumTakesAny ==
    ASSUME NEW S, IsFiniteSet(S), NEW d \in [S -> Nat], NEW g, Sums(g, S, d)
    PROVE  /\ \A T \in SUBSET S : g[T] \in Nat
           /\ \A T \in SUBSET S : \A y \in T : g[T] = d[y] + g[T \ {y}]
<1>. DEFINE A == {n \in Nat : \A T \in SUBSET S : Cardinality(T) <= n =>
                      g[T] \in Nat /\ \A y \in T : g[T] = d[y] + g[T \ {y}]}
<1>1. 0 \in A
  <2>. SUFFICES ASSUME NEW T \in SUBSET S, Cardinality(T) <= 0
                PROVE  g[T] \in Nat /\ \A y \in T : g[T] = d[y] + g[T \ {y}]
    OBVIOUS
  <2>1. T = {}
    BY OneLess
  <2>. QED BY <2>1 DEF Sums
<1>2. ASSUME NEW n \in Nat, n \in A PROVE n + 1 \in A
  <2>0. g[{}] = 0
    BY DEF Sums
  <2>. SUFFICES ASSUME NEW T \in SUBSET S, Cardinality(T) <= n + 1
                PROVE  g[T] \in Nat /\ \A y \in T : g[T] = d[y] + g[T \ {y}]
    OBVIOUS
  <2>. SUFFICES ASSUME T # {}
                PROVE  g[T] \in Nat /\ \A y \in T : g[T] = d[y] + g[T \ {y}]
    <3>1. ASSUME T = {} PROVE g[T] = 0 /\ \A y \in T : FALSE
      BY <2>0, <3>1
    <3>. HIDE DEF A
    <3>. QED BY <3>1
  <2>. DEFINE x == AnyOf(T)
              U == T \ {x}
  <2>1. x \in T /\ U \in SUBSET S /\ Cardinality(U) = Cardinality(T) - 1 /\ Cardinality(T) \in Nat
    BY OneLess
  <2>2. g[T] = d[x] + g[U]
    BY DEF Sums
  <2>. HIDE DEF x
  <2>3. Cardinality(U) <= n
    <3>. HIDE DEF U
    <3>. QED BY <2>1
  <2>4. g[U] \in Nat /\ \A y \in U : g[U] = d[y] + g[U \ {y}]
    <3>. HIDE DEF U
    <3>. QED BY <1>2, <2>1, <2>3
  <2>5. d[x] \in Nat
    BY <2>1
  <2>6. ASSUME NEW y \in T PROVE g[T] = d[y] + g[T \ {y}]
    <3>1. CASE y = x
      BY <2>2, <3>1
    <3>2. CASE y # x
      <4>. DEFINE V == T \ {y}
                  W == U \ {y}
      <4>1. y \in U /\ x \in V /\ V \ {x} = W
        BY <2>1, <3>2
      <4>2. V \in SUBSET S /\ Cardinality(V) = Cardinality(T) - 1
        BY OneLess
      <4>3. Cardinality(V) <= n
        <5>. HIDE DEF V
        <5>. QED BY <2>1, <4>2
      <4>4. g[V] = d[x] + g[V \ {x}]
        <5>. HIDE DEF V
        <5>. QED BY <1>2, <4>1, <4>2, <4>3
      <4>5. g[U] = d[y] + g[W]
        BY <2>4, <4>1
      <4>6. d[y] \in Nat /\ g[W] \in Nat
        <5>1. W \in SUBSET S /\ Cardinality(W) = Cardinality(U) - 1 /\ Cardinality(U) \in Nat
          <6>. HIDE DEF U
          <6>. QED BY <2>1, <4>1, OneLess
        <5>2. Cardinality(W) <= n
          <6>. HIDE DEF W, U
          <6>. QED BY <2>3, <5>1
        <5>3. g[W] \in Nat
          <6>. HIDE DEF W
          <6>. QED BY <1>2, <5>1, <5>2
        <5>. QED BY <5>3
      <4>. HIDE DEF V, W, U
      <4>7. g[T] = d[x] + (d[y] + g[W]) /\ g[V] = d[x] + g[W]
        BY <2>2, <4>1, <4>4, <4>5
      <4>8. g[T] = d[y] + g[V]
        BY <2>5, <4>6, <4>7
      <4>. QED BY <4>8 DEF V
    <3>. QED BY <3>1, <3>2
  <2>7. g[T] \in Nat
    <3>. HIDE DEF U
    <3>. QED BY <2>2, <2>4, <2>5
  <2>. QED BY <2>6, <2>7
<1>3. Nat \subseteq A
  <2>. HIDE DEF A
  <2>. QED BY <1>1, <1>2, SetInduction
<1>4. ASSUME NEW T \in SUBSET S
      PROVE  g[T] \in Nat /\ \A y \in T : g[T] = d[y] + g[T \ {y}]
  <2>1. Cardinality(T) \in Nat /\ Cardinality(T) <= Cardinality(T)
    BY OneLess
  <2>. QED BY <1>3, <2>1
<1>. QED BY <1>4
=============================================================================
