-------------------------------- MODULE Walks --------------------------------
(***************************************************************************)
(* Walks of the code (up a chain of replies, down a path, along the links  *)
(* between revisions, over the entries of an archive) are recursive        *)
(* functions.  This module shows that such a function exists.  Induction   *)
(* takes the form of sets: a set of numbers has a least one, and a set of  *)
(* nodes of a tree has one whose parent is outside.                        *)
(***************************************************************************)
EXTENDS Integers, FiniteSetTheorems, WellFoundedInduction, TLAPS

\* From the order of the naturals being well-founded.
LEMMA LeastNatural ==
    ASSUME NEW T \in SUBSET Nat, T # {}
    PROVE  \E m \in T : \A k \in T : m <= k
<1> DEFINE less == OpToRel(<, Nat)
<1>1. less = {s \in Nat \X Nat : s[1] < s[2]}
  BY DEF OpToRel
<1>2. IsWellFoundedOn(less, Nat)
  BY NatLessThanWellFounded
<1> HIDE DEF less
<1>3. PICK m \in T : \A k \in T : <<k, m>> \notin less
  BY <1>2, WFMin
<1>4. \A k \in T : ~(k < m)
  BY <1>1, <1>3
<1> QED
  BY <1>4

\* And the other way round, in a bounded set.
LEMMA GreatestNatural ==
    ASSUME NEW n \in Nat, NEW T \in SUBSET (0..n), T # {}
    PROVE  \E m \in T : \A k \in T : k <= m
<1> DEFINE S == {n - k : k \in T}
<1>1. S \in SUBSET Nat /\ S # {}
  <2>1. \A k \in T : n - k \in Nat
    OBVIOUS
  <2> QED
    BY <2>1
<1>2. PICK s \in S : \A k \in S : s <= k
  BY <1>1, LeastNatural
<1>3. PICK m \in T : s = n - m
  BY <1>2
<1>4. \A k \in T : n - m <= n - k
  BY <1>2, <1>3
<1> QED
  BY <1>4

\* Every set of nodes has one whose parent it does not contain.
RootedIn(N, P) == \A D \in SUBSET N : D # {} => \E d \in D : P[d] \notin D

\* A walk over the nodes N from the root R, with P the parents: b is the value at
\* the root, and G gives that of a node from the value at its parent.
Walk(N, R, P, X, b, G) ==
    /\ R \notin N
    /\ P \in [N -> N \cup {R}]
    /\ RootedIn(N, P)
    /\ b \in X
    /\ G \in [N \X X -> X]

WalkValues(N, R, P, X, b, G) ==
    {f \in [N \cup {R} -> X] : f[R] = b /\ \A n \in N : f[n] = G[<<n, f[P[n]]>>]}

\* A walk determines a value at every node: the least relation closed under its
\* steps is a function.
LEMMA WalkExists ==
    ASSUME NEW N, NEW R, NEW P, NEW X, NEW b, NEW G, Walk(N, R, P, X, b, G)
    PROVE  WalkValues(N, R, P, X, b, G) # {}
<1>0. /\ R \notin N /\ P \in [N -> N \cup {R}] /\ RootedIn(N, P)
      /\ b \in X /\ G \in [N \X X -> X]
  BY DEF Walk
<1> USE <1>0
<1> DEFINE A == N \cup {R}
           Closed(Q) == /\ <<R, b>> \in Q
                        /\ \A n \in N : \A x \in X : <<P[n], x>> \in Q => <<n, G[<<n, x>>]>> \in Q
           W == {q \in A \X X : \A Q \in SUBSET (A \X X) : Closed(Q) => q \in Q}
<1>1. W \in SUBSET (A \X X)
  OBVIOUS
<1>2. \A n \in N : P[n] \in A /\ n \in A
  OBVIOUS
<1>3. \A n \in N, x \in X : G[<<n, x>>] \in X
  OBVIOUS
<1>4. Closed(W)
  <2>1. <<R, b>> \in W
    OBVIOUS
  <2>2. ASSUME NEW n \in N, NEW x \in X, <<P[n], x>> \in W
        PROVE  <<n, G[<<n, x>>]>> \in W
    <3>1. <<n, G[<<n, x>>]>> \in A \X X
      BY <1>2, <1>3
    <3>2. ASSUME NEW Q \in SUBSET (A \X X), Closed(Q)
          PROVE  <<n, G[<<n, x>>]>> \in Q
      <4>1. <<P[n], x>> \in Q
        BY <2>2, <3>2
      <4> QED
        BY <3>2, <4>1
    <3> QED
      BY <3>1, <3>2
  <2> QED
    BY <2>1, <2>2
<1>5. ASSUME NEW Q \in SUBSET (A \X X), Closed(Q)
      PROVE  W \subseteq Q
  BY <1>5
<1> HIDE DEF W
<1>6. \A x \in X : <<R, x>> \in W => x = b
  <2> SUFFICES ASSUME NEW x \in X, x # b
               PROVE  <<R, x>> \notin W
    OBVIOUS
  <2> DEFINE Q == W \ {<<R, x>>}
  <2>1. Closed(Q)
    <3>1. <<R, b>> \in Q
      BY <1>4
    <3>2. \A n \in N : \A y \in X : <<P[n], y>> \in Q => <<n, G[<<n, y>>]>> \in Q
      BY <1>4
    <3> QED
      BY <3>1, <3>2
  <2>2. Q \in SUBSET (A \X X)
    BY <1>1
  <2> QED
    BY <1>5, <2>1, <2>2
<1>7. \A n \in N : \A x \in X :
        <<n, x>> \in W => \E y \in X : <<P[n], y>> \in W /\ x = G[<<n, y>>]
  <2> SUFFICES ASSUME NEW n \in N, NEW x \in X,
                      \A y \in X : <<P[n], y>> \in W => x # G[<<n, y>>]
               PROVE  <<n, x>> \notin W
    OBVIOUS
  <2> DEFINE Q == W \ {<<n, x>>}
  <2>1. Closed(Q)
    <3>1. <<R, b>> \in Q
      BY <1>4
    <3>2. \A m \in N : \A y \in X : <<P[m], y>> \in Q => <<m, G[<<m, y>>]>> \in Q
      BY <1>4
    <3> QED
      BY <3>1, <3>2
  <2>2. Q \in SUBSET (A \X X)
    BY <1>1
  <2> QED
    BY <1>5, <2>1, <2>2
<1> DEFINE Bad == {n \in N : ~ \E x \in X : /\ <<n, x>> \in W
                                            /\ \A y \in X : <<n, y>> \in W => y = x}
<1>8. Bad = {}
  <2> SUFFICES ASSUME Bad # {}
               PROVE  FALSE
    OBVIOUS
  <2>1. PICK n \in Bad : P[n] \notin Bad
    BY DEF RootedIn
  <2>2. PICK x \in X : <<P[n], x>> \in W /\ \A y \in X : <<P[n], y>> \in W => y = x
    BY <1>2, <1>4, <1>6, <2>1
  <2>3. <<n, G[<<n, x>>]>> \in W
    BY <1>4, <2>2
  <2>4. \A y \in X : <<n, y>> \in W => y = G[<<n, x>>]
    BY <1>7, <2>2
  <2> QED
    BY <1>3, <2>3, <2>4
<1> DEFINE f == [n \in A |-> CHOOSE x \in X : <<n, x>> \in W]
<1>9. \A n \in A : /\ f[n] \in X /\ <<n, f[n]>> \in W
                   /\ \A y \in X : <<n, y>> \in W => y = f[n]
  <2> SUFFICES ASSUME NEW n \in A
               PROVE  /\ f[n] \in X /\ <<n, f[n]>> \in W
                      /\ \A y \in X : <<n, y>> \in W => y = f[n]
    OBVIOUS
  <2>1. PICK x \in X : <<n, x>> \in W /\ \A y \in X : <<n, y>> \in W => y = x
    BY <1>4, <1>6, <1>8
  <2>2. f[n] = CHOOSE z \in X : <<n, z>> \in W
    OBVIOUS
  <2> HIDE DEF f
  <2>3. f[n] \in X /\ <<n, f[n]>> \in W
    BY <2>1, <2>2
  <2> QED
    BY <2>1, <2>3
<1>10. f \in [A -> X]
  BY <1>9
<1>11. f[R] = b
  BY <1>4, <1>9
<1> HIDE DEF f
<1>12. \A n \in N : f[n] = G[<<n, f[P[n]]>>]
  <2> SUFFICES ASSUME NEW n \in N
               PROVE  f[n] = G[<<n, f[P[n]]>>]
    OBVIOUS
  <2>1. f[P[n]] \in X /\ <<P[n], f[P[n]]>> \in W
    BY <1>2, <1>9
  <2>2. <<n, G[<<n, f[P[n]]>>]>> \in W /\ G[<<n, f[P[n]]>>] \in X
    BY <1>3, <1>4, <2>1
  <2> QED
    BY <1>2, <1>9, <2>2
<1> QED
  BY <1>10, <1>11, <1>12 DEF WalkValues

\* A loop is the walk along 1 .. n, from 0: G gives the value after step i from i and
\* the value before it.
LoopValues(n, X, b, G) ==
    {f \in [0..n -> X] : f[0] = b /\ \A i \in 1..n : f[i] = G[<<i, f[i - 1]>>]}

\* Every loop has its sequence of values.
LEMMA LoopExists ==
    ASSUME NEW n \in Nat, NEW X, NEW b \in X, NEW G \in [(1..n) \X X -> X]
    PROVE  LoopValues(n, X, b, G) # {}
<1> DEFINE P == [i \in 1..n |-> i - 1]
<1>1. (1..n) \cup {0} = 0..n /\ 0 \notin 1..n
  OBVIOUS
<1>2. P \in [1..n -> (1..n) \cup {0}] /\ \A i \in 1..n : P[i] = i - 1
  OBVIOUS
<1> HIDE DEF P
<1>3. RootedIn(1..n, P)
  <2> SUFFICES ASSUME NEW D \in SUBSET (1..n), D # {}
               PROVE  \E d \in D : P[d] \notin D
    BY DEF RootedIn
  <2>1. D \in SUBSET Nat
    OBVIOUS
  <2>2. PICK d \in D : \A k \in D : d <= k
    BY <2>1, LeastNatural
  <2>3. P[d] = d - 1 /\ d \in Nat
    BY <1>2
  <2> QED
    BY <2>1, <2>2, <2>3
<1>4. Walk(1..n, 0, P, X, b, G)
  <2>1. G \in [(1..n) \X X -> X] /\ b \in X
    OBVIOUS
  <2> QED
    BY <1>1, <1>2, <1>3, <2>1, Zenon DEF Walk
<1>5. PICK f : f \in WalkValues(1..n, 0, P, X, b, G)
  BY <1>4, WalkExists
<1>6. f \in LoopValues(n, X, b, G)
  <2>1. f \in [(1..n) \cup {0} -> X] /\ f[0] = b /\ \A i \in 1..n : f[i] = G[<<i, f[P[i]]>>]
    BY <1>5 DEF WalkValues
  <2>2. \A i \in 1..n : f[i] = G[<<i, f[i - 1]>>]
    BY <1>2, <2>1
  <2> QED
    BY <1>1, <2>1, <2>2 DEF LoopValues
<1> QED
  BY <1>6
=============================================================================
