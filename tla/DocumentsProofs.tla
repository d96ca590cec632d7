-------------------------- MODULE DocumentsProofs --------------------------
(***************************************************************************)
(* For any number of nodes and documents: what the pages show of them.     *)
(* The walks of the code (up a chain, down a path, along the links between *)
(* revisions) are recursive functions, so the module first shows that such *)
(* a walk is defined (Walks), and then what each one computes.             *)
(***************************************************************************)
EXTENDS Documents, Walks

----------------------------------------------------------------------------
(* The walks up and down the tree.                                         *)

\* The tree has no cycles: all parents of a set of nodes are never in the set.
Rooted == RootedIn(Node, parent)

\* What Up and Path are recursively defined to be.
UpIs ==
    /\ Up \in [Place -> SUBSET Node]
    /\ Up[Root] = {}
    /\ \A n \in Node : Up[n] = {n} \cup Up[parent[n]]

PathIs ==
    /\ Path \in [Place -> Seq(Doc)]
    /\ Path[Root] = docs[Root]
    /\ \A n \in Node : Path[n] = Path[parent[n]] \o docs[n]

\* FindTaskChain is defined at every node, since the walk up ends at the root.
LEMMA UpDefined == TypeOK /\ Rooted => UpIs
<1> SUFFICES ASSUME TypeOK, Rooted
             PROVE  UpIs
  OBVIOUS
<1> USE DocumentsAssumption
<1>1. parent \in [Node -> Node \cup {Root}] /\ Place = Node \cup {Root}
  BY DEF TypeOK, Place
<1> DEFINE G == [q \in Node \X SUBSET Node |-> {q[1]} \cup q[2]]
<1>2. G \in [Node \X SUBSET Node -> SUBSET Node]
  OBVIOUS
<1>3. \A n \in Node, S \in SUBSET Node : G[<<n, S>>] = {n} \cup S
  OBVIOUS
<1> HIDE DEF G
<1>4. PICK f \in [Place -> SUBSET Node] :
         f[Root] = {} /\ \A n \in Node : f[n] = G[<<n, f[parent[n]]>>]
  <2>1. /\ {} \in SUBSET Node /\ Root \notin Node /\ RootedIn(Node, parent)
        /\ parent \in [Node -> Node \cup {Root}]
    BY <1>1 DEF Rooted
  <2>2. WalkValues(Node, Root, parent, SUBSET Node, {}, G) # {}
    BY <1>2, <2>1, WalkExists DEF Walk
  <2> QED
    BY <1>1, <2>2 DEF WalkValues
<1>5. \A n \in Node : f[n] = {n} \cup f[parent[n]]
  BY <1>1, <1>3, <1>4
<1> DEFINE Eq(g) == g = [n \in Place |-> IF n = Root THEN {} ELSE {n} \cup g[parent[n]]]
           u == CHOOSE g : Eq(g)
<1>6. Eq(f)
  BY <1>1, <1>4, <1>5
<1>7. Up = u
  BY DEF Up
<1> HIDE DEF Eq
<1>8. Eq(u)
  BY <1>6, Zenon
<1> HIDE DEF u
<1> USE DEF Eq
<1>9. u[Root] = {} /\ \A n \in Node : u[n] = {n} \cup u[parent[n]]
  BY <1>1, <1>8
<1> DEFINE bad == {n \in Node : u[n] \notin SUBSET Node}
<1>10. bad = {}
  <2> SUFFICES ASSUME bad # {}
               PROVE  FALSE
    OBVIOUS
  <2>1. PICK n \in bad : parent[n] \notin bad
    BY DEF Rooted, RootedIn
  <2>2. u[parent[n]] \in SUBSET Node
    BY <1>1, <1>9, <2>1
  <2> QED
    BY <1>9, <2>2
<1>11. u \in [Place -> SUBSET Node]
  BY <1>1, <1>8, <1>9, <1>10
<1> QED
  BY <1>7, <1>9, <1>11 DEF UpIs

\* And so is the walk down that carries a trail.
LEMMA PathDefined == TypeOK /\ Rooted => PathIs
<1> SUFFICES ASSUME TypeOK, Rooted
             PROVE  PathIs
  OBVIOUS
<1> USE DocumentsAssumption
<1>1. /\ parent \in [Node -> Node \cup {Root}] /\ Place = Node \cup {Root}
      /\ docs \in [Place -> Seq(Doc)]
  BY DEF TypeOK, Place
<1> DEFINE G == [q \in Node \X Seq(Doc) |-> q[2] \o docs[q[1]]]
<1>2. G \in [Node \X Seq(Doc) -> Seq(Doc)]
  BY <1>1
<1>3. \A n \in Node, s \in Seq(Doc) : G[<<n, s>>] = s \o docs[n]
  OBVIOUS
<1> HIDE DEF G
<1>4. PICK f \in [Place -> Seq(Doc)] :
         f[Root] = docs[Root] /\ \A n \in Node : f[n] = G[<<n, f[parent[n]]>>]
  <2>1. /\ docs[Root] \in Seq(Doc) /\ Root \notin Node /\ RootedIn(Node, parent)
        /\ parent \in [Node -> Node \cup {Root}]
    BY <1>1 DEF Rooted
  <2>2. WalkValues(Node, Root, parent, Seq(Doc), docs[Root], G) # {}
    BY <1>2, <2>1, WalkExists DEF Walk
  <2> QED
    BY <1>1, <2>2 DEF WalkValues
<1>5. \A n \in Node : f[n] = f[parent[n]] \o docs[n]
  BY <1>1, <1>3, <1>4
<1> DEFINE Eq(g) == g = [n \in Place |-> IF n = Root THEN docs[n] ELSE g[parent[n]] \o docs[n]]
           u == CHOOSE g : Eq(g)
<1>6. Eq(f)
  BY <1>1, <1>4, <1>5
<1>7. Path = u
  BY DEF Path
<1> HIDE DEF Eq
<1>8. Eq(u)
  BY <1>6, Zenon
<1> HIDE DEF u
<1> USE DEF Eq
<1>9. u[Root] = docs[Root] /\ \A n \in Node : u[n] = u[parent[n]] \o docs[n]
  BY <1>1, <1>8
<1> DEFINE bad == {n \in Node : u[n] \notin Seq(Doc)}
<1>10. bad = {}
  <2> SUFFICES ASSUME bad # {}
               PROVE  FALSE
    OBVIOUS
  <2>1. PICK n \in bad : parent[n] \notin bad
    BY DEF Rooted, RootedIn
  <2>2. u[parent[n]] \in Seq(Doc) /\ docs[n] \in Seq(Doc)
    BY <1>1, <1>9, <2>1
  <2>3. u[parent[n]] \o docs[n] \in Seq(Doc)
    BY <2>2
  <2> QED
    BY <1>9, <2>1, <2>3
<1>11. u \in [Place -> Seq(Doc)]
  BY <1>1, <1>8, <1>9, <1>10
<1> QED
  BY <1>7, <1>9, <1>11 DEF PathIs

\* Whatever a node on the chain replies to is on the chain, and no node is above itself.
LEMMA UpTransitive ==
    ASSUME TypeOK, Rooted, NEW n \in Place, NEW m \in Up[n]
    PROVE  m \in Node /\ Up[m] \subseteq Up[n] /\ (parent[m] = Root \/ parent[m] \in Up[n])
<1> USE DocumentsAssumption
<1>1. UpIs
  BY UpDefined
<1>2. \A k \in Node : parent[k] \in Place
  BY DEF TypeOK
<1> DEFINE bad == {k \in Node : \E j \in Up[k] : ~(Up[j] \subseteq Up[k])}
<1>3. bad = {}
  <2> SUFFICES ASSUME bad # {}
               PROVE  FALSE
    OBVIOUS
  <2>1. PICK k \in bad : parent[k] \notin bad
    BY DEF Rooted, RootedIn
  <2>2. \A j \in Up[parent[k]] : Up[j] \subseteq Up[parent[k]]
    BY <1>1, <1>2, <2>1 DEF UpIs, Place
  <2> QED
    BY <1>1, <2>2 DEF UpIs
<1>4. m \in Node /\ Up[m] \subseteq Up[n]
  BY <1>1, <1>3 DEF UpIs, Place
<1>5. parent[m] \in Up[m] \/ parent[m] = Root
  BY <1>1, <1>2, <1>4 DEF UpIs, Place
<1> QED
  BY <1>4, <1>5

\* A node does not reply to itself, directly or not.
LEMMA UpIrreflexive ==
    ASSUME TypeOK, Rooted, NEW n \in Node
    PROVE  n \notin Up[parent[n]]
<1> USE DocumentsAssumption
<1>1. UpIs
  BY UpDefined
<1>2. \A k \in Node : parent[k] \in Place
  BY DEF TypeOK
<1> DEFINE bad == {k \in Node : k \in Up[parent[k]]}
<1>3. bad = {}
  <2> SUFFICES ASSUME bad # {}
               PROVE  FALSE
    OBVIOUS
  <2>1. PICK k \in bad : parent[k] \notin bad
    BY DEF Rooted, RootedIn
  <2> DEFINE a == parent[k]
  <2>2. a \in Node /\ k \in Up[a] /\ a \notin Up[parent[a]]
    BY <1>1, <1>2, <2>1 DEF UpIs, Place
  <2>3. k \in Up[parent[a]]
    BY <1>1, <2>1, <2>2 DEF UpIs
  <2>4. Up[k] \subseteq Up[parent[a]]
    BY <1>2, <2>2, <2>3, UpTransitive
  <2>5. a \in Up[k]
    BY <1>1, <2>1, <2>2 DEF UpIs
  <2> QED
    BY <2>2, <2>4, <2>5
<1> QED
  BY <1>3

\* The documents of a place, as a set.
Here(n) == {docs[n][i] : i \in 1..Len(docs[n])}

\* A document is attached when it is in the sequence of some place.
LEMMA AttachedHere ==
    ASSUME TypeOK, NEW n \in Place
    PROVE  /\ ToSet(docs[n]) = Here(n)
           /\ Here(n) \subseteq Attached
           /\ Attached \subseteq DOMAIN replaces
<1>1. docs[n] \in Seq(Doc)
  BY DEF TypeOK
<1>2. ToSet(docs[n]) = Here(n) /\ Here(n) \subseteq Doc
  BY <1>1 DEF ToSet, Here
<1> QED
  BY <1>2 DEF Attached, TypeOK

----------------------------------------------------------------------------
(* docTrail over the documents of one path.                                *)

\* The family that add enters a document in.
FamilyOf(t, d, r) == IF r \in DOMAIN t.roots THEN t.roots[r] ELSE d

\* What add changes, of a trail t that becomes u, and that it keeps the rest.
Entered(t, u, d, x) ==
    /\ DOMAIN u.roots = DOMAIN t.roots \cup {d}
    /\ u.roots[d] = x
    /\ \A y \in DOMAIN t.roots \ {d} : u.roots[y] = t.roots[y]
    /\ DOMAIN u.counts = DOMAIN t.counts \cup {x}
    /\ u.counts[x] = Count(t, x) + 1
    /\ \A y \in DOMAIN t.counts \ {x} : u.counts[y] = t.counts[y]
    /\ DOMAIN u.current = DOMAIN t.current \cup {x}
    /\ u.current[x] = [doc |-> d, version |-> Count(t, x) + 1]
    /\ \A y \in DOMAIN t.current \ {x} : u.current[y] = t.current[y]

\* That is what AddDoc does.
LEMMA AddDocIs ==
    ASSUME NEW t, NEW d, NEW r
    PROVE  Entered(t, AddDoc(t, d, r), d, FamilyOf(t, d, r))
<1> DEFINE x == FamilyOf(t, d, r)
           u == AddDoc(t, d, r)
           version == Count(t, x) + 1
           entry == [doc |-> d, version |-> version]
<1>1. u = [roots |-> Put(t.roots, d, x), counts |-> Put(t.counts, x, version),
           current |-> Put(t.current, x, entry)]
  BY DEF AddDoc, Enter, FamilyOf
<1> HIDE DEF version, entry, x, u
<1>2. /\ u.roots = Put(t.roots, d, x)
      /\ u.counts = Put(t.counts, x, version)
      /\ u.current = Put(t.current, x, entry)
  BY <1>1
<1>3. /\ DOMAIN u.roots = DOMAIN t.roots \cup {d}
      /\ u.roots[d] = x
      /\ \A y \in DOMAIN t.roots \ {d} : u.roots[y] = t.roots[y]
  BY <1>2 DEF Put
<1>4. /\ DOMAIN u.counts = DOMAIN t.counts \cup {x}
      /\ u.counts[x] = version
      /\ \A y \in DOMAIN t.counts \ {x} : u.counts[y] = t.counts[y]
  BY <1>2 DEF Put
<1>5. /\ DOMAIN u.current = DOMAIN t.current \cup {x}
      /\ u.current[x] = entry
      /\ \A y \in DOMAIN t.current \ {x} : u.current[y] = t.current[y]
  BY <1>2 DEF Put
<1>6. Entered(t, u, d, x)
  BY <1>3, <1>4, <1>5 DEF Entered, version, entry
<1> QED
  BY <1>6 DEF u, x

\* The loop over the documents is defined, whatever their number.
LEMMA TrailDefined ==
    ASSUME NEW w \in Seq(Doc), NEW links
    PROVE  \E T : /\ T[0] = NoTrail
                  /\ \A i \in 1..Len(w) : T[i] = AddDoc(T[i - 1], w[i], links[w[i]])
                  /\ Trail(w, links) = T[Len(w)]
<1> DEFINE Next1(t, i) == AddDoc(t, w[i], links[w[i]])
           Is(f, n) == f = [i \in 0..n |-> IF i = 0 THEN NoTrail ELSE Next1(f[i - 1], i)]
<1>1. Len(w) \in Nat
  OBVIOUS
<1>2. \A n \in Nat : \E f : Is(f, n)
  <2> HIDE DEF Next1
  <2> DEFINE bad == {n \in Nat : ~ \E f : Is(f, n)}
  <2> SUFFICES ASSUME bad # {}
               PROVE  FALSE
    OBVIOUS
  <2>1. PICK m \in bad : \A k \in bad : m <= k
    BY LeastNatural
  <2>2. m # 0
    <3> SUFFICES ASSUME m = 0
                 PROVE  FALSE
      OBVIOUS
    <3> DEFINE f == [i \in 0..0 |-> NoTrail]
    <3>1. Is(f, 0)
      OBVIOUS
    <3> QED
      BY <3>1
  <2>3. m - 1 \in Nat /\ m - 1 \notin bad
    BY <2>1, <2>2, SMTT(30)
  <2>4. PICK f : Is(f, m - 1)
    BY <2>3
  <2> DEFINE g == [i \in 0..m |-> IF i < m THEN f[i] ELSE Next1(f[m - 1], m)]
  <2>5. \A i \in 0..m : g[i] = IF i = 0 THEN NoTrail ELSE Next1(g[i - 1], i)
    <3>1. \A i \in 0..(m - 1) : g[i] = f[i]
      BY <2>3
    <3>2. g[m] = Next1(g[m - 1], m)
      BY <2>3, <3>1
    <3>3. \A i \in 0..(m - 1) : f[i] = IF i = 0 THEN NoTrail ELSE Next1(f[i - 1], i)
      BY <2>4
    <3>4. \A i \in 0..(m - 1) : i # 0 => i - 1 \in 0..(m - 1)
      BY <2>3
    <3>5. \A i \in 0..(m - 1) : g[i] = IF i = 0 THEN NoTrail ELSE Next1(g[i - 1], i)
      <4> SUFFICES ASSUME NEW i \in 0..(m - 1)
                   PROVE  g[i] = IF i = 0 THEN NoTrail ELSE Next1(g[i - 1], i)
        OBVIOUS
      <4> HIDE DEF g
      <4>1. g[i] = f[i] /\ f[i] = IF i = 0 THEN NoTrail ELSE Next1(f[i - 1], i)
        BY <3>1, <3>3
      <4>2. i # 0 => g[i - 1] = f[i - 1]
        BY <3>1, <3>4
      <4> QED
        BY <4>1, <4>2
    <3>6. \A i \in 0..m : i \in 0..(m - 1) \/ i = m
      BY <2>3
    <3> HIDE DEF g
    <3> QED
      BY <2>2, <3>2, <3>5, <3>6
  <2>6. Is(g, m)
    <3>1. g = [i \in 0..m |-> g[i]]
      OBVIOUS
    <3> HIDE DEF g
    <3> QED
      BY <2>5, <3>1
  <2> QED
    BY <2>6
<1> DEFINE T == CHOOSE f : Is(f, Len(w))
<1>3. Trail(w, links) = T[Len(w)]
  BY DEF Trail
<1> HIDE DEF Is
<1>4. Is(T, Len(w))
  BY <1>1, <1>2, Zenon
<1> HIDE DEF T
<1> USE DEF Is
<1>5. T[0] = NoTrail /\ \A i \in 1..Len(w) : T[i] = Next1(T[i - 1], i)
  BY <1>1, <1>4
<1> QED
  BY <1>3, <1>5

\* The family of each document of a path: that of the one it replaces, if the path
\* has that before it, and else one of its own.
FamilyRoots(w, links, fam) ==
    /\ fam \in [1..Len(w) -> Doc]
    /\ \A g, k \in 1..Len(w) : g < k /\ w[g] = links[w[k]] => fam[k] = fam[g]
    /\ \A k \in 1..Len(w) :
          (\A g \in 1..Len(w) : g < k => w[g] # links[w[k]]) => fam[k] = w[k]

\* The last document of each family, with the size of the family.
LastOfEach(w, fam) ==
    {[doc |-> w[k], version |-> Cardinality({h \in 1..Len(w) : fam[h] = fam[k]})] :
        k \in {j \in 1..Len(w) : \A h \in 1..Len(w) : fam[h] = fam[j] => h <= j}}

\* docTrail computes that, for a path without repetitions.
LEMMA TrailIs ==
    ASSUME NEW w \in Seq(Doc), IsInjective(w), NEW links
    PROVE  \E fam : FamilyRoots(w, links, fam) /\ Snapshot(w, links) = LastOfEach(w, fam)
<1> DEFINE N == Len(w)
<1>1. PICK T : /\ T[0] = NoTrail
               /\ \A i \in 1..N : T[i] = AddDoc(T[i - 1], w[i], links[w[i]])
               /\ Trail(w, links) = T[N]
  BY TrailDefined
<1>2. /\ N \in Nat
      /\ \A i \in 1..N : w[i] \in Doc
      /\ \A i, j \in 1..N : w[i] = w[j] => i = j
  BY DEF IsInjective
<1> DEFINE fam == [k \in 1..N |-> T[k].roots[w[k]]]
           Class(i, x) == {h \in 1..i : fam[h] = x}
           Roots(i) == /\ DOMAIN T[i].roots = {w[k] : k \in 1..i}
                       /\ \A k \in 1..i : T[i].roots[w[k]] = fam[k] /\ fam[k] \in Doc
           Counts(i) == /\ DOMAIN T[i].counts = {fam[k] : k \in 1..i}
                        /\ \A x \in DOMAIN T[i].counts :
                              T[i].counts[x] = Cardinality(Class(i, x))
           NoneAfter(i, k) == \A h \in 1..i : fam[h] = fam[k] => h <= k
           Current(i) == /\ DOMAIN T[i].current = {fam[k] : k \in 1..i}
                         /\ \A k \in 1..i : NoneAfter(i, k) =>
                              T[i].current[fam[k]] =
                                [doc |-> w[k], version |-> Cardinality(Class(i, fam[k]))]
<1>3. \A i \in 1..N : fam[i] = T[i].roots[w[i]]
  OBVIOUS
<1> HIDE DEF fam
<1>4. Roots(0) /\ Counts(0) /\ Current(0)
  BY <1>1 DEF NoTrail
<1>5. ASSUME NEW i \in 1..N, Roots(i - 1)
      PROVE  fam[i] = FamilyOf(T[i - 1], w[i], links[w[i]]) /\ Roots(i)
  <2> DEFINE x == FamilyOf(T[i - 1], w[i], links[w[i]])
  <2>0. Entered(T[i - 1], T[i], w[i], FamilyOf(T[i - 1], w[i], links[w[i]]))
    BY <1>1, AddDocIs
  <2>1. /\ DOMAIN T[i].roots = DOMAIN T[i - 1].roots \cup {w[i]}
        /\ T[i].roots[w[i]] = x
        /\ \A y \in DOMAIN T[i - 1].roots \ {w[i]} : T[i].roots[y] = T[i - 1].roots[y]
    BY <2>0 DEF Entered
  <2>2. w[i] \notin DOMAIN T[i - 1].roots /\ 1..i = 1..(i - 1) \cup {i} /\ i \in Nat
    BY <1>2, <1>5
  <2>3. x \in Doc
    BY <1>2, <1>5 DEF FamilyOf
  <2> HIDE DEF x
  <2>4. fam[i] = x
    BY <1>3, <2>1
  <2>5. \A k \in 1..(i - 1) : T[i].roots[w[k]] = fam[k] /\ fam[k] \in Doc
    BY <1>5, <2>1, <2>2
  <2>6. DOMAIN T[i].roots = {w[k] : k \in 1..i}
    BY <1>5, <2>1, <2>2
  <2> QED
    BY <2>1, <2>2, <2>3, <2>4, <2>5, <2>6 DEF x
<1>6. ASSUME NEW i \in 1..N, Roots(i - 1), Counts(i - 1)
      PROVE  Count(T[i - 1], fam[i]) + 1 = Cardinality(Class(i, fam[i])) /\ Counts(i)
  <2> DEFINE x == fam[i]
  <2>0. Entered(T[i - 1], T[i], w[i], FamilyOf(T[i - 1], w[i], links[w[i]]))
    BY <1>1, AddDocIs
  <2>1. x = FamilyOf(T[i - 1], w[i], links[w[i]])
    BY <1>5, <1>6
  <2>2. /\ DOMAIN T[i].counts = DOMAIN T[i - 1].counts \cup {x}
        /\ T[i].counts[x] = Count(T[i - 1], x) + 1
        /\ \A y \in DOMAIN T[i - 1].counts \ {x} : T[i].counts[y] = T[i - 1].counts[y]
    BY <2>0, <2>1 DEF Entered
  <2>3. 1..i = 1..(i - 1) \cup {i} /\ i \in Nat /\ i \notin 1..(i - 1)
    BY <1>2
  <2>4. /\ Class(i, x) = Class(i - 1, x) \cup {i}
        /\ i \notin Class(i - 1, x)
        /\ \A y : y # x => Class(i, y) = Class(i - 1, y)
    BY <2>3
  <2>5. IsFiniteSet(Class(i - 1, x))
    <3>1. IsFiniteSet(1..(i - 1)) /\ Class(i - 1, x) \in SUBSET (1..(i - 1))
      BY <2>3, FS_Interval
    <3> QED
      BY <3>1, FS_Subset
  <2>6. Cardinality(Class(i, x)) = Cardinality(Class(i - 1, x)) + 1
    BY <2>4, <2>5, FS_AddElement
  <2>7. Count(T[i - 1], x) = Cardinality(Class(i - 1, x))
    <3>1. CASE x \in DOMAIN T[i - 1].counts
      BY <1>6, <3>1 DEF Count
    <3>2. CASE x \notin DOMAIN T[i - 1].counts
      <4>1. Class(i - 1, x) = {}
        BY <1>6, <3>2
      <4> QED
        BY <3>2, <4>1, FS_EmptySet DEF Count
    <3> QED
      BY <3>1, <3>2
  <2>8. DOMAIN T[i].counts = {fam[k] : k \in 1..i}
    BY <1>6, <2>2, <2>3
  <2> HIDE DEF Class
  <2>9. \A y \in DOMAIN T[i].counts : T[i].counts[y] = Cardinality(Class(i, y))
    BY <1>6, <2>2, <2>4, <2>6, <2>7
  <2> QED
    BY <2>6, <2>7, <2>8, <2>9
<1>7. ASSUME NEW i \in 1..N, Roots(i - 1), Counts(i - 1), Current(i - 1)
      PROVE  Current(i)
  <2> DEFINE x == fam[i]
  <2>0. Entered(T[i - 1], T[i], w[i], FamilyOf(T[i - 1], w[i], links[w[i]]))
    BY <1>1, AddDocIs
  <2>1. /\ x = FamilyOf(T[i - 1], w[i], links[w[i]])
        /\ Count(T[i - 1], x) + 1 = Cardinality(Class(i, x))
    BY <1>5, <1>6, <1>7
  <2>2. /\ DOMAIN T[i].current = DOMAIN T[i - 1].current \cup {x}
        /\ T[i].current[x] = [doc |-> w[i], version |-> Count(T[i - 1], x) + 1]
        /\ \A y \in DOMAIN T[i - 1].current \ {x} : T[i].current[y] = T[i - 1].current[y]
    BY <2>0, <2>1 DEF Entered
  <2>3. 1..i = 1..(i - 1) \cup {i} /\ i \in Nat /\ i \notin 1..(i - 1)
    BY <1>2
  <2>4. \A y : y # x => Class(i, y) = Class(i - 1, y)
    BY <2>3
  <2>5. DOMAIN T[i].current = {fam[k] : k \in 1..i}
    BY <1>7, <2>2, <2>3
  <2>6. ASSUME NEW k \in 1..i, NoneAfter(i, k)
        PROVE  T[i].current[fam[k]] = [doc |-> w[k], version |-> Cardinality(Class(i, fam[k]))]
    <3>1. CASE k = i
      BY <2>1, <2>2, <3>1
    <3>2. CASE k # i
      <4>1. k \in 1..(i - 1) /\ fam[k] # x /\ NoneAfter(i - 1, k)
        BY <2>3, <2>6, <3>2
      <4>2. T[i - 1].current[fam[k]] =
              [doc |-> w[k], version |-> Cardinality(Class(i - 1, fam[k]))]
        BY <1>7, <4>1
      <4>3. T[i].current[fam[k]] = T[i - 1].current[fam[k]]
        BY <1>7, <2>2, <4>1
      <4> HIDE DEF Class
      <4> QED
        BY <2>4, <4>1, <4>2, <4>3
    <3> QED
      BY <3>1, <3>2
  <2> QED
    BY <2>5, <2>6
<1>8. \A i \in 0..N : Roots(i) /\ Counts(i) /\ Current(i)
  <2> HIDE DEF Roots, Counts, Current
  <2> DEFINE bad == {i \in 0..N : ~(Roots(i) /\ Counts(i) /\ Current(i))}
  <2> SUFFICES ASSUME bad # {}
               PROVE  FALSE
    OBVIOUS
  <2>1. PICK m \in bad : \A k \in bad : m <= k
    <3>1. bad \in SUBSET Nat
      OBVIOUS
    <3> QED
      BY <3>1, LeastNatural
  <2>2. m \in 1..N /\ m - 1 \in 0..N /\ m - 1 \notin bad
    BY <1>2, <1>4, <2>1
  <2>3. Roots(m - 1) /\ Counts(m - 1) /\ Current(m - 1)
    BY <2>2
  <2>4. Roots(m) /\ Counts(m) /\ Current(m)
    BY <1>5, <1>6, <1>7, <2>2, <2>3
  <2> QED
    BY <2>4
<1>9. FamilyRoots(w, links, fam)
  <2>1. fam \in [1..N -> Doc]
    <3>1. fam = [k \in 1..N |-> fam[k]]
      BY DEF fam
    <3>2. \A k \in 1..N : fam[k] \in Doc
      BY <1>2, <1>8
    <3> QED
      BY <3>1, <3>2
  <2>2. ASSUME NEW k \in 1..N
        PROVE  /\ fam[k] = FamilyOf(T[k - 1], w[k], links[w[k]])
               /\ DOMAIN T[k - 1].roots = {w[g] : g \in 1..(k - 1)}
               /\ \A g \in 1..(k - 1) : T[k - 1].roots[w[g]] = fam[g]
    <3>1. k - 1 \in 0..N
      BY <1>2
    <3>2. Roots(k - 1)
      BY <1>8, <3>1
    <3> QED
      BY <1>5, <3>2
  <2>3. ASSUME NEW g \in 1..N, NEW k \in 1..N, g < k, w[g] = links[w[k]]
        PROVE  fam[k] = fam[g]
    <3>1. g \in 1..(k - 1)
      BY <1>2, <2>3
    <3> QED
      BY <2>2, <2>3, <3>1 DEF FamilyOf
  <2>4. ASSUME NEW k \in 1..N, \A g \in 1..N : g < k => w[g] # links[w[k]]
        PROVE  fam[k] = w[k]
    <3>1. \A g \in 1..(k - 1) : g \in 1..N /\ g < k
      BY <1>2
    <3>2. links[w[k]] \notin DOMAIN T[k - 1].roots
      BY <2>2, <2>4, <3>1
    <3> QED
      BY <2>2, <3>2 DEF FamilyOf
  <2> QED
    BY <2>1, <2>3, <2>4 DEF FamilyRoots
<1>10. Snapshot(w, links) = LastOfEach(w, fam)
  <2> DEFINE ends == {j \in 1..N : NoneAfter(N, j)}
             entry(k) == [doc |-> w[k], version |-> Cardinality(Class(N, fam[k]))]
  <2>1. Snapshot(w, links) = {T[N].current[x] : x \in DOMAIN T[N].current}
    BY <1>1 DEF Snapshot
  <2>2. LastOfEach(w, fam) = {entry(k) : k \in ends}
    BY DEF LastOfEach
  <2>3. /\ DOMAIN T[N].current = {fam[k] : k \in 1..N}
        /\ \A k \in ends : T[N].current[fam[k]] = entry(k)
    <3>1. N \in 0..N
      BY <1>2
    <3>2. Current(N)
      <4> HIDE DEF Roots, Counts, Current
      <4> QED
        BY <1>8, <3>1
    <3> QED
      BY <3>2
  <2>4. \A k \in 1..N : \E j \in ends : fam[j] = fam[k]
    <3> SUFFICES ASSUME NEW k \in 1..N
                 PROVE  \E j \in ends : fam[j] = fam[k]
      OBVIOUS
    <3>1. Class(N, fam[k]) \in SUBSET (0..N) /\ k \in Class(N, fam[k])
      BY <1>2
    <3>2. PICK j \in Class(N, fam[k]) : \A h \in Class(N, fam[k]) : h <= j
      <4> HIDE DEF Class
      <4> QED
        BY <1>2, <3>1, GreatestNatural
    <3> QED
      BY <3>2
  <2> HIDE DEF ends, entry
  <2>5. {T[N].current[x] : x \in DOMAIN T[N].current} = {T[N].current[fam[k]] : k \in 1..N}
    BY <2>3
  <2>6. ends \subseteq 1..N
    BY DEF ends
  <2>7. \A k \in 1..N : \E j \in ends : T[N].current[fam[k]] = entry(j)
    BY <2>3, <2>4
  <2>8. {T[N].current[fam[k]] : k \in 1..N} = {entry(k) : k \in ends}
    <3>1. ASSUME NEW k \in 1..N
          PROVE  T[N].current[fam[k]] \in {entry(j) : j \in ends}
      BY <2>7
    <3>2. ASSUME NEW j \in ends
          PROVE  entry(j) \in {T[N].current[fam[k]] : k \in 1..N}
      BY <2>3, <2>6
    <3> QED
      BY <3>1, <3>2
  <2> QED
    BY <2>1, <2>2, <2>5, <2>8
<1> QED
  BY <1>9, <1>10

----------------------------------------------------------------------------
(* The documents in effect, and their versions.                            *)

\* The document that a family is known by: whatever is closed under replacing has
\* all of the family when it has that one, and none of it otherwise.
LEMMA RootDecides ==
    ASSUME NEW w \in Seq(Doc), IsInjective(w), NEW links, NEW fam, FamilyRoots(w, links, fam),
           NEW F, \A g, h \in 1..Len(w) : g < h /\ links[w[h]] = w[g] => (g \in F <=> h \in F)
    PROVE  \A k \in 1..Len(w) : k \in F <=> \E t \in 1..Len(w) : w[t] = fam[k] /\ t \in F
<1> DEFINE N == Len(w)
           bad == {k \in 1..N : ~(k \in F <=> \E t \in 1..N : w[t] = fam[k] /\ t \in F)}
<1>1. N \in Nat /\ \A i, j \in 1..N : w[i] = w[j] => i = j
  BY DEF IsInjective
<1> SUFFICES ASSUME bad # {}
             PROVE  FALSE
  OBVIOUS
<1>2. PICK k \in bad : \A h \in bad : k <= h
  <2>1. bad \in SUBSET Nat
    OBVIOUS
  <2> QED
    BY <2>1, LeastNatural
<1>3. CASE \E g \in 1..N : g < k /\ w[g] = links[w[k]]
  <2>1. PICK g \in 1..N : g < k /\ w[g] = links[w[k]]
    BY <1>3
  <2>2. fam[g] = fam[k] /\ (g \in F <=> k \in F)
    BY <2>1 DEF FamilyRoots
  <2>3. g \notin bad
    BY <1>2, <2>1
  <2> QED
    BY <1>2, <2>2, <2>3
<1>4. CASE \A g \in 1..N : g < k => w[g] # links[w[k]]
  <2>1. fam[k] = w[k]
    BY <1>4 DEF FamilyRoots
  <2> QED
    BY <1>1, <1>2, <2>1
<1> QED
  BY <1>3, <1>4

\* The families of the trail are the families that replacing makes.
LEMMA FamilyIs ==
    ASSUME NEW w \in Seq(Doc), IsInjective(w), NEW fam, FamilyRoots(w, replaces, fam),
           NEW i \in 1..Len(w)
    PROVE  Family(w, i) = {k \in 1..Len(w) : fam[k] = fam[i]}
<1> DEFINE N == Len(w)
           class == {k \in 1..N : fam[k] = fam[i]}
           Closed(F) == \A g, h \in 1..N : g < h /\ replaces[w[h]] = w[g] => (g \in F <=> h \in F)
<1>1. DOMAIN w = 1..N
  OBVIOUS
<1>2. Family(w, i) = {k \in 1..N : \A F \in SUBSET (1..N) : i \in F /\ Closed(F) => k \in F}
  BY <1>1 DEF Family
<1>3. Closed(class)
  BY DEF FamilyRoots
<1>4. class \in SUBSET (1..N) /\ i \in class
  OBVIOUS
<1>5. ASSUME NEW k \in class, NEW F \in SUBSET (1..N), i \in F, Closed(F)
      PROVE  k \in F
  <2>1. \A j \in 1..N : j \in F <=> \E t \in 1..N : w[t] = fam[j] /\ t \in F
    BY <1>5, RootDecides
  <2> QED
    BY <1>5, <2>1
<1> HIDE DEF Closed, class
<1>6. \A k \in Family(w, i) : k \in class
  BY <1>2, <1>3, <1>4
<1>7. \A k \in class : k \in Family(w, i)
  BY <1>2, <1>4, <1>5
<1> QED
  BY <1>6, <1>7 DEF class

\* The documents on a path are those of the nodes on it, each once.
LEMMA PathDocs ==
    ASSUME TypeOK, Rooted, NEW n \in Place
    PROVE  /\ Path[n] \in Seq(Doc)
           /\ IsInjective(Path[n])
           /\ \A i \in 1..Len(Path[n]) : \E m \in Up[n] \cup {Root} : Path[n][i] \in Here(m)
<1> USE DocumentsAssumption
<1>1. UpIs /\ PathIs
  BY UpDefined, PathDefined
<1>2. \A k \in Node : parent[k] \in Place
  BY DEF TypeOK
<1>3. \A k \in Place : Path[k] \in Seq(Doc) /\ docs[k] \in Seq(Doc)
  BY <1>1 DEF PathIs, TypeOK
<1>4. \A k, m \in Place : k # m => Here(k) \cap Here(m) = {}
  BY AttachedHere DEF TypeOK
<1>5. \A k \in Place : \A i, j \in 1..Len(docs[k]) : docs[k][i] = docs[k][j] => i = j
  BY <1>3 DEF TypeOK, IsInjective
<1> DEFINE From(k) == \A i \in 1..Len(Path[k]) : \E m \in Up[k] \cup {Root} : Path[k][i] \in Here(m)
           Once(k) == \A i, j \in 1..Len(Path[k]) : Path[k][i] = Path[k][j] => i = j
           bad == {k \in Node : ~(From(k) /\ Once(k))}
<1>6. From(Root) /\ Once(Root)
  <2>1. Path[Root] = docs[Root] /\ Root \in Place
    BY <1>1 DEF PathIs, Place
  <2> QED
    BY <1>5, <2>1 DEF Here
<1>7. bad = {}
  <2> SUFFICES ASSUME bad # {}
               PROVE  FALSE
    OBVIOUS
  <2>1. PICK k \in bad : parent[k] \notin bad
    BY DEF Rooted, RootedIn
  <2> DEFINE p == parent[k]
             a == Path[p]
             b == docs[k]
  <2>2. p \in Place /\ From(p) /\ Once(p)
    BY <1>2, <1>6, <2>1 DEF Place
  <2>3. Path[k] = a \o b /\ a \in Seq(Doc) /\ b \in Seq(Doc)
    BY <1>1, <1>3, <2>1, <2>2 DEF PathIs, Place
  <2> HIDE DEF a, b
  <2>4. /\ Len(Path[k]) = Len(a) + Len(b)
        /\ \A i \in 1..Len(a) : Path[k][i] = a[i]
        /\ \A i \in 1..Len(Path[k]) : i > Len(a) => /\ i - Len(a) \in 1..Len(b)
                                                    /\ Path[k][i] = b[i - Len(a)]
        /\ Len(a) \in Nat /\ Len(b) \in Nat
    BY <2>3
  <2>5. Up[k] = {k} \cup Up[p] /\ k \notin Up[p] /\ k # Root
    BY <1>1, <2>1, UpIrreflexive DEF UpIs
  <2>6. Up[p] \subseteq Place
    BY <1>1, <2>2 DEF UpIs, Place
  <2> HIDE DEF p
  <2>7. \A i \in 1..Len(a) : \E m \in Up[p] \cup {Root} : a[i] \in Here(m)
    BY <2>2 DEF a
  <2>8. \A i \in 1..Len(b) : b[i] \in Here(k)
    BY DEF Here, b
  <2>9. From(k)
    <3> SUFFICES ASSUME NEW i \in 1..Len(Path[k])
                 PROVE  \E m \in Up[k] \cup {Root} : Path[k][i] \in Here(m)
      OBVIOUS
    <3>1. CASE i <= Len(a)
      BY <2>4, <2>5, <2>7, <3>1
    <3>2. CASE i > Len(a)
      BY <2>4, <2>5, <2>8, <3>2
    <3> QED
      BY <2>4, <3>1, <3>2
  <2>10. \A i \in 1..Len(a), j \in 1..Len(b) : a[i] # b[j]
    <3> SUFFICES ASSUME NEW i \in 1..Len(a), NEW j \in 1..Len(b), a[i] = b[j]
                 PROVE  FALSE
      OBVIOUS
    <3>1. PICK m \in Up[p] \cup {Root} : a[i] \in Here(m)
      BY <2>7
    <3>2. m # k /\ m \in Place /\ k \in Place
      BY <2>1, <2>5, <2>6, <3>1 DEF Place
    <3> QED
      BY <1>4, <2>8, <3>1, <3>2
  <2>11. \A i, j \in 1..Len(a) : a[i] = a[j] => i = j
    BY <2>2 DEF a
  <2>12. \A i, j \in 1..Len(b) : b[i] = b[j] => i = j
    BY <1>5, <2>1 DEF b, Place
  <2>13. Once(k)
    <3> SUFFICES ASSUME NEW i \in 1..Len(Path[k]), NEW j \in 1..Len(Path[k]),
                        Path[k][i] = Path[k][j]
                 PROVE  i = j
      OBVIOUS
    <3>1. CASE i <= Len(a) /\ j <= Len(a)
      BY <2>4, <2>11, <3>1
    <3>2. CASE i > Len(a) /\ j > Len(a)
      BY <2>4, <2>12, <3>2, SMTT(30)
    <3>3. CASE i <= Len(a) /\ j > Len(a)
      BY <2>4, <2>10, <3>3
    <3>4. CASE i > Len(a) /\ j <= Len(a)
      BY <2>4, <2>10, <3>4
    <3> QED
      BY <2>4, <3>1, <3>2, <3>3, <3>4
  <2> QED
    BY <2>1, <2>9, <2>13
<1>8. From(n) /\ Once(n)
  BY <1>6, <1>7 DEF Place
<1>9. IsInjective(Path[n])
  BY <1>3, <1>8 DEF IsInjective
<1> QED
  BY <1>3, <1>8, <1>9

\* What a page shows at a node, in terms of the families of its path.
LEMMA ShownIs ==
    ASSUME TypeOK, Rooted, NEW n \in Place
    PROVE  \E fam : /\ FamilyRoots(Path[n], replaces, fam)
                    /\ Snapshot(Path[n], replaces) = LastOfEach(Path[n], fam)
                    /\ InEffect(Path[n], replaces) =
                         {Path[n][k] : k \in {j \in 1..Len(Path[n]) :
                            \A h \in 1..Len(Path[n]) : fam[h] = fam[j] => h <= j}}
<1>1. PICK fam : /\ FamilyRoots(Path[n], replaces, fam)
                 /\ Snapshot(Path[n], replaces) = LastOfEach(Path[n], fam)
  BY PathDocs, TrailIs
<1>2. InEffect(Path[n], replaces) = {s.doc : s \in LastOfEach(Path[n], fam)}
  BY <1>1 DEF InEffect
<1> DEFINE w == Path[n]
           ends == {j \in 1..Len(w) : \A h \in 1..Len(w) : fam[h] = fam[j] => h <= j}
           size(k) == Cardinality({h \in 1..Len(w) : fam[h] = fam[k]})
<1>3. LastOfEach(w, fam) = {[doc |-> w[k], version |-> size(k)] : k \in ends}
  BY DEF LastOfEach
<1> HIDE DEF w, ends, size
<1>4. {s.doc : s \in {[doc |-> w[k], version |-> size(k)] : k \in ends}} = {w[k] : k \in ends}
  <2> DEFINE S == {[doc |-> w[k], version |-> size(k)] : k \in ends}
  <2>1. \A s \in S : s.doc \in {w[k] : k \in ends}
    OBVIOUS
  <2>2. ASSUME NEW k \in ends
        PROVE  w[k] \in {s.doc : s \in S}
    <3>1. [doc |-> w[k], version |-> size(k)] \in S
      OBVIOUS
    <3>2. [doc |-> w[k], version |-> size(k)].doc = w[k]
      OBVIOUS
    <3> QED
      BY <3>1, <3>2
  <2> QED
    BY <2>1, <2>2
<1>5. InEffect(w, replaces) = {w[k] : k \in ends}
  BY <1>2, <1>3, <1>4 DEF w
<1> QED
  BY <1>1, <1>5 DEF w, ends

\* The last document of each family is what InEffect has.
LEMMA EffectHolds == TypeOK /\ Rooted => EffectIsNewest
<1> SUFFICES ASSUME TypeOK, Rooted, NEW n \in Place
             PROVE  InEffect(Path[n], replaces) =
                      {Path[n][i] : i \in {i \in DOMAIN Path[n] :
                                             \A k \in Family(Path[n], i) : k <= i}}
  BY DEF EffectIsNewest
<1> DEFINE w == Path[n]
<1>1. PICK fam : /\ FamilyRoots(w, replaces, fam)
                 /\ InEffect(w, replaces) =
                      {w[k] : k \in {j \in 1..Len(w) :
                         \A h \in 1..Len(w) : fam[h] = fam[j] => h <= j}}
  BY ShownIs
<1>2. w \in Seq(Doc) /\ IsInjective(w)
  BY PathDocs
<1> HIDE DEF w
<1>3. \A i \in 1..Len(w) : Family(w, i) = {k \in 1..Len(w) : fam[k] = fam[i]}
  BY <1>1, <1>2, FamilyIs
<1>4. {j \in 1..Len(w) : \A h \in 1..Len(w) : fam[h] = fam[j] => h <= j}
        = {i \in DOMAIN w : \A k \in Family(w, i) : k <= i}
  BY <1>2, <1>3
<1>5. InEffect(w, replaces) = {w[i] : i \in {i \in DOMAIN w : \A k \in Family(w, i) : k <= i}}
  BY <1>1, <1>4
<1> QED
  BY <1>5 DEF w

\* And its version is the number of documents in that family.
LEMMA VersionsHold == TypeOK /\ Rooted => VersionCountsFamily
<1> SUFFICES ASSUME TypeOK, Rooted, NEW n \in Place, NEW i \in DOMAIN Path[n],
                    NEW s \in Snapshot(Path[n], replaces), s.doc = Path[n][i]
             PROVE  s.version = Cardinality(Family(Path[n], i))
  BY DEF VersionCountsFamily
<1> DEFINE w == Path[n]
<1>1. PICK fam : FamilyRoots(w, replaces, fam) /\ Snapshot(w, replaces) = LastOfEach(w, fam)
  BY ShownIs
<1>2. w \in Seq(Doc) /\ IsInjective(w)
  BY PathDocs
<1>3. PICK k \in 1..Len(w) :
        s = [doc |-> w[k], version |-> Cardinality({h \in 1..Len(w) : fam[h] = fam[k]})]
  BY <1>1 DEF LastOfEach
<1> HIDE DEF w
<1>4. k = i
  BY <1>2, <1>3 DEF IsInjective, w
<1>5. Family(w, k) = {h \in 1..Len(w) : fam[h] = fam[k]}
  BY <1>1, <1>2, FamilyIs
<1> QED
  BY <1>3, <1>4, <1>5 DEF w

----------------------------------------------------------------------------
(* The history page.                                                       *)

\* A document on the path to a visible node is one that the history page lists.
LEMMA PathListed ==
    ASSUME TypeOK, Rooted, NEW n \in Place, Visible(n), NEW i \in 1..Len(Path[n])
    PROVE  Path[n][i] \in Listed
<1>1. UpIs
  BY UpDefined
<1>2. PICK m \in Up[n] \cup {Root} : Path[n][i] \in Here(m)
  BY PathDocs
<1>3. m \in Place /\ Up[m] \subseteq Up[n]
  BY <1>1, <1>2, UpTransitive DEF UpIs, Place
<1>4. Visible(m)
  BY <1>3 DEF Visible
<1>5. Path[n][i] \in ToSet(docs[m]) /\ Path[n][i] \in Doc
  BY <1>2, <1>3, PathDocs, AttachedHere DEF TypeOK
<1> QED
  BY <1>3, <1>4, <1>5 DEF Listed

\* What Lineage is recursively defined to be: the links have an end.
LineageIs ==
    \A d \in Listed :
        /\ d \in Lineage(d) /\ Lineage(d) \subseteq Listed
        /\ replaces[d] \in Listed => Lineage(replaces[d]) \subseteq Lineage(d)

\* The walk along the links ends, since replacements do.
LEMMA LineageDefined == TypeOK /\ ReplacementsEnd => LineageIs
<1> SUFFICES ASSUME TypeOK, ReplacementsEnd
             PROVE  LineageIs
  OBVIOUS
<1> USE DocumentsAssumption
<1>1. Listed \subseteq DOMAIN replaces /\ None \notin Listed
  BY DEF Listed, Attached, TypeOK
<1> DEFINE P == [x \in Listed |-> IF replaces[x] \in Listed THEN replaces[x] ELSE None]
           G == [q \in Listed \X SUBSET Listed |-> {q[1]} \cup q[2]]
           Eq(g) == g = [x \in Listed |->
                           {x} \cup (IF replaces[x] \in Listed THEN g[replaces[x]] ELSE {})]
           u == CHOOSE g : Eq(g)
<1>2. Walk(Listed, None, P, SUBSET Listed, {}, G)
  <2>1. RootedIn(Listed, P)
    <3> SUFFICES ASSUME NEW D \in SUBSET Listed, D # {}
                 PROVE  \E d \in D : P[d] \notin D
      BY DEF RootedIn
    <3>1. PICK d \in D : replaces[d] \notin D
      BY <1>1 DEF ReplacementsEnd
    <3> QED
      BY <1>1, <3>1
  <2>2. G \in [Listed \X SUBSET Listed -> SUBSET Listed]
    OBVIOUS
  <2>3. P \in [Listed -> Listed \cup {None}]
    OBVIOUS
  <2> HIDE DEF P, G
  <2> QED
    BY <1>1, <2>1, <2>2, <2>3 DEF Walk
<1>3. PICK f \in WalkValues(Listed, None, P, SUBSET Listed, {}, G) : TRUE
  <2> HIDE DEF P, G
  <2> QED
    BY <1>2, WalkExists
<1>4. /\ f[None] = {} /\ \A x \in Listed : f[x] \in SUBSET Listed
      /\ \A x \in Listed : f[x] = G[<<x, f[P[x]]>>]
      /\ DOMAIN f = Listed \cup {None}
  BY <1>3 DEF WalkValues
<1>5. \A x \in Listed : f[x] = {x} \cup (IF replaces[x] \in Listed THEN f[replaces[x]] ELSE {})
  <2> SUFFICES ASSUME NEW x \in Listed
               PROVE  f[x] = {x} \cup (IF replaces[x] \in Listed THEN f[replaces[x]] ELSE {})
    OBVIOUS
  <2>1. f[P[x]] \in SUBSET Listed
    BY <1>4
  <2>2. G[<<x, f[P[x]]>>] = {x} \cup f[P[x]]
    <3> HIDE DEF P
    <3> QED
      BY <2>1
  <2> QED
    BY <1>4, <2>2
<1> DEFINE h == [x \in Listed |-> f[x]]
<1>6. Eq(h)
  BY <1>5
<1>7. \A d : Lineage(d) = u[d]
  BY DEF Lineage
<1> HIDE DEF Eq
<1>8. Eq(u)
  BY <1>6, Zenon
<1> HIDE DEF u, P, G
<1> USE DEF Eq
<1>9. \A x \in Listed : u[x] = {x} \cup (IF replaces[x] \in Listed THEN u[replaces[x]] ELSE {})
  BY <1>8
<1> DEFINE bad == {x \in Listed : ~(u[x] \subseteq Listed)}
<1>10. bad = {}
  <2> SUFFICES ASSUME bad # {}
               PROVE  FALSE
    OBVIOUS
  <2>1. bad \in SUBSET DOMAIN replaces
    BY <1>1
  <2>2. PICK x \in bad : replaces[x] \notin bad
    BY <2>1 DEF ReplacementsEnd
  <2> QED
    BY <1>9, <2>2
<1> QED
  BY <1>7, <1>9, <1>10 DEF LineageIs

\* A document's family is known by a document of its lineage.
LEMMA RootInLineage ==
    ASSUME TypeOK, ReplacementsEnd, NEW w \in Seq(Doc), \A i \in 1..Len(w) : w[i] \in Listed,
           NEW fam, FamilyRoots(w, replaces, fam), NEW k \in 1..Len(w)
    PROVE  fam[k] \in Lineage(w[k])
<1> DEFINE N == Len(w)
           bad == {i \in 1..N : fam[i] \notin Lineage(w[i])}
<1>1. LineageIs
  BY LineageDefined
<1> SUFFICES ASSUME bad # {}
             PROVE  FALSE
  OBVIOUS
<1>2. PICK i \in bad : \A j \in bad : i <= j
  <2>1. bad \in SUBSET Nat
    OBVIOUS
  <2> QED
    BY <2>1, LeastNatural
<1>3. CASE \E g \in 1..N : g < i /\ w[g] = replaces[w[i]]
  <2>1. PICK g \in 1..N : g < i /\ w[g] = replaces[w[i]]
    BY <1>3
  <2>2. fam[i] = fam[g] /\ g \notin bad
    BY <1>2, <2>1 DEF FamilyRoots
  <2>3. Lineage(w[g]) \subseteq Lineage(w[i])
    BY <1>1, <2>1 DEF LineageIs
  <2> QED
    BY <1>2, <2>2, <2>3
<1>4. CASE \A g \in 1..N : g < i => w[g] # replaces[w[i]]
  <2>1. fam[i] = w[i]
    BY <1>4 DEF FamilyRoots
  <2> QED
    BY <1>1, <1>2, <2>1 DEF LineageIs
<1> QED
  BY <1>3, <1>4

\* The last document of a family has all of the family on its history page: the
\* root in its chain, and so the rest in the chain or below.
LEMMA SupersededHolds == TypeOK /\ Rooted /\ ReplacementsEnd => SupersededIsInHistory
<1> SUFFICES ASSUME TypeOK, Rooted, ReplacementsEnd, NEW n \in Place, Visible(n),
                    NEW d \in ToSet(Path[n]) \ InEffect(Path[n], replaces)
             PROVE  \E e \in InEffect(Path[n], replaces) : d \in Lineage(e) \cup Below(e)
  BY DEF SupersededIsInHistory
<1> DEFINE w == Path[n]
           N == Len(w)
<1>1. w \in Seq(Doc) /\ IsInjective(w) /\ \A i \in 1..N : w[i] \in Listed
  BY PathDocs, PathListed
<1>2. PICK fam : /\ FamilyRoots(w, replaces, fam)
                 /\ InEffect(w, replaces) =
                      {w[k] : k \in {j \in 1..N : \A h \in 1..N : fam[h] = fam[j] => h <= j}}
  BY ShownIs
<1>3. d \in ToSet(w)
  OBVIOUS
<1> HIDE DEF w
<1>4. PICK i \in 1..N : d = w[i]
  BY <1>1, <1>3 DEF ToSet
<1> DEFINE class == {k \in 1..N : fam[k] = fam[i]}
<1>5. PICK j \in class : \A h \in class : h <= j
  <2>1. class \in SUBSET (0..N) /\ class # {} /\ N \in Nat
    BY <1>1, <1>4
  <2> HIDE DEF class
  <2> QED
    BY <2>1, GreatestNatural
<1> DEFINE e == w[j]
<1>6. e \in InEffect(w, replaces)
  BY <1>2, <1>5
<1>7. d \in Listed /\ e \in Listed /\ fam[i] \in Lineage(e)
  BY <1>1, <1>2, <1>4, <1>5, RootInLineage
<1>8. ASSUME NEW S \in SUBSET Listed, Lineage(e) \subseteq S,
             \A y \in Listed : replaces[y] \in S => y \in S
      PROVE  d \in S
  <2> DEFINE bad == {k \in class : w[k] \notin S}
  <2>1. CASE bad = {}
    BY <1>4, <2>1
  <2>2. CASE bad # {}
    <3>1. PICK k \in bad : \A h \in bad : k <= h
      <4>1. bad \in SUBSET Nat
        OBVIOUS
      <4> QED
        BY <2>2, <4>1, LeastNatural
    <3>2. CASE \E g \in 1..N : g < k /\ w[g] = replaces[w[k]]
      <4>1. PICK g \in 1..N : g < k /\ w[g] = replaces[w[k]]
        BY <3>2
      <4>2. fam[g] = fam[i] /\ g \notin bad
        BY <1>2, <3>1, <4>1 DEF FamilyRoots
      <4>3. replaces[w[k]] \in S /\ w[k] \in Listed
        BY <1>1, <3>1, <4>1, <4>2
      <4> QED
        BY <1>8, <3>1, <4>3
    <3>3. CASE \A g \in 1..N : g < k => w[g] # replaces[w[k]]
      <4>1. w[k] = fam[i]
        BY <1>2, <3>1, <3>3 DEF FamilyRoots
      <4> QED
        BY <1>7, <1>8, <3>1, <4>1
    <3> QED
      BY <3>2, <3>3
  <2> QED
    BY <2>1, <2>2
<1>9. d \in Lineage(e) \cup Below(e)
  BY <1>7, <1>8 DEF Below
<1> QED
  BY <1>6, <1>9 DEF w

----------------------------------------------------------------------------
(* The requests.                                                           *)

IInv == TypeOK /\ ReplacementsEnd /\ Rooted

\* The new document is at the end of one sequence and in no other.
LEMMA AttachType ==
    ASSUME TypeOK, NEW n \in Place, NEW d \in Doc, NEW r \in Doc \cup {None}, Attach(n, d, r)
    PROVE  TypeOK'
<1>1. /\ docs \in [Place -> Seq(Doc)]
      /\ docs' = [docs EXCEPT ![n] = Append(@, d)]
      /\ d \notin DOMAIN replaces
  BY DEF TypeOK, Attach
<1>2. docs' \in [Place -> Seq(Doc)]
  BY <1>1
<1>3. \A m \in Place : d \notin ToSet(docs[m])
  BY <1>1, AttachedHere
<1>4. \A m \in Place \ {n} : docs'[m] = docs[m]
  BY <1>1
<1>5. /\ docs'[n] = Append(docs[n], d) /\ docs[n] \in Seq(Doc)
      /\ \A i \in 1..Len(docs[n]) : docs[n][i] # d
  BY <1>1, <1>3, AttachedHere DEF Here
<1>6. IsInjective(docs'[n])
  <2>1. \A i, j \in 1..Len(docs[n]) : docs[n][i] = docs[n][j] => i = j
    BY <1>5 DEF TypeOK, IsInjective
  <2>2. /\ DOMAIN docs'[n] = 1..(Len(docs[n]) + 1)
        /\ \A i \in 1..Len(docs[n]) : docs'[n][i] = docs[n][i]
        /\ docs'[n][Len(docs[n]) + 1] = d
        /\ Len(docs[n]) \in Nat
    BY <1>5
  <2> QED
    BY <1>5, <2>1, <2>2 DEF IsInjective
<1>7. ToSet(docs'[n]) = ToSet(docs[n]) \cup {d}
  BY <1>5 DEF ToSet
<1>8. /\ DOMAIN replaces' = DOMAIN replaces \cup {d}
      /\ \A x \in DOMAIN replaces' : replaces'[x] = IF x = d THEN r ELSE replaces[x]
      /\ r \in DOMAIN replaces \cup {None}
  BY AttachedHere DEF Attach, Put, TypeOK
<1>9. Attached' \subseteq DOMAIN replaces'
  <2>1. Attached' \subseteq Attached \cup {d}
    BY <1>4, <1>7 DEF Attached
  <2> QED
    BY <1>8, <2>1 DEF TypeOK
<1>10. \A k, m \in Place : k # m => ToSet(docs'[k]) \cap ToSet(docs'[m]) = {}
  BY <1>3, <1>4, <1>7 DEF TypeOK
<1>11. \A m \in Place : IsInjective(docs'[m])
  BY <1>4, <1>6 DEF TypeOK
<1>12. /\ DOMAIN replaces' \subseteq Doc
       /\ \A x \in DOMAIN replaces' : replaces'[x] \in DOMAIN replaces' \cup {None}
  BY <1>8 DEF TypeOK
<1> QED
  BY <1>2, <1>9, <1>10, <1>11, <1>12 DEF TypeOK, Attach

\* A restored export keeps some sequences and empties the others.
LEMMA RestoreType ==
    ASSUME TypeOK, NEW n \in Node, RestoreExport(n)
    PROVE  TypeOK'
<1> DEFINE kept == {m \in Node : n \in Up[m]}
<1>1. /\ parent' = [m \in Node |-> IF m \in kept \ {n} THEN parent[m] ELSE Root]
      /\ deleted' = deleted \cap kept
      /\ docs' = [m \in Place |-> IF m \in kept THEN docs[m] ELSE <<>>]
      /\ replaces' = replaces
  BY DEF RestoreExport
<1> HIDE DEF kept
<1>2. parent' \in [Node -> Place] /\ deleted' \subseteq Node
  BY <1>1 DEF TypeOK, Place
<1>3. \A m \in Place : docs'[m] = docs[m] \/ docs'[m] = <<>>
  BY <1>1
<1>4. docs' \in [Place -> Seq(Doc)]
  BY <1>1 DEF TypeOK
<1>5. ToSet(<<>>) = {} /\ IsInjective(<<>>)
  BY DEF ToSet, IsInjective
<1>6. \A m \in Place : IsInjective(docs'[m]) /\ ToSet(docs'[m]) \subseteq ToSet(docs[m])
  BY <1>3, <1>5 DEF TypeOK
<1>7. Attached' \subseteq Attached
  BY <1>6 DEF Attached
<1>8. \A k, m \in Place : k # m => ToSet(docs'[k]) \cap ToSet(docs'[m]) = {}
  BY <1>6 DEF TypeOK
<1> QED
  BY <1>1, <1>2, <1>4, <1>6, <1>7, <1>8 DEF TypeOK

\* The rest of the requests leave the documents where they are.
LEMMA StepType == TypeOK /\ [Next]_vars => TypeOK'
<1> SUFFICES ASSUME TypeOK, [Next]_vars
             PROVE  TypeOK'
  OBVIOUS
<1>1. ASSUME NEW n \in Place, NEW d \in Doc, NEW r \in Doc \cup {None}, Attach(n, d, r)
      PROVE  TypeOK'
  BY <1>1, AttachType
<1>2. ASSUME NEW n \in Node, RestoreExport(n)
      PROVE  TypeOK'
  BY <1>2, RestoreType
<1>3. CASE /\ parent' \in [Node -> Place] /\ deleted' \subseteq Node
           /\ UNCHANGED <<docs, replaces>>
  BY <1>3 DEF TypeOK, Attached
<1>4. ASSUME NEW n \in Node, NEW p \in Place, Move(n, p)
      PROVE  TypeOK'
  <2>1. parent' \in [Node -> Place] /\ deleted' \subseteq Node /\ UNCHANGED <<docs, replaces>>
    BY <1>4 DEF Move, TypeOK
  <2> QED
    BY <2>1, <1>3
<1>5. ASSUME NEW n \in Node, Hide(n)
      PROVE  TypeOK'
  <2>1. parent' \in [Node -> Place] /\ deleted' \subseteq Node /\ UNCHANGED <<docs, replaces>>
    BY <1>5 DEF Hide, TypeOK
  <2> QED
    BY <2>1, <1>3
<1>6. CASE UNCHANGED vars
  BY <1>3, <1>6 DEF vars, TypeOK
<1> QED
  BY <1>1, <1>2, <1>4, <1>5, <1>6 DEF Next

\* A new document replaces an older one, and no older one replaces it: a set that
\* contains it and more has an end among the older ones.
LEMMA AttachEnds ==
    ASSUME IInv, NEW n \in Place, NEW d \in Doc, NEW r \in Doc \cup {None}, Attach(n, d, r)
    PROVE  ReplacementsEnd'
<1>1. /\ DOMAIN replaces' = DOMAIN replaces \cup {d}
      /\ \A x \in DOMAIN replaces' : replaces'[x] = IF x = d THEN r ELSE replaces[x]
      /\ d \notin DOMAIN replaces
      /\ r \in DOMAIN replaces \cup {None}
  BY AttachedHere DEF Attach, Put, IInv, TypeOK
<1>2. \A x \in DOMAIN replaces : replaces[x] # d
  BY <1>1, DocumentsAssumption DEF IInv, TypeOK
<1>3. SUFFICES ASSUME NEW D \in SUBSET DOMAIN replaces', D # {}
               PROVE  \E x \in D : replaces'[x] \notin D
  BY DEF ReplacementsEnd
<1>4. CASE D \ {d} = {}
  <2>1. D = {d} /\ r # d
    BY <1>1, <1>3, <1>4, DocumentsAssumption
  <2> QED
    BY <1>1, <2>1
<1>5. CASE D \ {d} # {}
  <2>1. D \ {d} \in SUBSET DOMAIN replaces
    BY <1>1
  <2>2. PICK x \in D \ {d} : replaces[x] \notin D \ {d}
    BY <1>5, <2>1 DEF IInv, ReplacementsEnd
  <2>3. replaces'[x] = replaces[x] /\ replaces[x] # d
    BY <1>1, <1>2, <2>1, <2>2
  <2> QED
    BY <2>2, <2>3
<1> QED
  BY <1>4, <1>5

\* A node is not moved below itself: a cycle would hold a part of the chain to the
\* new parent, and that part has its own way out.
LEMMA MoveRooted ==
    ASSUME TypeOK, Rooted, NEW n \in Node, NEW p \in Place, Move(n, p)
    PROVE  Rooted'
<1> USE DocumentsAssumption
<1>1. parent \in [Node -> Place] /\ parent' = [parent EXCEPT ![n] = p] /\ n \notin Up[p]
  BY DEF TypeOK, Move
<1>2. UpIs
  BY UpDefined
<1> SUFFICES ASSUME NEW D \in SUBSET Node, D # {}
             PROVE  \E m \in D : parent'[m] \notin D
  BY DEF Rooted, RootedIn
<1>3. CASE n \in D /\ p \in D
  <2> DEFINE C == D \cap Up[p]
  <2>1. p \in Node /\ p \in Up[p]
    BY <1>2, <1>3 DEF UpIs
  <2>2. PICK m \in C : parent[m] \notin C
    BY <1>3, <2>1 DEF Rooted, RootedIn
  <2>3. parent[m] = Root \/ parent[m] \in Up[p]
    BY <2>2, UpTransitive
  <2>4. parent[m] \notin D /\ m # n
    BY <1>1, <2>2, <2>3
  <2> QED
    BY <1>1, <2>2, <2>4
<1>4. CASE n \in D /\ p \notin D
  BY <1>1, <1>4
<1>5. CASE n \notin D
  BY <1>1, <1>5 DEF Rooted, RootedIn
<1> QED
  BY <1>3, <1>4, <1>5

\* The other requests move nodes to the top, or not at all.
LEMMA RootedStep == TypeOK /\ Rooted /\ [Next]_vars => Rooted'
<1> SUFFICES ASSUME TypeOK, Rooted, [Next]_vars
             PROVE  Rooted'
  OBVIOUS
<1>1. CASE UNCHANGED parent
  BY <1>1 DEF Rooted
<1>2. ASSUME NEW n \in Place, NEW d \in Doc, NEW r \in Doc \cup {None}, Attach(n, d, r)
      PROVE  Rooted'
  BY <1>1, <1>2 DEF Attach
<1>3. ASSUME NEW n \in Node, NEW p \in Place, Move(n, p)
      PROVE  Rooted'
  BY <1>3, MoveRooted
<1>4. ASSUME NEW n \in Node, Hide(n)
      PROVE  Rooted'
  BY <1>1, <1>4 DEF Hide
<1>5. ASSUME NEW n \in Node, RestoreExport(n)
      PROVE  Rooted'
  <2>1. \A m \in Node : parent'[m] \in {parent[m], Root}
    BY <1>5 DEF RestoreExport
  <2> SUFFICES ASSUME NEW D \in SUBSET Node, D # {}
               PROVE  \E m \in D : parent'[m] \notin D
    BY DEF Rooted, RootedIn
  <2>2. PICK m \in D : parent[m] \notin D
    BY DEF Rooted, RootedIn
  <2> QED
    BY <2>1, <2>2, DocumentsAssumption
<1>6. CASE UNCHANGED vars
  BY <1>1, <1>6 DEF vars
<1> QED
  BY <1>2, <1>3, <1>4, <1>5, <1>6 DEF Next

\* The inductive invariant of Attach, Move, Hide and RestoreExport.
LEMMA InvariantHolds == Spec => []IInv
<1>1. Init => IInv
  <2> SUFFICES ASSUME Init PROVE IInv
    OBVIOUS
  <2>1. \A n \in Place : docs[n] = <<>>
    BY DEF Init
  <2>2. ToSet(<<>>) = {} /\ IsInjective(<<>>)
    BY DEF ToSet, IsInjective
  <2>3. \A n \in Place : ToSet(docs[n]) = {} /\ IsInjective(docs[n])
    BY <2>1, <2>2
  <2>4. Attached = {} /\ DOMAIN replaces = {}
    BY <2>3 DEF Attached, Init
  <2>5. Rooted
    <3>1. \A D \in SUBSET Node : Root \notin D
      BY DocumentsAssumption
    <3> QED
      BY <3>1 DEF Init, Rooted, RootedIn
  <2>6. docs \in [Place -> Seq(Doc)] /\ parent \in [Node -> Place] /\ deleted = {}
    BY DEF Init, Place
  <2> QED
    BY <2>3, <2>4, <2>5, <2>6 DEF IInv, TypeOK, ReplacementsEnd
<1>2. IInv /\ [Next]_vars => IInv'
  <2> SUFFICES ASSUME IInv, [Next]_vars
               PROVE  IInv'
    OBVIOUS
  <2>1. TypeOK'
    BY StepType DEF IInv
  <2>2. ASSUME NEW n \in Place, NEW d \in Doc, NEW r \in Doc \cup {None}, Attach(n, d, r)
        PROVE  ReplacementsEnd'
    BY <2>2, AttachEnds
  <2>3. ASSUME UNCHANGED replaces
        PROVE  ReplacementsEnd'
    <3>1. ReplacementsEnd
      BY DEF IInv
    <3> QED
      BY <2>3, <3>1 DEF ReplacementsEnd
  <2>4. ASSUME NEW n \in Node, NEW p \in Place, Move(n, p)
        PROVE  ReplacementsEnd'
    BY <2>3, <2>4 DEF Move
  <2>5. ASSUME NEW n \in Node, Hide(n) \/ RestoreExport(n)
        PROVE  ReplacementsEnd'
    BY <2>3, <2>5 DEF Hide, RestoreExport
  <2>6. ASSUME UNCHANGED vars
        PROVE  ReplacementsEnd'
    BY <2>3, <2>6 DEF vars
  <2>7. ReplacementsEnd'
    BY <2>2, <2>4, <2>5, <2>6 DEF Next
  <2>8. Rooted'
    BY RootedStep DEF IInv
  <2> QED
    BY <2>1, <2>7, <2>8 DEF IInv
<1> QED
  BY <1>1, <1>2, PTL DEF Spec

\* However documents are attached, moved, hidden and restored, each is in one
\* place, once, and replaces nothing that was never attached.
THEOREM EachDocumentOnce == Spec => []TypeOK
  BY InvariantHolds, PTL DEF IInv

\* Every history has a first version: the links between revisions have no cycle.
THEOREM HistoriesBegin == Spec => []ReplacementsEnd
  BY InvariantHolds, PTL DEF IInv

\* At every visible node the documents in effect are the last ones of each family
\* on its path (docTrail.add).
THEOREM EffectIsAlwaysNewest == Spec => []EffectIsNewest
<1>1. IInv => EffectIsNewest
  BY EffectHolds DEF IInv
<1> QED
  BY <1>1, InvariantHolds, PTL

\* And the version that is shown with one is the size of its family on that path
\* (docTrail.counts).
THEOREM VersionsAreFamilySizes == Spec => []VersionCountsFamily
<1>1. IInv => VersionCountsFamily
  BY VersionsHold DEF IInv
<1> QED
  BY <1>1, InvariantHolds, PTL

\* What has gone out of effect at a node is on the history page of a document in
\* effect there (docTrail against buildDocumentHistory).
THEOREM NothingSupersededIsLost == Spec => []SupersededIsInHistory
<1>1. IInv => SupersededIsInHistory
  BY SupersededHolds DEF IInv
<1> QED
  BY <1>1, InvariantHolds, PTL

----------------------------------------------------------------------------
(* What an upload does to the rest.                                        *)

\* Origins, for given links.
OriginsUnder(links, d) ==
    LET O[x \in DOMAIN links] ==
          {x} \cup (IF links[x] = None THEN {} ELSE O[links[x]])
    IN  O[d]

\* What Origins is recursively defined to be.
OriginsIs ==
    \A d \in DOMAIN replaces :
        /\ d \in OriginsUnder(replaces, d)
        /\ replaces[d] # None =>
              OriginsUnder(replaces, replaces[d]) \subseteq OriginsUnder(replaces, d)

\* The links end, so that this recursion is defined too.
LEMMA OriginsDefined == TypeOK /\ ReplacementsEnd => OriginsIs
<1> SUFFICES ASSUME TypeOK, ReplacementsEnd
             PROVE  OriginsIs
  OBVIOUS
<1> DEFINE All == DOMAIN replaces
           P == [x \in All |-> replaces[x]]
           G == [q \in All \X SUBSET All |-> {q[1]} \cup q[2]]
           Eq(g) == g = [x \in All |->
                           {x} \cup (IF replaces[x] = None THEN {} ELSE g[replaces[x]])]
           u == CHOOSE g : Eq(g)
<1>1. /\ None \notin All
      /\ \A x \in All : replaces[x] \in All \cup {None}
  BY DocumentsAssumption DEF TypeOK
<1>2. Walk(All, None, P, SUBSET All, {}, G)
  <2>1. RootedIn(All, P)
    BY DEF RootedIn, ReplacementsEnd
  <2>2. G \in [All \X SUBSET All -> SUBSET All]
    OBVIOUS
  <2>3. P \in [All -> All \cup {None}]
    BY <1>1
  <2> HIDE DEF P, G, All
  <2> QED
    BY <1>1, <2>1, <2>2, <2>3 DEF Walk
<1>3. PICK f \in WalkValues(All, None, P, SUBSET All, {}, G) : TRUE
  <2> HIDE DEF P, G, All
  <2> QED
    BY <1>2, WalkExists
<1> HIDE DEF All
<1>4. /\ f[None] = {} /\ \A x \in All : f[x] \in SUBSET All
      /\ \A x \in All : f[x] = G[<<x, f[replaces[x]]>>]
  BY <1>3 DEF WalkValues
<1>5. \A x \in All : f[x] = {x} \cup (IF replaces[x] = None THEN {} ELSE f[replaces[x]])
  <2> SUFFICES ASSUME NEW x \in All
               PROVE  f[x] = {x} \cup (IF replaces[x] = None THEN {} ELSE f[replaces[x]])
    OBVIOUS
  <2>1. f[replaces[x]] \in SUBSET All
    BY <1>1, <1>4
  <2>2. f[x] = {x} \cup f[replaces[x]]
    BY <1>4, <2>1
  <2> QED
    BY <1>4, <2>2
<1> DEFINE h == [x \in All |-> f[x]]
<1>6. Eq(h)
  BY <1>1, <1>5
<1>7. \A d : OriginsUnder(replaces, d) = u[d]
  BY DEF OriginsUnder, All
<1> HIDE DEF Eq
<1>8. Eq(u)
  BY <1>6, Zenon
<1> HIDE DEF u
<1> USE DEF Eq
<1>9. \A x \in All : u[x] = {x} \cup (IF replaces[x] = None THEN {} ELSE u[replaces[x]])
  BY <1>8
<1> QED
  BY <1>1, <1>7, <1>9 DEF OriginsIs, All

\* The trail at a place, as far as an upload is concerned.
PageIs(n) ==
    /\ Path[n] \in Seq(Doc)
    /\ \A i \in 1..Len(Path[n]) : Path[n][i] \in DOMAIN replaces
    /\ \A i, j \in 1..Len(Path[n]) : Path[n][i] = Path[n][j] => i = j
    /\ \E fam : /\ FamilyRoots(Path[n], replaces, fam)
                /\ \A k \in 1..Len(Path[n]) : fam[k] \in OriginsUnder(replaces, Path[n][k])
                /\ InEffect(Path[n], replaces) =
                     {Path[n][k] : k \in {j \in 1..Len(Path[n]) :
                        \A h \in 1..Len(Path[n]) : fam[h] = fam[j] => h <= j}}

PagesAre == \A n \in Place : PageIs(n)

\* The trail of docTrail, its families and where they come from, at every place.
LEMMA PagesHold == IInv => PagesAre
<1> SUFFICES ASSUME IInv, NEW n \in Place
             PROVE  PageIs(n)
  BY DEF PagesAre
<1> USE DEF IInv
<1> DEFINE w == Path[n]
           N == Len(w)
<1>1. w \in Seq(Doc) /\ IsInjective(w)
  BY PathDocs
<1>2. \A i \in 1..N : w[i] \in DOMAIN replaces
  <2> SUFFICES ASSUME NEW i \in 1..N
               PROVE  w[i] \in DOMAIN replaces
    OBVIOUS
  <2>1. PICK m \in Up[n] \cup {Root} : w[i] \in Here(m)
    BY PathDocs
  <2>2. m \in Place
    BY <2>1, UpDefined DEF UpIs, Place
  <2> QED
    BY <2>1, <2>2, AttachedHere
<1>3. \A i, j \in 1..N : w[i] = w[j] => i = j
  BY <1>1 DEF IsInjective
<1>4. PICK fam : /\ FamilyRoots(w, replaces, fam)
                 /\ InEffect(w, replaces) =
                      {w[k] : k \in {j \in 1..N : \A h \in 1..N : fam[h] = fam[j] => h <= j}}
  BY ShownIs
<1> HIDE DEF w
<1>5. \A k \in 1..N : fam[k] \in OriginsUnder(replaces, w[k])
  <2> DEFINE bad == {k \in 1..N : fam[k] \notin OriginsUnder(replaces, w[k])}
  <2> SUFFICES ASSUME bad # {}
               PROVE  FALSE
    OBVIOUS
  <2>1. OriginsIs
    BY OriginsDefined
  <2>2. PICK k \in bad : \A h \in bad : k <= h
    <3>1. bad \in SUBSET Nat
      OBVIOUS
    <3> QED
      BY <3>1, LeastNatural
  <2>3. CASE \E g \in 1..N : g < k /\ w[g] = replaces[w[k]]
    <3>1. PICK g \in 1..N : g < k /\ w[g] = replaces[w[k]]
      BY <2>3
    <3>2. fam[k] = fam[g] /\ g \notin bad
      BY <1>4, <2>2, <3>1 DEF FamilyRoots
    <3>3. replaces[w[k]] # None
      BY <1>1, <3>1, DocumentsAssumption
    <3>4. OriginsUnder(replaces, w[g]) \subseteq OriginsUnder(replaces, w[k])
      BY <1>2, <2>1, <3>1, <3>3 DEF OriginsIs
    <3> QED
      BY <2>2, <3>2, <3>4
  <2>4. CASE \A g \in 1..N : g < k => w[g] # replaces[w[k]]
    <3>1. fam[k] = w[k]
      BY <1>4, <2>4 DEF FamilyRoots
    <3> QED
      BY <1>2, <2>1, <2>2, <3>1 DEF OriginsIs
  <2> QED
    BY <2>3, <2>4
<1> QED
  BY <1>1, <1>2, <1>3, <1>4, <1>5 DEF w, PageIs

\* Both facts about paths, in the form that the step from one state to the next needs.
LEMMA PathsAndPages == IInv => PathIs /\ PagesAre
  BY PathDefined, PagesHold DEF IInv

\* v is w with d put in after the first p.
Inserted(w, v, p, d) ==
    /\ p \in 0..Len(w) /\ Len(v) = Len(w) + 1
    /\ \A k \in 1..p : v[k] = w[k]
    /\ v[p + 1] = d
    /\ \A k \in (p + 1)..Len(w) : v[k + 1] = w[k]

\* An upload puts one document in one place of the paths that lead through its node.
LEMMA PathGrows ==
    ASSUME IInv, IInv', NEW m \in Place, NEW d \in Doc, NEW r \in Doc \cup {None}, Attach(m, d, r),
           NEW n \in Place
    PROVE  Path'[n] = Path[n] \/ \E p \in Nat : Inserted(Path[n], Path'[n], p, d)
<1> USE DocumentsAssumption
<1>1. PathIs /\ PathIs' /\ PagesAre /\ PagesAre'
  <2>1. IInv' => PathIs' /\ PagesAre'
    BY PathsAndPages, PTL
  <2> QED
    BY PathsAndPages, <2>1
<1>2. /\ parent' = parent /\ docs \in [Place -> Seq(Doc)]
      /\ docs' = [docs EXCEPT ![m] = Append(docs[m], d)]
      /\ d \notin DOMAIN replaces
      /\ \A k \in Node : parent[k] \in Place
  BY DEF Attach, IInv, TypeOK
<1> DEFINE Grows(k) == Path'[k] = Path[k] \/ \E p \in Nat : Inserted(Path[k], Path'[k], p, d)
           bad == {k \in Node : ~Grows(k)}
<1>3. \A k \in Place : docs'[k] = docs[k] \/ docs'[k] = Append(docs[k], d)
  BY <1>2
<1>4. Grows(Root)
  <2> DEFINE a == Path[Root]
             b == Path'[Root]
  <2>1. Root \in Place /\ a \in Seq(Doc) /\ (b = a \/ b = Append(a, d))
    BY <1>1, <1>3 DEF PathIs, Place
  <2> HIDE DEF a, b
  <2>2. b = Append(a, d) => Len(a) \in Nat /\ Inserted(a, b, Len(a), d)
    BY <2>1 DEF Inserted
  <2> QED
    BY <2>1, <2>2 DEF a, b
<1>5. bad = {}
  <2> SUFFICES ASSUME bad # {}
               PROVE  FALSE
    OBVIOUS
  <2>1. PICK k \in bad : parent[k] \notin bad
    BY DEF IInv, Rooted, RootedIn
  <2> DEFINE a == Path[parent[k]]
             b == Path'[parent[k]]
             c == docs[k]
             w == Path[k]
             v == Path'[k]
  <2>2. /\ parent[k] \in Place /\ k \in Place
        /\ b = a \/ \E p \in Nat : Inserted(a, b, p, d)
    BY <1>2, <1>4, <2>1 DEF Place
  <2>3. /\ a \in Seq(Doc) /\ b \in Seq(Doc) /\ c \in Seq(Doc)
        /\ w = a \o c /\ v = b \o docs'[k]
    BY <1>1, <1>2, <2>1, <2>2 DEF PathIs
  <2>4. \A i, j \in 1..Len(v) : v[i] = v[j] => i = j
    BY <1>1, <2>2 DEF PagesAre, PageIs
  <2>5. docs'[k] = c \/ docs'[k] = Append(c, d)
    BY <1>3, <2>2
  <2>6. ~(w = v) /\ ~ \E p \in Nat : Inserted(w, v, p, d)
    BY <2>1
  <2> HIDE DEF a, b, c, w, v
  <2>7. CASE b = a /\ docs'[k] = c
    BY <2>3, <2>6, <2>7
  <2>8. CASE b = a /\ docs'[k] = Append(c, d)
    <3>1. Inserted(w, v, Len(w), d) /\ Len(w) \in Nat
      BY <2>3, <2>8 DEF Inserted
    <3> QED
      BY <2>6, <3>1
  <2>9. ASSUME NEW p \in Nat, Inserted(a, b, p, d), docs'[k] = c
        PROVE  FALSE
    <3>1. /\ p \in 0..Len(a) /\ Len(b) = Len(a) + 1 /\ Len(a) \in Nat /\ Len(c) \in Nat
          /\ \A j \in 1..p : b[j] = a[j]
          /\ b[p + 1] = d
          /\ \A j \in (p + 1)..Len(a) : b[j + 1] = a[j]
      BY <2>3, <2>9 DEF Inserted
    <3>2. /\ Len(w) = Len(a) + Len(c) /\ Len(v) = Len(b) + Len(c)
          /\ \A j \in 1..Len(a) : w[j] = a[j]
          /\ \A j \in 1..Len(b) : v[j] = b[j]
          /\ \A j \in 1..Len(c) : w[Len(a) + j] = c[j] /\ v[Len(b) + j] = c[j]
      BY <2>3, <2>9, SMTT(30)
    <3>3. \A j \in 1..p : v[j] = w[j]
      BY <3>1, <3>2
    <3>4. v[p + 1] = d
      BY <3>1, <3>2
    <3>5. ASSUME NEW j \in (p + 1)..Len(w)
          PROVE  v[j + 1] = w[j]
      <4>1. CASE j <= Len(a)
        BY <3>1, <3>2, <4>1
      <4>2. CASE j > Len(a)
        <5>1. j - Len(a) \in 1..Len(c)
          BY <3>1, <3>2, <4>2
        <5>2. w[Len(a) + (j - Len(a))] = v[Len(b) + (j - Len(a))]
          BY <3>2, <5>1
        <5> QED
          BY <3>1, <3>2, <4>2, <5>2
      <4> QED
        BY <3>1, <4>1, <4>2
    <3>6. Inserted(w, v, p, d)
      BY <3>1, <3>2, <3>3, <3>4, <3>5 DEF Inserted
    <3> QED
      BY <2>6, <3>6
  <2>10. ASSUME NEW p \in Nat, Inserted(a, b, p, d), docs'[k] = Append(c, d)
         PROVE  FALSE
    <3>1. p + 1 \in 1..Len(b) /\ b[p + 1] = d /\ Len(b) \in Nat
      BY <2>3, <2>10 DEF Inserted
    <3>2. /\ Len(v) = Len(b) + Len(c) + 1 /\ Len(c) \in Nat
          /\ v[p + 1] = d /\ v[Len(v)] = d
      BY <2>3, <2>10, <3>1
    <3> QED
      BY <2>4, <3>1, <3>2
  <2> QED
    BY <2>2, <2>5, <2>7, <2>8, <2>9, <2>10
<1> QED
  BY <1>4, <1>5 DEF Place

\* v has the documents of w in the same order, with the same links, and others that
\* those of w do not replace.
Extends(w, v, links, more, at) ==
    /\ w \in Seq(Doc) /\ v \in Seq(Doc)
    /\ at \in [1..Len(w) -> 1..Len(v)]
    /\ \A g, h \in 1..Len(w) : g < h => at[g] < at[h]
    /\ \A k \in 1..Len(w) : v[at[k]] = w[k] /\ more[w[k]] = links[w[k]]
    /\ \A q \in 1..Len(v) : \/ \E k \in 1..Len(w) : q = at[k]
                            \/ \A k \in 1..Len(w) : links[w[k]] # v[q]

\* The families of the documents of w are then the same.
LEMMA RootsKept ==
    ASSUME NEW w, NEW v, NEW links, NEW more, NEW at, Extends(w, v, links, more, at),
           NEW fam, NEW fam2, FamilyRoots(w, links, fam), FamilyRoots(v, more, fam2)
    PROVE  \A k \in 1..Len(w) : fam2[at[k]] = fam[k]
<1> USE DEF Extends
<1> DEFINE N == Len(w)
           bad == {k \in 1..N : fam2[at[k]] # fam[k]}
<1> SUFFICES ASSUME bad # {}
             PROVE  FALSE
  OBVIOUS
<1>1. PICK k \in bad : \A h \in bad : k <= h
  <2>1. bad \in SUBSET Nat
    OBVIOUS
  <2> QED
    BY <2>1, LeastNatural
<1>2. CASE \E g \in 1..N : g < k /\ w[g] = links[w[k]]
  <2>1. PICK g \in 1..N : g < k /\ w[g] = links[w[k]]
    BY <1>2
  <2>2. fam[k] = fam[g] /\ g \notin bad
    BY <1>1, <2>1 DEF FamilyRoots
  <2>3. at[g] < at[k] /\ v[at[g]] = more[v[at[k]]]
    BY <2>1
  <2>4. fam2[at[k]] = fam2[at[g]]
    BY <2>1, <2>3 DEF FamilyRoots
  <2> QED
    BY <1>1, <2>2, <2>4
<1>3. CASE \A g \in 1..N : g < k => w[g] # links[w[k]]
  <2>1. ASSUME NEW q \in 1..Len(v), q < at[k]
        PROVE  v[q] # more[v[at[k]]]
    <3>1. CASE \E g \in 1..N : q = at[g]
      <4>1. PICK g \in 1..N : q = at[g]
        BY <3>1
      <4>2. g < k
        BY <2>1, <4>1
      <4> QED
        BY <1>3, <4>1, <4>2
    <3>2. CASE \A g \in 1..N : links[w[g]] # v[q]
      BY <3>2
    <3> QED
      BY <3>1, <3>2
  <2>2. fam2[at[k]] = v[at[k]]
    BY <2>1 DEF FamilyRoots
  <2>3. fam[k] = w[k]
    BY <1>3 DEF FamilyRoots
  <2> QED
    BY <1>1, <2>2, <2>3
<1> QED
  BY <1>2, <1>3

\* Where the documents of a path are found after an upload.
LEMMA PlacesAfter ==
    ASSUME IInv, IInv', NEW m \in Place, NEW d \in Doc, NEW r \in Doc \cup {None}, Attach(m, d, r),
           NEW n \in Place
    PROVE  \E at \in [1..Len(Path[n]) -> 1..Len(Path'[n])] :
              /\ \A g, h \in 1..Len(Path[n]) : g < h => at[g] < at[h]
              /\ \A k \in 1..Len(Path[n]) : Path'[n][at[k]] = Path[n][k]
              /\ \A q \in 1..Len(Path'[n]) : \/ \E k \in 1..Len(Path[n]) : q = at[k]
                                             \/ Path'[n][q] = d
<1> DEFINE w == Path[n]
           v == Path'[n]
<1>1. w \in Seq(Doc) /\ v \in Seq(Doc)
  <2>1. IInv' => PathIs' /\ PagesAre'
    BY PathsAndPages, PTL
  <2> QED
    BY PathsAndPages, <2>1 DEF PagesAre, PageIs
<1>2. v = w \/ \E p \in Nat : Inserted(w, v, p, d)
  BY PathGrows
<1> HIDE DEF w, v
<1>3. CASE v = w
  <2> DEFINE at == [k \in 1..Len(w) |-> k]
  <2>1. /\ at \in [1..Len(w) -> 1..Len(v)]
        /\ \A g, h \in 1..Len(w) : g < h => at[g] < at[h]
        /\ \A k \in 1..Len(w) : v[at[k]] = w[k]
        /\ \A q \in 1..Len(v) : \E k \in 1..Len(w) : q = at[k]
    BY <1>1, <1>3
  <2> QED
    BY <2>1 DEF w, v
<1>4. ASSUME NEW p \in Nat, Inserted(w, v, p, d)
      PROVE  \E at \in [1..Len(w) -> 1..Len(v)] :
                /\ \A g, h \in 1..Len(w) : g < h => at[g] < at[h]
                /\ \A k \in 1..Len(w) : v[at[k]] = w[k]
                /\ \A q \in 1..Len(v) : (\E k \in 1..Len(w) : q = at[k]) \/ v[q] = d
  <2> DEFINE at == [k \in 1..Len(w) |-> IF k <= p THEN k ELSE k + 1]
  <2>1. Len(w) \in Nat /\ p \in 0..Len(w) /\ Len(v) = Len(w) + 1
    BY <1>1, <1>4 DEF Inserted
  <2>2. at \in [1..Len(w) -> 1..Len(v)]
    BY <2>1
  <2>3. \A g, h \in 1..Len(w) : g < h => at[g] < at[h]
    BY <2>1
  <2>4. \A k \in 1..Len(w) : v[at[k]] = w[k]
    BY <1>4, <2>1 DEF Inserted
  <2>5. ASSUME NEW q \in 1..Len(v)
        PROVE  (\E k \in 1..Len(w) : q = at[k]) \/ v[q] = d
    <3>1. CASE q <= p
      BY <2>1, <3>1
    <3>2. CASE q = p + 1
      BY <1>4, <3>2 DEF Inserted
    <3>3. CASE q > p + 1
      <4>1. q - 1 \in 1..Len(w) /\ q = at[q - 1]
        BY <2>1, <3>3
      <4> QED
        BY <4>1
    <3> QED
      BY <2>1, <3>1, <3>2, <3>3
  <2> HIDE DEF at
  <2> QED
    BY <2>2, <2>3, <2>4, <2>5
<1> QED
  BY <1>2, <1>3, <1>4 DEF w, v

\* What goes out of effect with an upload is of the new document's family.
LEMMA AttachSpares ==
    ASSUME IInv, IInv', NEW m \in Place, NEW d \in Doc, NEW r \in Doc \cup {None}, Attach(m, d, r),
           NEW n \in Place,
           NEW x \in InEffect(Path[n], replaces) \ InEffect(Path'[n], replaces')
    PROVE  Origins(x) \cap Origins(d)' # {}
<1> DEFINE w == Path[n]
           v == Path'[n]
<1>1. PagesAre /\ PagesAre'
  <2>1. IInv' => PathIs' /\ PagesAre'
    BY PathsAndPages, PTL
  <2> QED
    BY PathsAndPages, <2>1
<1>2. /\ d \notin DOMAIN replaces
      /\ \A y \in DOMAIN replaces : replaces'[y] = replaces[y] /\ replaces[y] # d
  BY DocumentsAssumption DEF Attach, Put, IInv, TypeOK
<1>3. PageIs(n) /\ PageIs(n)'
  BY <1>1 DEF PagesAre
<1>4. /\ w \in Seq(Doc) /\ v \in Seq(Doc)
      /\ \A i \in 1..Len(w) : w[i] \in DOMAIN replaces
      /\ \A i, j \in 1..Len(v) : v[i] = v[j] => i = j
  BY <1>3 DEF PageIs
<1>5. PICK fam : /\ FamilyRoots(w, replaces, fam)
                 /\ \A k \in 1..Len(w) : fam[k] \in OriginsUnder(replaces, w[k])
                 /\ InEffect(w, replaces) =
                      {w[k] : k \in {j \in 1..Len(w) :
                         \A h \in 1..Len(w) : fam[h] = fam[j] => h <= j}}
  BY <1>3 DEF PageIs
<1>6. PICK fam2 : /\ FamilyRoots(v, replaces', fam2)
                  /\ \A k \in 1..Len(v) : fam2[k] \in OriginsUnder(replaces', v[k])
                  /\ InEffect(v, replaces') =
                       {v[k] : k \in {j \in 1..Len(v) :
                          \A h \in 1..Len(v) : fam2[h] = fam2[j] => h <= j}}
  BY <1>3 DEF PageIs
<1>7. PICK at \in [1..Len(w) -> 1..Len(v)] :
         /\ \A g, h \in 1..Len(w) : g < h => at[g] < at[h]
         /\ \A k \in 1..Len(w) : v[at[k]] = w[k]
         /\ \A q \in 1..Len(v) : (\E k \in 1..Len(w) : q = at[k]) \/ v[q] = d
  BY PlacesAfter
<1>8. x \in InEffect(w, replaces) /\ x \notin InEffect(v, replaces')
  OBVIOUS
<1> HIDE DEF w, v
<1>9. \A k \in 1..Len(w) : fam2[at[k]] = fam[k]
  <2>1. \A k \in 1..Len(w) : v[at[k]] = w[k] /\ replaces'[w[k]] = replaces[w[k]]
    BY <1>2, <1>4, <1>7
  <2>2. \A q \in 1..Len(v) : \/ \E k \in 1..Len(w) : q = at[k]
                             \/ \A k \in 1..Len(w) : replaces[w[k]] # v[q]
    BY <1>2, <1>4, <1>7
  <2>3. Extends(w, v, replaces, replaces', at)
    BY <1>4, <1>7, <2>1, <2>2 DEF Extends
  <2> QED
    BY <1>5, <1>6, <2>3, RootsKept
<1>10. PICK j \in 1..Len(w) : x = w[j] /\ \A h \in 1..Len(w) : fam[h] = fam[j] => h <= j
  BY <1>5, <1>8
<1>11. PICK q \in 1..Len(v) : fam2[q] = fam2[at[j]] /\ ~(q <= at[j])
  BY <1>6, <1>7, <1>8, <1>10
<1>12. v[q] = d
  <2> SUFFICES ASSUME NEW h \in 1..Len(w), q = at[h]
               PROVE  FALSE
    BY <1>7
  <2>1. fam[h] = fam[j]
    BY <1>9, <1>11
  <2>2. h <= j
    BY <1>10, <2>1
  <2>3. h = j \/ at[h] < at[j]
    BY <1>7, <2>2
  <2> QED
    BY <1>11, <2>3
<1>13. fam[j] \in OriginsUnder(replaces, x) /\ fam[j] \in OriginsUnder(replaces', d)
  BY <1>5, <1>6, <1>9, <1>10, <1>11, <1>12
<1>14. Origins(x) = OriginsUnder(replaces, x) /\ Origins(d)' = OriginsUnder(replaces', d)
  BY DEF Origins, OriginsUnder
<1> QED
  BY <1>13, <1>14

\* An upload puts out of effect only what it shares a history with, at its own node
\* and at every reply to it (findAttachment, docTrail.add).
THEOREM UploadsSpareOthers == Spec => UploadSparesOthers
<1>1. IInv /\ IInv' /\ [Next]_vars =>
        [\A d \in DOMAIN replaces' \ DOMAIN replaces : \A n \in Place :
           \A x \in InEffect(Path[n], replaces) \ InEffect(Path[n]', replaces') :
              Origins(x) \cap Origins(d)' # {}]_vars
  <2> SUFFICES ASSUME IInv, IInv', [Next]_vars, NEW d \in DOMAIN replaces' \ DOMAIN replaces,
                      NEW n \in Place,
                      NEW x \in InEffect(Path[n], replaces) \ InEffect(Path'[n], replaces')
               PROVE  Origins(x) \cap Origins(d)' # {}
    OBVIOUS
  <2>1. ASSUME NEW m \in Place, NEW e \in Doc, NEW r \in Doc \cup {None}, Attach(m, e, r)
        PROVE  Origins(x) \cap Origins(d)' # {}
    <3>1. d = e
      BY <2>1 DEF Attach, Put
    <3> QED
      BY <2>1, <3>1, AttachSpares
  <2>2. ~ UNCHANGED replaces
    OBVIOUS
  <2>3. ASSUME NEW k \in Node, NEW p \in Place, Move(k, p)
        PROVE  FALSE
    BY <2>2, <2>3 DEF Move
  <2>4. ASSUME NEW k \in Node, Hide(k) \/ RestoreExport(k)
        PROVE  FALSE
    BY <2>2, <2>4 DEF Hide, RestoreExport
  <2>5. ~ UNCHANGED vars
    BY <2>2 DEF vars
  <2> QED
    BY <2>1, <2>3, <2>4, <2>5 DEF Next
<1> QED
  BY <1>1, InvariantHolds, PTL DEF Spec, UploadSparesOthers
=============================================================================
