--------------------------- MODULE ArchiveProofs ---------------------------
(***************************************************************************)
(* For any number of blobs and any archive: the reader accepts exactly the *)
(* archives that SPEC.md describes, and every backup that skipped nothing. *)
(***************************************************************************)
EXTENDS Archive, Walks

----------------------------------------------------------------------------
(* Sizes.                                                                  *)

\* The bytes of the blobs S.
BytesOf(S) == UNION {{b} \X (1..Size[b]) : b \in S}

\* They are finitely many, and those of one more blob are added.
LEMMA BytesOfOne ==
    ASSUME NEW b \in Blob
    PROVE  /\ IsFiniteSet({b} \X (1..Size[b]))
           /\ Cardinality({b} \X (1..Size[b])) = Size[b]
<1>1. Size[b] \in Nat
  BY SizeAssumption
<1>2. IsFiniteSet(1..Size[b]) /\ Cardinality(1..Size[b]) = Size[b]
  BY <1>1, FS_Interval
<1>3. IsFiniteSet({b}) /\ Cardinality({b}) = 1
  BY FS_Singleton
<1>4. /\ IsFiniteSet({b} \X (1..Size[b]))
      /\ Cardinality({b} \X (1..Size[b])) = Cardinality({b}) * Cardinality(1..Size[b])
  BY <1>2, <1>3, FS_Product
<1> QED
  BY <1>1, <1>2, <1>3, <1>4

\* So have any blobs together: there are finitely many references.
LEMMA BytesAreFinite ==
    ASSUME NEW S \in SUBSET Blob
    PROVE  IsFiniteSet(S) /\ IsFiniteSet(BytesOf(S))
<1>1. IsFiniteSet(S)
  BY NameAssumption, FS_Subset
<1> DEFINE T == {{b} \X (1..Size[b]) : b \in S}
           f == [b \in S |-> {b} \X (1..Size[b])]
<1>2. f \in Surjection(S, T)
  BY DEF Surjection
<1>3. IsFiniteSet(T)
  <2> HIDE DEF f, T
  <2> QED
    BY <1>1, <1>2, FS_Surjection
<1>4. \A B \in T : IsFiniteSet(B)
  BY BytesOfOne
<1>5. IsFiniteSet(UNION T)
  BY <1>3, <1>4, FS_UNION
<1> QED
  BY <1>1, <1>5 DEF BytesOf

\* What stageRestoreArchiveLocked adds up.
LEMMA SizeSums ==
    /\ SizeSum({}) = 0
    /\ \A S \in SUBSET Blob : SizeSum(S) \in Nat
    /\ \A S \in SUBSET Blob : \A b \in Blob \ S : SizeSum(S \cup {b}) = SizeSum(S) + Size[b]
    /\ \A S \in SUBSET Blob : \A R \in SUBSET S : SizeSum(R) <= SizeSum(S)
<1>1. \A S : SizeSum(S) = Cardinality(BytesOf(S))
  BY DEF SizeSum, BytesOf
<1>2. SizeSum({}) = 0
  <2>1. BytesOf({}) = {}
    BY DEF BytesOf
  <2> QED
    BY <1>1, <2>1, FS_EmptySet
<1>3. ASSUME NEW S \in SUBSET Blob
      PROVE  SizeSum(S) \in Nat
  BY <1>1, BytesAreFinite, FS_CardinalityType
<1>4. ASSUME NEW S \in SUBSET Blob, NEW b \in Blob \ S
      PROVE  SizeSum(S \cup {b}) = SizeSum(S) + Size[b]
  <2> DEFINE B == {b} \X (1..Size[b])
  <2>1. BytesOf(S \cup {b}) = BytesOf(S) \cup B
    BY DEF BytesOf
  <2>2. BytesOf(S) \cap B = {}
    <3>1. \A x \in BytesOf(S) : x[1] \in S
      BY DEF BytesOf
    <3>2. \A x \in B : x[1] = b
      OBVIOUS
    <3> QED
      BY <3>1, <3>2
  <2>3. IsFiniteSet(B) /\ Cardinality(B) = Size[b] /\ Size[b] \in Nat
    BY BytesOfOne, SizeAssumption
  <2>4. IsFiniteSet(BytesOf(S)) /\ Cardinality(BytesOf(S)) \in Nat
    BY BytesAreFinite, FS_CardinalityType
  <2> HIDE DEF B
  <2>5. Cardinality(BytesOf(S) \cup B)
           = Cardinality(BytesOf(S)) + Cardinality(B) - Cardinality(BytesOf(S) \cap B)
    BY <2>3, <2>4, FS_Union
  <2>6. Cardinality(BytesOf(S) \cap B) = 0
    BY <2>2, FS_EmptySet
  <2>7. SizeSum(S \cup {b}) = Cardinality(BytesOf(S) \cup B) /\ SizeSum(S) = Cardinality(BytesOf(S))
    BY <1>1, <2>1
  <2> QED
    BY <2>3, <2>4, <2>5, <2>6, <2>7
<1>5. ASSUME NEW S \in SUBSET Blob, NEW R \in SUBSET S
      PROVE  SizeSum(R) <= SizeSum(S)
  <2>1. BytesOf(R) \in SUBSET BytesOf(S)
    BY DEF BytesOf
  <2> QED
    BY <1>1, <2>1, BytesAreFinite, FS_Subset
<1> QED
  BY <1>2, <1>3, <1>4, <1>5

\* Entries, as far as the program and what may happen to its file can make them.
Content == Blob \cup {Junk} \cup Tree
Entries == [name : Blob \cup {Other, "tasks.json"}, bytes : Content, regular : BOOLEAN]

\* A tree is the table of its references with their recorded sizes.
LEMMA Trees ==
    /\ \A t \in Tree : /\ DOMAIN t \in SUBSET Blob
                       /\ t = [b \in DOMAIN t |-> t[b]]
    /\ \A S \in SUBSET Blob, c \in Blob \cup {Junk} : [b \in S |-> Size[c]] \in Tree
    /\ \A S \in SUBSET Blob : [b \in S |-> Size[b]] \in Tree
<1>1. ASSUME NEW t \in Tree
      PROVE  DOMAIN t \in SUBSET Blob /\ t = [b \in DOMAIN t |-> t[b]]
  <2>1. PICK S \in SUBSET Blob : t \in [S -> {Size[c] : c \in Blob \cup {Junk}}]
    BY DEF Tree
  <2> QED
    BY <2>1
<1>2. ASSUME NEW S \in SUBSET Blob, NEW c \in Blob \cup {Junk}
      PROVE  [b \in S |-> Size[c]] \in Tree
  <2>1. [b \in S |-> Size[c]] \in [S -> {Size[d] : d \in Blob \cup {Junk}}]
    OBVIOUS
  <2> QED
    BY <2>1 DEF Tree
<1>3. ASSUME NEW S \in SUBSET Blob
      PROVE  [b \in S |-> Size[b]] \in Tree
  <2>1. [b \in S |-> Size[b]] \in [S -> {Size[d] : d \in Blob \cup {Junk}}]
    OBVIOUS
  <2> QED
    BY <2>1 DEF Tree
<1> QED
  BY <1>1, <1>2, <1>3

\* The size of an entry.
LEMMA EntryBytes ==
    /\ \A e \in Entries : Bytes(e) \in Nat
    /\ \A e \in Entries : e.bytes \in Blob => Bytes(e) = Size[e.bytes]
    /\ \A e \in Entries : e.bytes \in Tree => Bytes(e) = 1 + Cardinality(DOMAIN e.bytes)
<1>1. ASSUME NEW e \in Entries, e.bytes \in Tree
      PROVE  Bytes(e) = 1 + Cardinality(DOMAIN e.bytes) /\ Bytes(e) \in Nat
  <2>1. IsFiniteSet(DOMAIN e.bytes)
    BY <1>1, Trees, BytesAreFinite
  <2>2. Cardinality(DOMAIN e.bytes) \in Nat
    BY <2>1, FS_CardinalityType
  <2> QED
    BY <1>1, <2>2 DEF Bytes
<1>2. ASSUME NEW e \in Entries, e.bytes \notin Tree
      PROVE  Bytes(e) = Size[e.bytes] /\ Bytes(e) \in Nat
  BY <1>2, SizeAssumption DEF Bytes, Entries, Content
<1>3. \A e \in Entries : e.bytes \in Blob => e.bytes \notin Tree
  BY NameAssumption
<1> QED
  BY <1>1, <1>2, <1>3

----------------------------------------------------------------------------
(* The two loops over the entries.                                         *)

\* The size of an archive is a running total.
LEMMA ArchiveBytesIs ==
    ASSUME NEW es \in Seq(Entries)
    PROVE  \E B \in [0..Len(es) -> Nat] :
              /\ B[0] = 0
              /\ \A i \in 1..Len(es) : B[i] = B[i - 1] + Bytes(es[i])
              /\ ArchiveBytes(es) = B[Len(es)]
<1> DEFINE N == Len(es)
           G == [q \in (1..N) \X Nat |-> q[2] + Bytes(es[q[1]])]
<1>1. N \in Nat /\ \A i \in 1..N : es[i] \in Entries
  OBVIOUS
<1>2. \A i \in 1..N, x \in Nat : G[<<i, x>>] = x + Bytes(es[i])
  OBVIOUS
<1>3. G \in [(1..N) \X Nat -> Nat]
  <2>1. \A i \in 1..N : Bytes(es[i]) \in Nat
    BY <1>1, EntryBytes
  <2> QED
    BY <2>1
<1> HIDE DEF G
<1>4. PICK f : f \in LoopValues(N, Nat, 0, G)
  <2> HIDE DEF N
  <2> QED
    BY <1>1, <1>3, LoopExists
<1>5. f \in [0..N -> Nat] /\ f[0] = 0 /\ \A i \in 1..N : f[i] = f[i - 1] + Bytes(es[i])
  <2>1. f \in [0..N -> Nat] /\ f[0] = 0 /\ \A i \in 1..N : f[i] = G[<<i, f[i - 1]>>]
    BY <1>4 DEF LoopValues
  <2>2. \A i \in 1..N : i - 1 \in 0..N
    BY <1>1
  <2> QED
    BY <1>2, <2>1, <2>2
<1> DEFINE Eq(g) == g = [i \in 0..N |-> IF i = 0 THEN 0 ELSE g[i - 1] + Bytes(es[i])]
           u == CHOOSE g : Eq(g)
<1>6. Eq(f)
  BY <1>1, <1>5
<1>7. ArchiveBytes(es) = u[N]
  BY DEF ArchiveBytes
<1> HIDE DEF Eq
<1>8. Eq(u)
  BY <1>6, Zenon
<1> HIDE DEF u
<1> USE DEF Eq
<1>9. u[0] = 0 /\ \A i \in 1..N : u[i] = u[i - 1] + Bytes(es[i])
  BY <1>1, <1>8
<1>10. \A i \in 0..N : u[i] = f[i]
  <2> DEFINE bad == {i \in 0..N : u[i] # f[i]}
  <2> SUFFICES ASSUME bad # {}
               PROVE  FALSE
    OBVIOUS
  <2>1. bad \in SUBSET Nat
    BY <1>1
  <2>2. PICK i \in bad : \A k \in bad : i <= k
    BY <2>1, LeastNatural
  <2>3. i # 0 /\ i \in 1..N /\ i - 1 \in 0..N
    BY <1>1, <1>5, <1>9, <2>2
  <2>4. u[i - 1] = f[i - 1]
    BY <2>1, <2>2, <2>3
  <2> QED
    BY <1>5, <1>9, <2>2, <2>3, <2>4
<1> QED
  BY <1>1, <1>5, <1>7, <1>10

\* writeBackupArchive adds at the end.
LEMMA ArchiveBytesGrow ==
    /\ ArchiveBytes(<<>>) = 0
    /\ \A es \in Seq(Entries), e \in Entries :
          ArchiveBytes(Append(es, e)) = ArchiveBytes(es) + Bytes(e)
<1>1. ArchiveBytes(<<>>) = 0
  <2>1. <<>> \in Seq(Entries) /\ Len(<<>>) = 0
    OBVIOUS
  <2> QED
    BY <2>1, ArchiveBytesIs
<1>2. ASSUME NEW es \in Seq(Entries), NEW e \in Entries
      PROVE  ArchiveBytes(Append(es, e)) = ArchiveBytes(es) + Bytes(e)
  <2> DEFINE N == Len(es)
             fs == Append(es, e)
  <2>1. /\ N \in Nat /\ fs \in Seq(Entries) /\ Len(fs) = N + 1
        /\ fs[N + 1] = e /\ \A i \in 1..N : fs[i] = es[i]
    OBVIOUS
  <2>2. PICK B \in [0..N -> Nat] : /\ B[0] = 0
                                   /\ \A i \in 1..N : B[i] = B[i - 1] + Bytes(es[i])
                                   /\ ArchiveBytes(es) = B[N]
    BY ArchiveBytesIs
  <2> HIDE DEF fs, N
  <2>3. PICK C \in [0..Len(fs) -> Nat] : /\ C[0] = 0
                                         /\ \A i \in 1..Len(fs) : C[i] = C[i - 1] + Bytes(fs[i])
                                         /\ ArchiveBytes(fs) = C[Len(fs)]
    BY <2>1, ArchiveBytesIs
  <2>4. \A i \in 0..N : B[i] = C[i]
    <3> DEFINE bad == {i \in 0..N : B[i] # C[i]}
    <3> SUFFICES ASSUME bad # {}
                 PROVE  FALSE
      OBVIOUS
    <3>1. bad \in SUBSET Nat
      BY <2>1
    <3>2. PICK i \in bad : \A k \in bad : i <= k
      BY <3>1, LeastNatural
    <3>3. i # 0 /\ i \in 1..N /\ i \in 1..Len(fs) /\ i - 1 \in 0..N
      BY <2>1, <2>2, <2>3, <3>2
    <3>4. B[i - 1] = C[i - 1]
      BY <3>1, <3>2, <3>3
    <3> QED
      BY <2>1, <2>2, <2>3, <3>2, <3>3, <3>4
  <2>5. C[N + 1] = C[N] + Bytes(e)
    BY <2>1, <2>3
  <2> QED
    BY <2>1, <2>2, <2>3, <2>4, <2>5 DEF fs
<1> QED
  BY <1>1, <1>2

\* Where the loop of stageRestoreArchiveLocked can be.
Loop == [ok : BOOLEAN, seen : SUBSET (Blob \cup {Other, "tasks.json"}), tasks : Content,
         blobs : SUBSET Blob, total : Nat]

\* Every entry leaves the loop in such a place.
LEMMA TakeEntryType ==
    ASSUME NEW s \in Loop, NEW e \in Entries
    PROVE  TakeEntry(s, e) \in Loop
<1>1. Bytes(e) \in Nat /\ Limits.blob \in Nat /\ Limits.task \in Nat /\ Limits.total \in Nat
  BY EntryBytes, SizeAssumption
<1>2. CASE ~s.ok \/ ~Proper(s, e)
  <2>1. TakeEntry(s, e) = [s EXCEPT !.ok = FALSE]
    BY <1>2 DEF TakeEntry
  <2> QED
    BY <2>1 DEF Loop
<1>3. CASE s.ok /\ Proper(s, e) /\ e.name = "tasks.json"
  <2>1. TakeEntry(s, e) = TakeTasks(s, e)
    BY <1>3 DEF TakeEntry
  <2>2. TakeTasks(s, e) = [s EXCEPT !.ok = Bytes(e) <= Limits.task,
                                    !.seen = s.seen \cup {e.name},
                                    !.tasks = e.bytes]
    BY DEF TakeTasks
  <2>3. e.bytes \in Content /\ s.seen \cup {e.name} \in SUBSET (Blob \cup {Other, "tasks.json"})
    BY DEF Entries, Loop
  <2>4. (Bytes(e) <= Limits.task) \in BOOLEAN
    OBVIOUS
  <2> QED
    BY <2>1, <2>2, <2>3, <2>4 DEF Loop
<1>4. CASE s.ok /\ Proper(s, e) /\ e.name # "tasks.json"
  <2> DEFINE fine == /\ e.bytes = e.name
                     /\ Bytes(e) <= Limits.blob
                     /\ Bytes(e) <= Limits.total - s.total
  <2>1. TakeEntry(s, e) = TakeBlob(s, e)
    BY <1>4 DEF TakeEntry
  <2>2. TakeBlob(s, e) = [s EXCEPT !.ok = fine,
                                   !.seen = s.seen \cup {e.name},
                                   !.blobs = s.blobs \cup {e.name},
                                   !.total = s.total + Bytes(e)]
    BY DEF TakeBlob
  <2>3. /\ s.blobs \cup {e.name} \in SUBSET Blob
        /\ s.seen \cup {e.name} \in SUBSET (Blob \cup {Other, "tasks.json"})
    BY <1>4 DEF Entries, Loop, Proper
  <2>4. s.total + Bytes(e) \in Nat /\ fine \in BOOLEAN
    BY <1>1 DEF Loop
  <2> HIDE DEF fine
  <2> QED
    BY <2>1, <2>2, <2>3, <2>4 DEF Loop
<1> QED
  BY <1>2, <1>3, <1>4

\* The loop is defined on every archive: it starts at Start, each entry takes it on by
\* TakeEntry, and Staged is where it ends.
LEMMA StagedIs ==
    ASSUME NEW es \in Seq(Entries)
    PROVE  \E S : /\ \A i \in 0..Len(es) : S[i] \in Loop
                  /\ S[0] = Start
                  /\ \A i \in 1..Len(es) : S[i] = TakeEntry(S[i - 1], es[i])
                  /\ Staged(es) = S[Len(es)]
<1> DEFINE N == Len(es)
           G == [q \in (1..N) \X Loop |-> TakeEntry(q[2], es[q[1]])]
<1>1. N \in Nat /\ \A i \in 1..N : es[i] \in Entries
  OBVIOUS
<1>2. \A i \in 1..N, s \in Loop : G[<<i, s>>] = TakeEntry(s, es[i])
  OBVIOUS
<1>3. G \in [(1..N) \X Loop -> Loop]
  <2>1. \A q \in (1..N) \X Loop : TakeEntry(q[2], es[q[1]]) \in Loop
    BY <1>1, TakeEntryType
  <2> QED
    BY <2>1
<1> HIDE DEF G
<1>4. Start \in Loop
  BY DEF Start, Loop, Content
<1>5. PICK f : f \in LoopValues(N, Loop, Start, G)
  <2> HIDE DEF N
  <2> QED
    BY <1>1, <1>3, <1>4, LoopExists
<1>6. f \in [0..N -> Loop] /\ f[0] = Start /\ \A i \in 1..N : f[i] = TakeEntry(f[i - 1], es[i])
  <2>1. f \in [0..N -> Loop] /\ f[0] = Start /\ \A i \in 1..N : f[i] = G[<<i, f[i - 1]>>]
    BY <1>5 DEF LoopValues
  <2>2. \A i \in 1..N : i - 1 \in 0..N
    BY <1>1
  <2> QED
    BY <1>2, <2>1, <2>2
<1> DEFINE Eq(g) == g = [i \in 0..N |-> IF i = 0 THEN Start ELSE TakeEntry(g[i - 1], es[i])]
           u == CHOOSE g : Eq(g)
<1>7. Eq(f)
  <2>1. f = [i \in 0..N |-> f[i]]
    BY <1>6
  <2>2. \A i \in 0..N : f[i] = IF i = 0 THEN Start ELSE TakeEntry(f[i - 1], es[i])
    BY <1>1, <1>6
  <2> QED
    BY <2>1, <2>2
<1>8. Staged(es) = u[N]
  BY DEF Staged
<1> HIDE DEF Eq
<1>9. Eq(u)
  BY <1>7, Zenon
<1> HIDE DEF u
<1> USE DEF Eq
<1>10. u[0] = Start /\ \A i \in 1..N : u[i] = TakeEntry(u[i - 1], es[i])
  BY <1>1, <1>9
<1>11. \A i \in 0..N : u[i] \in Loop
  <2> DEFINE bad == {i \in 0..N : u[i] \notin Loop}
  <2> SUFFICES ASSUME bad # {}
               PROVE  FALSE
    OBVIOUS
  <2>1. bad \in SUBSET Nat
    BY <1>1
  <2>2. PICK i \in bad : \A k \in bad : i <= k
    BY <2>1, LeastNatural
  <2>3. i \in 1..N /\ i - 1 \in 0..N
    BY <1>1, <1>4, <1>10, <2>2
  <2>4. u[i - 1] \in Loop
    BY <2>1, <2>2, <2>3
  <2> QED
    BY <1>1, <1>10, <2>2, <2>3, <2>4, TakeEntryType
<1> QED
  BY <1>8, <1>10, <1>11

----------------------------------------------------------------------------
(* What the loop of stageRestoreArchiveLocked finds out.                   *)

\* The names of the first i entries, and the blobs among them.
Names(es, i) == {es[j].name : j \in 1..i}
Blobs(es, i) == Blob \cap Names(es, i)

\* SPEC.md of the first i entries.
WellFormedTo(es, i) ==
    /\ \A j \in 1..i : /\ es[j].regular
                       /\ es[j].name # Other
                       /\ es[j].name \in Blob => es[j].bytes = es[j].name
                       /\ es[j].name = "tasks.json" => Bytes(es[j]) <= Limits.task
    /\ \A j, k \in 1..i : es[j].name = es[k].name => j = k
    /\ SizeSum(Blobs(es, i)) <= Limits.total

\* The loop at s has read the first i entries.
ReadTo(es, i, s) ==
    /\ s.seen = Names(es, i)
    /\ s.blobs = Blobs(es, i)
    /\ s.total = SizeSum(Blobs(es, i))
    /\ "tasks.json" \notin Names(es, i) => s.tasks = Junk
    /\ \A j \in 1..i : es[j].name = "tasks.json" => s.tasks = es[j].bytes

\* One entry more.
LEMMA OneMore ==
    ASSUME NEW es \in Seq(Entries), NEW i \in 1..Len(es)
    PROVE  /\ es[i] \in Entries
           /\ i \in Nat /\ i - 1 \in Nat
           /\ 1..i = (1..(i - 1)) \cup {i} /\ i \notin 1..(i - 1)
           /\ Names(es, i) = Names(es, i - 1) \cup {es[i].name}
           /\ Blobs(es, i - 1) \in SUBSET Blob
           /\ es[i].name \in Blob => Blobs(es, i) = Blobs(es, i - 1) \cup {es[i].name}
           /\ es[i].name \notin Blob => Blobs(es, i) = Blobs(es, i - 1)
<1>1. es[i] \in Entries /\ i \in Nat /\ i - 1 \in Nat
  OBVIOUS
<1>2. 1..i = (1..(i - 1)) \cup {i} /\ i \notin 1..(i - 1)
  BY <1>1
<1>3. Names(es, i) = Names(es, i - 1) \cup {es[i].name}
  BY <1>2 DEF Names
<1> QED
  BY <1>1, <1>2, <1>3 DEF Blobs

\* A flaw does not go away by what follows.
LEMMA FlawsStay ==
    ASSUME NEW es \in Seq(Entries), NEW i \in 1..Len(es), WellFormedTo(es, i)
    PROVE  WellFormedTo(es, i - 1)
<1>1. 1..(i - 1) \subseteq 1..i
  BY OneMore
<1>2. Blobs(es, i - 1) \subseteq Blobs(es, i) /\ Blobs(es, i) \in SUBSET Blob
  BY <1>1 DEF Blobs, Names
<1>3. SizeSum(Blobs(es, i - 1)) <= SizeSum(Blobs(es, i))
  BY <1>2, SizeSums
<1>4. SizeSum(Blobs(es, i - 1)) \in Nat /\ SizeSum(Blobs(es, i)) \in Nat /\ Limits.total \in Nat
  BY <1>2, SizeSums, SizeAssumption
<1>5. SizeSum(Blobs(es, i - 1)) <= Limits.total
  BY <1>3, <1>4 DEF WellFormedTo
<1> QED
  BY <1>1, <1>5 DEF WellFormedTo

\* The loop goes on exactly as long as there is no flaw.
LEMMA ReadStep ==
    ASSUME NEW es \in Seq(Entries), NEW i \in 1..Len(es), NEW s \in Loop,
           s.ok <=> WellFormedTo(es, i - 1),
           s.ok => ReadTo(es, i - 1, s)
    PROVE  /\ TakeEntry(s, es[i]).ok <=> WellFormedTo(es, i)
           /\ TakeEntry(s, es[i]).ok => ReadTo(es, i, TakeEntry(s, es[i]))
<1> DEFINE e == es[i]
           t == TakeEntry(s, e)
<1>1. /\ e \in Entries /\ i \in Nat /\ i - 1 \in Nat
      /\ 1..i = (1..(i - 1)) \cup {i} /\ i \notin 1..(i - 1)
      /\ Names(es, i) = Names(es, i - 1) \cup {e.name}
      /\ Blobs(es, i - 1) \in SUBSET Blob
      /\ e.name \in Blob => Blobs(es, i) = Blobs(es, i - 1) \cup {e.name}
      /\ e.name \notin Blob => Blobs(es, i) = Blobs(es, i - 1)
  BY OneMore
<1>2. CASE ~s.ok
  <2>1. t = [s EXCEPT !.ok = FALSE]
    BY <1>2 DEF TakeEntry
  <2>2. t.ok = FALSE
    BY <2>1 DEF Loop
  <2>3. ~WellFormedTo(es, i)
    BY <1>2, FlawsStay
  <2> QED
    BY <2>2, <2>3
<1>3. CASE s.ok /\ ~Proper(s, e)
  <2>1. t = [s EXCEPT !.ok = FALSE]
    BY <1>3 DEF TakeEntry
  <2>2. t.ok = FALSE
    BY <2>1 DEF Loop
  <2>3. e.name \in Names(es, i - 1) \/ e.name = Other \/ ~e.regular
    BY <1>3 DEF Proper, ReadTo
  <2>4. e.name \in Names(es, i - 1) => \E j \in 1..i : j # i /\ es[j].name = e.name
    BY <1>1 DEF Names
  <2>5. i \in 1..i
    BY <1>1
  <2>6. ~WellFormedTo(es, i)
    BY <2>3, <2>4, <2>5 DEF WellFormedTo
  <2> QED
    BY <2>2, <2>6
<1>4. ASSUME s.ok, Proper(s, e)
      PROVE  /\ WellFormedTo(es, i - 1) /\ ReadTo(es, i - 1, s)
             /\ e.name \notin Names(es, i - 1) /\ e.name # Other /\ e.regular
             /\ \A j, k \in 1..i : es[j].name = es[k].name => j = k
  <2>1. WellFormedTo(es, i - 1) /\ ReadTo(es, i - 1, s)
    BY <1>4
  <2>2. e.name \notin Names(es, i - 1) /\ e.name # Other /\ e.regular
    BY <1>4, <2>1 DEF Proper, ReadTo
  <2>3. \A j \in 1..(i - 1) : es[j].name # e.name
    BY <2>2 DEF Names
  <2>4. \A j, k \in 1..(i - 1) : es[j].name = es[k].name => j = k
    BY <2>1 DEF WellFormedTo
  <2> HIDE DEF e
  <2>5. \A j \in 1..i : j \in 1..(i - 1) \/ (j = i /\ es[j].name = e.name)
    BY <1>1 DEF e
  <2>6. \A j, k \in 1..i : es[j].name = es[k].name => j = k
    BY <2>3, <2>4, <2>5
  <2> QED
    BY <2>1, <2>2, <2>6
<1>5. CASE s.ok /\ Proper(s, e) /\ e.name = "tasks.json"
  <2>1. /\ WellFormedTo(es, i - 1) /\ ReadTo(es, i - 1, s)
        /\ e.name \notin Names(es, i - 1) /\ e.name # Other /\ e.regular
        /\ \A j, k \in 1..i : es[j].name = es[k].name => j = k
    BY <1>4, <1>5
  <2>2. t = [s EXCEPT !.ok = Bytes(e) <= Limits.task,
                      !.seen = s.seen \cup {e.name},
                      !.tasks = e.bytes]
    BY <1>5 DEF TakeEntry, TakeTasks
  <2>3. /\ t.ok = (Bytes(e) <= Limits.task)
        /\ t.seen = s.seen \cup {e.name} /\ t.tasks = e.bytes
        /\ t.blobs = s.blobs /\ t.total = s.total
    BY <2>2 DEF Loop
  <2>4. e.name \notin Blob
    BY <1>5, NameAssumption
  <2> HIDE DEF t
  <2>5. t.ok <=> WellFormedTo(es, i)
    <3>1. \A j \in 1..i : j \in 1..(i - 1) \/ j = i
      BY <1>1
    <3>2. i \in 1..i
      BY <1>1
    <3>3. Blobs(es, i) = Blobs(es, i - 1)
      BY <1>1, <2>4
    <3> QED
      BY <1>5, <2>1, <2>3, <2>4, <3>1, <3>2, <3>3 DEF WellFormedTo
  <2>6. ReadTo(es, i, t)
    <3>1. \A j \in 1..i : j \in 1..(i - 1) \/ j = i
      BY <1>1
    <3>2. \A j \in 1..(i - 1) : es[j].name # "tasks.json"
      BY <1>5, <2>1 DEF Names
    <3> QED
      BY <1>1, <1>5, <2>1, <2>3, <2>4, <3>1, <3>2 DEF ReadTo
  <2> QED
    BY <2>5, <2>6 DEF t
<1>6. CASE s.ok /\ Proper(s, e) /\ e.name # "tasks.json"
  <2>1. /\ WellFormedTo(es, i - 1) /\ ReadTo(es, i - 1, s)
        /\ e.name \notin Names(es, i - 1) /\ e.name # Other /\ e.regular
        /\ \A j, k \in 1..i : es[j].name = es[k].name => j = k
    BY <1>4, <1>6
  <2>2. e.name \in Blob
    BY <1>1, <1>6, <2>1 DEF Entries
  <2> DEFINE fine == /\ e.bytes = e.name
                     /\ Bytes(e) <= Limits.blob
                     /\ Bytes(e) <= Limits.total - s.total
  <2>3. t = [s EXCEPT !.ok = fine,
                      !.seen = s.seen \cup {e.name},
                      !.blobs = s.blobs \cup {e.name},
                      !.total = s.total + Bytes(e)]
    BY <1>6 DEF TakeEntry, TakeBlob
  <2> HIDE DEF fine
  <2>4. /\ t.ok = fine
        /\ t.seen = s.seen \cup {e.name} /\ t.tasks = s.tasks
        /\ t.blobs = s.blobs \cup {e.name} /\ t.total = s.total + Bytes(e)
    BY <2>3 DEF Loop
  <2>5. Blobs(es, i) = Blobs(es, i - 1) \cup {e.name} /\ e.name \notin Blobs(es, i - 1)
    BY <1>1, <2>1, <2>2 DEF Blobs
  <2>6. /\ SizeSum(Blobs(es, i)) = SizeSum(Blobs(es, i - 1)) + Size[e.name]
        /\ SizeSum(Blobs(es, i - 1)) \in Nat
        /\ Size[e.name] \in Nat /\ Size[e.name] <= Limits.blob
        /\ Limits.blob \in Nat /\ Limits.total \in Nat
    BY <1>1, <2>2, <2>5, SizeSums, SizeAssumption, UploadAssumption
  <2>7. s.total = SizeSum(Blobs(es, i - 1))
    BY <2>1 DEF ReadTo
  <2>8. e.bytes = e.name => Bytes(e) = Size[e.name]
    BY <1>1, <2>2, EntryBytes
  <2>9. fine <=> (e.bytes = e.name /\ SizeSum(Blobs(es, i)) <= Limits.total)
    BY <2>6, <2>7, <2>8 DEF fine
  <2> HIDE DEF t
  <2>10. t.ok <=> WellFormedTo(es, i)
    <3>1. \A j \in 1..i : j \in 1..(i - 1) \/ j = i
      BY <1>1
    <3>2. i \in 1..i
      BY <1>1
    <3> QED
      BY <1>6, <2>1, <2>2, <2>4, <2>9, <3>1, <3>2 DEF WellFormedTo
  <2>11. fine => ReadTo(es, i, t)
    <3>1. \A j \in 1..i : j \in 1..(i - 1) \/ j = i
      BY <1>1
    <3>2. fine => t.total = SizeSum(Blobs(es, i))
      BY <2>4, <2>6, <2>7, <2>8, <2>9
    <3> QED
      BY <1>1, <1>6, <2>1, <2>4, <2>5, <3>1, <3>2 DEF ReadTo
  <2> QED
    BY <2>4, <2>10, <2>11 DEF t
<1> QED
  BY <1>2, <1>3, <1>5, <1>6

\* So the loop gets through exactly the archives that are well formed so far.
LEMMA LoopIsRight ==
    ASSUME NEW es \in Seq(Entries)
    PROVE  /\ Staged(es) \in Loop
           /\ Staged(es).ok <=> WellFormedTo(es, Len(es))
           /\ Staged(es).ok => ReadTo(es, Len(es), Staged(es))
<1> DEFINE N == Len(es)
<1>1. N \in Nat
  OBVIOUS
<1>2. PICK S : /\ \A i \in 0..N : S[i] \in Loop
               /\ S[0] = Start
               /\ \A i \in 1..N : S[i] = TakeEntry(S[i - 1], es[i])
               /\ Staged(es) = S[N]
  BY StagedIs
<1> DEFINE Right(i) == /\ S[i].ok <=> WellFormedTo(es, i)
                       /\ S[i].ok => ReadTo(es, i, S[i])
<1>3. Right(0)
  <2>1. Names(es, 0) = {} /\ Blobs(es, 0) = {} /\ \A j : j \notin 1..0
    BY DEF Names, Blobs
  <2>2. SizeSum(Blobs(es, 0)) = 0 /\ Limits.total \in Nat
    BY <2>1, SizeSums, SizeAssumption
  <2>3. WellFormedTo(es, 0)
    BY <2>1, <2>2 DEF WellFormedTo
  <2>4. S[0].ok = TRUE
    BY <1>2 DEF Start
  <2>5. ReadTo(es, 0, S[0])
    <3>1. /\ S[0].seen = {} /\ S[0].blobs = {} /\ S[0].total = 0 /\ S[0].tasks = Junk
      BY <1>2 DEF Start
    <3> QED
      BY <2>1, <2>2, <3>1 DEF ReadTo
  <2> QED
    BY <2>3, <2>4, <2>5
<1>4. ASSUME NEW i \in 1..N, Right(i - 1)
      PROVE  Right(i)
  <2>1. i - 1 \in 0..N /\ S[i - 1] \in Loop /\ S[i] = TakeEntry(S[i - 1], es[i])
    BY <1>1, <1>2
  <2> QED
    BY <1>4, <2>1, ReadStep
<1> HIDE DEF Right
<1>5. \A i \in 0..N : Right(i)
  <2> DEFINE bad == {i \in 0..N : ~Right(i)}
  <2> SUFFICES ASSUME bad # {}
               PROVE  FALSE
    OBVIOUS
  <2>1. bad \in SUBSET Nat
    BY <1>1
  <2>2. PICK i \in bad : \A k \in bad : i <= k
    BY <2>1, LeastNatural
  <2>3. i # 0 /\ i \in 1..N /\ i - 1 \in 0..N
    BY <1>1, <1>3, <2>2
  <2>4. Right(i - 1)
    BY <2>1, <2>2, <2>3
  <2> QED
    BY <1>4, <2>2, <2>3, <2>4
<1>6. Right(N)
  BY <1>1, <1>5
<1> QED
  BY <1>1, <1>2, <1>6 DEF Right

----------------------------------------------------------------------------
(* The verdict.                                                            *)

\* What SPEC.md counts, the reader compares: at most one means any two are the same.
LEMMA AtMostOne ==
    ASSUME NEW S, IsFiniteSet(S)
    PROVE  Cardinality(S) <= 1 <=> \A x, y \in S : x = y
<1>1. Cardinality(S) \in Nat
  BY FS_CardinalityType
<1>2. CASE S = {}
  <2>1. Cardinality(S) = 0
    BY <1>2, FS_EmptySet
  <2> QED
    BY <1>2, <2>1
<1>3. CASE S # {}
  <2>1. Cardinality(S) # 0
    BY <1>3, FS_EmptySet
  <2>2. Cardinality(S) <= 1 <=> Cardinality(S) = 1
    BY <1>1, <2>1
  <2>3. Cardinality(S) = 1 <=> \E x : S = {x}
    BY FS_Singleton
  <2>4. (\E x : S = {x}) <=> \A x, y \in S : x = y
    BY <1>3
  <2> QED
    BY <2>2, <2>3, <2>4
<1> QED
  BY <1>2, <1>3

\* The entry tasks.json is there and lists the blobs S with their sizes.
HasTree(es, S) ==
    \E i \in 1..Len(es) : es[i].name = "tasks.json" /\ es[i].bytes = [b \in S |-> Size[b]]

\* SPEC.md in the words of this module.
LEMMA WellFormedIs ==
    ASSUME entries \in Seq(Entries)
    PROVE  WellFormed <=> /\ at = "done"
                          /\ Fits
                          /\ WellFormedTo(entries, Len(entries))
                          /\ HasTree(entries, Blobs(entries, Len(entries)))
<1> DEFINE N == Len(entries)
           Named(x) == {i \in DOMAIN entries : entries[i].name = x}
           blobs == {b \in Blob : Named(b) # {}}
<1>1. /\ N \in Nat /\ DOMAIN entries = 1..N
      /\ \A i \in 1..N : entries[i] \in Entries
  OBVIOUS
<1>2. \A i \in 1..N : entries[i].name \in Blob \cup {Other, "tasks.json"}
  BY <1>1 DEF Entries
<1>3. blobs = Blobs(entries, N)
  BY <1>1 DEF Blobs, Names
<1>4. \A x : Cardinality(Named(x)) <= 1 <=> \A i, j \in Named(x) : i = j
  <2> SUFFICES ASSUME NEW x
               PROVE  Cardinality(Named(x)) <= 1 <=> \A i, j \in Named(x) : i = j
    OBVIOUS
  <2>1. IsFiniteSet(1..N)
    BY <1>1, FS_Interval
  <2>2. Named(x) \in SUBSET (1..N)
    BY <1>1
  <2>3. IsFiniteSet(Named(x))
    BY <2>1, <2>2, FS_Subset
  <2> HIDE DEF Named
  <2> QED
    BY <2>3, AtMostOne
<1> DEFINE Once == /\ \A x \in Blob \cup {"tasks.json"} : Cardinality(Named(x)) <= 1
                   /\ Named(Other) = {}
<1>5. Once <=> /\ \A i \in 1..N : entries[i].name # Other
               /\ \A i, j \in 1..N : entries[i].name = entries[j].name => i = j
  <2>1. Named(Other) = {} <=> \A i \in 1..N : entries[i].name # Other
    BY <1>1
  <2>2. ASSUME Named(Other) = {}
        PROVE  (\A x \in Blob \cup {"tasks.json"} : \A i, j \in Named(x) : i = j)
                  <=> \A i, j \in 1..N : entries[i].name = entries[j].name => i = j
    BY <1>1, <1>2, <2>1, <2>2
  <2> HIDE DEF Named, N
  <2> QED
    BY <1>4, <2>1, <2>2
<1> DEFINE Right == \A b \in blobs, i \in DOMAIN entries :
                        entries[i].name = b => entries[i].bytes = b
<1>6. Right <=> \A i \in 1..N : entries[i].name \in Blob => entries[i].bytes = entries[i].name
  BY <1>1
<1> DEFINE Table == \E i \in Named("tasks.json") :
                       /\ entries[i].bytes = [b \in blobs |-> Size[b]]
                       /\ Bytes(entries[i]) <= Limits.task
<1>7. Table => HasTree(entries, Blobs(entries, N))
  BY <1>1, <1>3 DEF HasTree
<1>8. HasTree(entries, Blobs(entries, N)) /\ WellFormedTo(entries, N) => Table
  BY <1>1, <1>3 DEF HasTree, WellFormedTo
<1>9. ASSUME Once, Table
      PROVE  \A i \in 1..N : entries[i].name = "tasks.json" => Bytes(entries[i]) <= Limits.task
  <2>1. PICK i \in Named("tasks.json") : Bytes(entries[i]) <= Limits.task
    BY <1>9
  <2>2. \A j \in 1..N : entries[j].name = "tasks.json" => j = i
    BY <1>1, <1>5, <1>9, <2>1
  <2> QED
    BY <2>1, <2>2
<1>10. WellFormed <=> /\ at = "done"
                      /\ \A i \in DOMAIN entries : entries[i].regular
                      /\ Once /\ Right /\ Table
                      /\ SizeSum(blobs) <= Limits.total
                      /\ Fits
  BY DEF WellFormed, Fits
<1> HIDE DEF Once, Right, Table, Named, blobs
<1>11. (/\ \A i \in 1..N : entries[i].regular
        /\ Once /\ Right /\ Table
        /\ SizeSum(Blobs(entries, N)) <= Limits.total)
       <=> (WellFormedTo(entries, N) /\ Table)
  <2> HIDE DEF N
  <2> QED
    BY <1>5, <1>6, <1>9 DEF WellFormedTo
<1> QED
  BY <1>1, <1>3, <1>7, <1>8, <1>10, <1>11

\* RestoreArchive in the same words.
LEMMA AcceptsIs ==
    ASSUME entries \in Seq(Entries)
    PROVE  Accepts <=> /\ at = "done"
                       /\ Fits
                       /\ WellFormedTo(entries, Len(entries))
                       /\ HasTree(entries, Blobs(entries, Len(entries)))
<1> DEFINE N == Len(entries)
           s == Staged(entries)
           S == Blobs(entries, N)
           Fitting == /\ s.tasks \in Tree
                      /\ s.blobs = DOMAIN s.tasks
                      /\ \A b \in s.blobs : s.tasks[b] = Size[b]
<1>1. N \in Nat /\ S \in SUBSET Blob
  BY DEF Blobs
<1>2. /\ s.ok <=> WellFormedTo(entries, N)
      /\ s.ok => ReadTo(entries, N, s)
  BY LoopIsRight
<1>3. Accepts <=> at = "done" /\ Fits /\ s.ok /\ Fitting
  BY DEF Accepts
<1> HIDE DEF s
<1>4. ASSUME ReadTo(entries, N, s), Fitting
      PROVE  HasTree(entries, S)
  <2>1. s.tasks # Junk
    BY <1>4, NameAssumption
  <2>2. PICK i \in 1..N : entries[i].name = "tasks.json"
    BY <1>4, <2>1 DEF ReadTo, Names
  <2>3. s.tasks = entries[i].bytes
    BY <1>4, <2>2 DEF ReadTo
  <2>4. s.tasks = [b \in DOMAIN s.tasks |-> s.tasks[b]]
    BY <1>4, Trees
  <2>5. DOMAIN s.tasks = S /\ \A b \in S : s.tasks[b] = Size[b]
    BY <1>4 DEF ReadTo
  <2>6. s.tasks = [b \in S |-> Size[b]]
    BY <2>4, <2>5
  <2> QED
    BY <2>2, <2>3, <2>6 DEF HasTree
<1>5. ASSUME ReadTo(entries, N, s), HasTree(entries, S)
      PROVE  Fitting
  <2>1. PICK i \in 1..N : /\ entries[i].name = "tasks.json"
                          /\ entries[i].bytes = [b \in S |-> Size[b]]
    BY <1>5 DEF HasTree
  <2>2. s.tasks = [b \in S |-> Size[b]]
    BY <1>5, <2>1 DEF ReadTo
  <2>3. s.tasks \in Tree
    BY <1>1, <2>2, Trees
  <2>4. s.blobs = S
    BY <1>5 DEF ReadTo
  <2> QED
    BY <2>2, <2>3, <2>4
<1> QED
  BY <1>2, <1>3, <1>4, <1>5

\* The reader accepts what SPEC.md describes.
LEMMA AcceptsTheWellFormed ==
    entries \in Seq(Entries) => (Accepts <=> WellFormed)
  BY AcceptsIs, WellFormedIs

----------------------------------------------------------------------------
(* Backups.                                                                *)

\* What writeBackupArchive has made of a tree with the references S, of which it
\* has come to T: the tree, and each blob it found, once.
Backup(es, S, T) ==
    /\ HasTree(es, S)
    /\ \A i \in 1..Len(es) :
          /\ es[i].regular
          /\ \/ es[i].name = "tasks.json" /\ es[i].bytes = [b \in S |-> Size[b]]
             \/ es[i].name \in T /\ es[i].bytes = es[i].name
    /\ \A i, j \in 1..Len(es) : es[i].name = es[j].name => i = j
    /\ Len(es) = 1 + Cardinality(Blobs(es, Len(es)))
    /\ ArchiveBytes(es) = 1 + Cardinality(S) + SizeSum(Blobs(es, Len(es)))

\* The entries it makes.
LEMMA EntriesMade ==
    /\ \A b \in Blob : Entry(b, b) \in Entries /\ Bytes(Entry(b, b)) = Size[b]
    /\ \A S \in SUBSET Blob :
          /\ Entry("tasks.json", [b \in S |-> Size[b]]) \in Entries
          /\ Bytes(Entry("tasks.json", [b \in S |-> Size[b]])) = 1 + Cardinality(S)
<1>1. ASSUME NEW b \in Blob
      PROVE  Entry(b, b) \in Entries /\ Bytes(Entry(b, b)) = Size[b]
  <2>1. Entry(b, b) \in Entries /\ Entry(b, b).bytes = b
    BY DEF Entry, Entries, Content
  <2> QED
    BY <2>1, EntryBytes
<1>2. ASSUME NEW S \in SUBSET Blob
      PROVE  /\ Entry("tasks.json", [b \in S |-> Size[b]]) \in Entries
             /\ Bytes(Entry("tasks.json", [b \in S |-> Size[b]])) = 1 + Cardinality(S)
  <2> DEFINE t == [b \in S |-> Size[b]]
  <2>1. t \in Tree /\ DOMAIN t = S
    BY Trees
  <2> HIDE DEF t
  <2>2. Entry("tasks.json", t) \in Entries /\ Entry("tasks.json", t).bytes = t
    BY <2>1 DEF Entry, Entries, Content
  <2>3. Bytes(Entry("tasks.json", t)) = 1 + Cardinality(S)
    BY <2>1, <2>2, EntryBytes
  <2> QED
    BY <2>2, <2>3 DEF t
<1> QED
  BY <1>1, <1>2

\* It begins with the tree ...
LEMMA BackupBegins ==
    ASSUME NEW S \in SUBSET Blob
    PROVE  Backup(<<Entry("tasks.json", [b \in S |-> Size[b]])>>, S, {})
<1> DEFINE e == Entry("tasks.json", [b \in S |-> Size[b]])
           es == <<e>>
<1>1. e \in Entries /\ Bytes(e) = 1 + Cardinality(S)
  BY EntriesMade
<1>2. e.name = "tasks.json" /\ e.bytes = [b \in S |-> Size[b]] /\ e.regular
  BY DEF Entry
<1>3. Len(es) = 1 /\ es[1] = e /\ \A i \in 1..1 : i = 1
  OBVIOUS
<1>4. Blobs(es, 1) = {}
  <2>1. Names(es, 1) = {"tasks.json"}
    BY <1>2, <1>3 DEF Names
  <2> QED
    BY <2>1, NameAssumption DEF Blobs
<1>5. ArchiveBytes(es) = 1 + Cardinality(S)
  <2>1. Append(<<>>, e) = es /\ <<>> \in Seq(Entries)
    OBVIOUS
  <2>2. ArchiveBytes(es) = 0 + Bytes(e)
    BY <1>1, <2>1, ArchiveBytesGrow
  <2>3. Bytes(e) \in Nat
    BY <1>1, EntryBytes
  <2> QED
    BY <1>1, <2>2, <2>3
<1>6. Cardinality({}) = 0 /\ SizeSum({}) = 0 /\ Cardinality(S) \in Nat
  BY FS_EmptySet, SizeSums, BytesAreFinite, FS_CardinalityType
<1>7. HasTree(es, S)
  <2>1. 1 \in 1..Len(es)
    BY <1>3
  <2> QED
    BY <1>2, <1>3, <2>1 DEF HasTree
<1> HIDE DEF es
<1>8. Backup(es, S, {})
  <2>1. \A i \in 1..Len(es) : i = 1 /\ es[i] = e
    BY <1>3
  <2>2. Len(es) = 1 + 0 /\ ArchiveBytes(es) = 1 + Cardinality(S) + 0
    BY <1>3, <1>5, <1>6
  <2>3. Blobs(es, Len(es)) = {}
    BY <1>3, <1>4
  <2> HIDE DEF e
  <2> QED
    BY <1>2, <1>6, <1>7, <2>1, <2>2, <2>3 DEF Backup
<1> QED
  BY <1>8 DEF es, e

\* ... goes on with a blob ...
LEMMA BackupGoesOn ==
    ASSUME NEW es \in Seq(Entries), NEW S \in SUBSET Blob, NEW T \in SUBSET S, NEW b \in S \ T,
           Backup(es, S, T)
    PROVE  Backup(Append(es, Entry(b, b)), S, T \cup {b})
<1> DEFINE e == Entry(b, b)
           fs == Append(es, e)
           N == Len(es)
<1>1. e \in Entries /\ Bytes(e) = Size[b] /\ b # "tasks.json"
  BY EntriesMade, NameAssumption
<1>2. e.name = b /\ e.bytes = b /\ e.regular
  BY DEF Entry
<1> HIDE DEF e
<1>3. /\ N \in Nat /\ fs \in Seq(Entries) /\ Len(fs) = N + 1 /\ fs[N + 1] = e
      /\ \A i \in 1..N : fs[i] = es[i]
  BY <1>1
<1> HIDE DEF fs
<1>4. \A i \in 1..N : es[i].name # b
  BY <1>1 DEF Backup
<1>5. Blobs(fs, N + 1) = Blobs(es, N) \cup {b} /\ b \notin Blobs(es, N)
  <2>1. Names(fs, N) = Names(es, N)
    BY <1>3 DEF Names
  <2>2. N + 1 \in 1..Len(fs) /\ (N + 1) - 1 = N
    BY <1>3
  <2>3. Blobs(fs, N + 1) = Blobs(fs, N) \cup {b}
    BY <1>2, <1>3, <2>2, OneMore
  <2> QED
    BY <1>4, <2>1, <2>3 DEF Blobs, Names
<1>6. /\ Cardinality(Blobs(fs, N + 1)) = Cardinality(Blobs(es, N)) + 1
      /\ SizeSum(Blobs(fs, N + 1)) = SizeSum(Blobs(es, N)) + Size[b]
      /\ Cardinality(Blobs(es, N)) \in Nat /\ SizeSum(Blobs(es, N)) \in Nat /\ Size[b] \in Nat
  <2>1. Blobs(es, N) \in SUBSET Blob
    BY DEF Blobs
  <2>2. IsFiniteSet(Blobs(es, N)) /\ Cardinality(Blobs(es, N)) \in Nat
    BY <2>1, BytesAreFinite, FS_CardinalityType
  <2>3. Cardinality(Blobs(fs, N + 1)) = Cardinality(Blobs(es, N)) + 1
    BY <1>5, <2>2, FS_AddElement
  <2> QED
    BY <1>5, <2>1, <2>2, <2>3, SizeSums, SizeAssumption
<1>7. ArchiveBytes(fs) = ArchiveBytes(es) + Size[b]
  BY <1>1, ArchiveBytesGrow DEF fs
<1>8. Cardinality(S) \in Nat
  BY BytesAreFinite, FS_CardinalityType
<1>9. \A i \in 1..(N + 1) : i \in 1..N \/ i = N + 1
  BY <1>3
<1>10. 1..N \subseteq 1..(N + 1)
  BY <1>3
<1>11. HasTree(fs, S)
  BY <1>3, <1>10 DEF Backup, HasTree
<1>12. \A i \in 1..(N + 1) :
          /\ fs[i].regular
          /\ \/ fs[i].name = "tasks.json" /\ fs[i].bytes = [c \in S |-> Size[c]]
             \/ fs[i].name \in T \cup {b} /\ fs[i].bytes = fs[i].name
  BY <1>2, <1>3, <1>9 DEF Backup
<1>13. \A i, j \in 1..(N + 1) : fs[i].name = fs[j].name => i = j
  <2>1. \A i, j \in 1..N : es[i].name = es[j].name => i = j
    BY DEF Backup
  <2>2. \A i \in 1..N : fs[i].name = es[i].name
    BY <1>3
  <2>3. fs[N + 1].name = b
    BY <1>2, <1>3
  <2> QED
    BY <1>4, <1>9, <2>1, <2>2, <2>3
<1>14. /\ N + 1 = 1 + Cardinality(Blobs(fs, N + 1))
       /\ ArchiveBytes(fs) = 1 + Cardinality(S) + SizeSum(Blobs(fs, N + 1))
  <2>1. /\ N = 1 + Cardinality(Blobs(es, N))
        /\ ArchiveBytes(es) = 1 + Cardinality(S) + SizeSum(Blobs(es, N))
    BY DEF Backup
  <2> QED
    BY <1>3, <1>6, <1>7, <1>8, <2>1, SMTT(30)
<1>15. Backup(fs, S, T \cup {b})
  BY <1>3, <1>11, <1>12, <1>13, <1>14 DEF Backup
<1> QED
  BY <1>15 DEF fs, e

\* ... or skips one ...
LEMMA BackupSkips ==
    ASSUME NEW es, NEW S, NEW T, NEW R, T \subseteq R, Backup(es, S, T)
    PROVE  Backup(es, S, R)
  BY DEF Backup

\* ... and if it has skipped none, a restore accepts it.
LEMMA BackupIsAccepted ==
    ASSUME entries \in Seq(Entries), NEW T \in SUBSET saw, saw \in SUBSET Blob,
           Backup(entries, saw, T), at = "done", WithinLimits(saw),
           saw \subseteq {entries[i].name : i \in DOMAIN entries}
    PROVE  Accepts
<1> DEFINE N == Len(entries)
<1>1. N \in Nat /\ DOMAIN entries = 1..N
  OBVIOUS
<1>2. \A i \in 1..N : /\ entries[i].regular
                      /\ \/ /\ entries[i].name = "tasks.json"
                            /\ entries[i].bytes = [b \in saw |-> Size[b]]
                         \/ entries[i].name \in T /\ entries[i].bytes = entries[i].name
  BY DEF Backup
<1>3. Blobs(entries, N) = saw
  <2>1. Blobs(entries, N) \subseteq saw
    <3>1. "tasks.json" \notin Blob
      BY NameAssumption
    <3>2. \A i \in 1..N : entries[i].name = "tasks.json" \/ entries[i].name \in saw
      BY <1>2
    <3> QED
      BY <3>1, <3>2 DEF Blobs, Names
  <2>2. saw \subseteq Blobs(entries, N)
    BY <1>1 DEF Blobs, Names
  <2> QED
    BY <2>1, <2>2
<1>4. \A i \in 1..N : entries[i].name \in T => entries[i].name \in Blob
  OBVIOUS
<1>5. \A i \in 1..N : /\ entries[i].name # Other
                      /\ entries[i].name \in Blob => entries[i].bytes = entries[i].name
                      /\ entries[i].name = "tasks.json" => Bytes(entries[i]) <= Limits.task
  <2> SUFFICES ASSUME NEW i \in 1..N
               PROVE  /\ entries[i].name # Other
                      /\ entries[i].name \in Blob => entries[i].bytes = entries[i].name
                      /\ entries[i].name = "tasks.json" => Bytes(entries[i]) <= Limits.task
    OBVIOUS
  <2>1. CASE entries[i].name = "tasks.json" /\ entries[i].bytes = [b \in saw |-> Size[b]]
    <3>1. entries[i] \in Entries /\ DOMAIN entries[i].bytes = saw
      BY <2>1
    <3>2. Bytes(entries[i]) = 1 + Cardinality(saw)
      BY <2>1, <3>1, Trees, EntryBytes
    <3>3. 1 + Cardinality(saw) <= Limits.task
      BY DEF WithinLimits
    <3> QED
      BY <2>1, <3>2, <3>3, NameAssumption
  <2>2. CASE entries[i].name \in T /\ entries[i].bytes = entries[i].name
    BY <2>2, <1>4, NameAssumption
  <2> QED
    BY <1>2, <2>1, <2>2
<1>6. WellFormedTo(entries, N)
  <2>1. \A i, j \in 1..N : entries[i].name = entries[j].name => i = j
    BY DEF Backup
  <2>2. SizeSum(Blobs(entries, N)) <= Limits.total
    BY <1>3 DEF WithinLimits
  <2> QED
    BY <1>2, <1>5, <2>1, <2>2 DEF WellFormedTo
<1>7. HasTree(entries, Blobs(entries, N))
  BY <1>3 DEF Backup
<1>8. Fits
  <2>1. /\ Len(entries) = 1 + Cardinality(saw)
        /\ ArchiveBytes(entries) = 1 + Cardinality(saw) + SizeSum(saw)
    BY <1>3 DEF Backup
  <2> QED
    BY <2>1 DEF Fits, WithinLimits
<1> QED
  BY <1>6, <1>7, <1>8, AcceptsIs

----------------------------------------------------------------------------
(* The steps.                                                              *)

\* The types, and that only a finished file is judged.
TypeOK ==
    /\ tree \in [User -> SUBSET Blob]
    /\ at \in {"none", "stream", "done", "broken"}
    /\ saw \in SUBSET Blob
    /\ todo \in SUBSET saw
    /\ entries \in Seq(Entries)
    /\ edits \in Nat
    /\ verdict \in {"none", "accepted", "rejected"}
    /\ verdict # "none" => at \in {"done", "broken"}

\* Until somebody changes the file, it is what writeBackupArchive makes.
AsWritten == at \in {"stream", "done"} /\ edits = 0 => Backup(entries, saw, saw \ todo)

IInv == TypeOK /\ AsWritten /\ VerdictIsRight

\* Files may be damaged, but they remain sequences of entries.
LEMMA DamageType ==
    ASSUME NEW e \in Entries
    PROVE  Damaged(e) \subseteq Entries
<1>1. /\ [e EXCEPT !.name = Other] \in Entries
      /\ [e EXCEPT !.regular = FALSE] \in Entries
      /\ \A c \in Blob \cup {Junk} : [e EXCEPT !.bytes = c] \in Entries
  BY DEF Entries, Content
<1>2. ASSUME e.bytes \in Tree
      PROVE  [e EXCEPT !.bytes = [b \in DOMAIN e.bytes |-> Size[Junk]]] \in Entries
  <2>1. [b \in DOMAIN e.bytes |-> Size[Junk]] \in Tree
    BY <1>2, Trees
  <2> QED
    BY <2>1 DEF Entries, Content
<1> QED
  BY <1>1, <1>2 DEF Damaged

\* Whatever is done to the file, it consists of entries.
LEMMA EditType ==
    ASSUME TypeOK, EditFile
    PROVE  entries' \in Seq(Entries)
<1>0. entries \in Seq(Entries) /\ DOMAIN entries = 1..Len(entries) /\ Len(entries) \in Nat
  BY DEF TypeOK
<1>1. ASSUME NEW i \in DOMAIN entries, NEW e \in Damaged(entries[i]),
             entries' = [entries EXCEPT ![i] = e]
      PROVE  entries' \in Seq(Entries)
  <2>1. e \in Entries
    BY <1>0, DamageType
  <2> QED
    BY <1>0, <1>1, <2>1
<1>2. ASSUME NEW i \in DOMAIN entries, entries' = RemoveAt(entries, i)
      PROVE  entries' \in Seq(Entries)
  <2>1. /\ SubSeq(entries, 1, i - 1) \in Seq(Entries)
        /\ SubSeq(entries, i + 1, Len(entries)) \in Seq(Entries)
    BY <1>0
  <2> QED
    BY <1>2, <2>1 DEF RemoveAt
<1>3. ASSUME NEW i \in DOMAIN entries, entries' = Append(entries, entries[i])
      PROVE  entries' \in Seq(Entries)
  BY <1>0, <1>3
<1>4. ASSUME NEW b \in Blob, entries' = Append(entries, Entry(b, b))
      PROVE  entries' \in Seq(Entries)
  BY <1>0, <1>4, EntriesMade
<1> QED
  BY <1>1, <1>2, <1>3, <1>4 DEF EditFile

\* What was said of a file that is left alone stays right.
LEMMA VerdictStays ==
    ASSUME TypeOK, TypeOK', VerdictIsRight,
           \/ verdict' = "none"
           \/ verdict' = verdict /\ at' = at /\ entries' = entries
    PROVE  VerdictIsRight'
<1>1. CASE verdict' = "none"
  BY <1>1 DEF VerdictIsRight
<1>2. CASE verdict' = verdict /\ at' = at /\ entries' = entries
  <2>1. WellFormed' = WellFormed
    BY <1>2 DEF WellFormed, ArchiveBytes, Bytes
  <2> QED
    BY <1>2, <2>1 DEF VerdictIsRight
<1> QED
  BY <1>1, <1>2

\* The inductive invariant: the file is what writeBackupArchive makes until somebody
\* changes it, and the verdict of stageRestoreArchiveLocked fits the file.
THEOREM InvariantHolds == Spec => []IInv
<1>1. Init => IInv
  <2> SUFFICES ASSUME Init
               PROVE  IInv
    OBVIOUS
  <2> QED
    BY DEF Init, Doc!Init, IInv, TypeOK, AsWritten, VerdictIsRight
<1>2. IInv /\ [Next]_vars => IInv'
  <2> SUFFICES ASSUME IInv, [Next]_vars
               PROVE  IInv'
    OBVIOUS
  <2> USE DEF IInv
  <2>1. CASE UNCHANGED vars
    <3>1. TypeOK'
      BY <2>1 DEF TypeOK, vars, backup
    <3>2. AsWritten'
      <4>1. UNCHANGED <<at, saw, todo, entries, edits>>
        BY <2>1 DEF vars, backup
      <4> QED
        BY <4>1 DEF AsWritten
    <3> QED
      BY <2>1, <3>1, <3>2, VerdictStays DEF vars, backup
  <2>2. CASE Doc!Next /\ UNCHANGED backup
    <3>1. tree' \in [User -> SUBSET Blob]
      <4>1. tree \in [User -> SUBSET Blob]
        BY DEF TypeOK
      <4>2. \A S \in Uploads \cup Archives \cup Legacy : S \in SUBSET Blob
        BY NameAssumption
      <4> QED
        BY <2>2, <4>1, <4>2
        DEF Doc!Next, Doc!Store, Doc!Reclaim, Doc!Attach, Doc!Replace, Doc!ReplaceLegacy
    <3>2. TypeOK'
      BY <2>2, <3>1 DEF TypeOK, backup
    <3>3. AsWritten'
      BY <2>2 DEF AsWritten, backup
    <3> QED
      BY <2>2, <3>2, <3>3, VerdictStays DEF backup
  <2>3. ASSUME NEW u \in User, LoadTree(u)
        PROVE  IInv'
    <3>1. tree[u] \in SUBSET Blob
      BY DEF TypeOK
    <3>2. /\ Entry("tasks.json", [b \in tree[u] |-> Size[b]]) \in Entries
          /\ Backup(<<Entry("tasks.json", [b \in tree[u] |-> Size[b]])>>, tree[u], {})
      BY <3>1, EntriesMade, BackupBegins
    <3>3. TypeOK'
      BY <2>3, <3>1, <3>2 DEF LoadTree, TypeOK
    <3>4. AsWritten'
      <4>1. saw' \ todo' = {}
        BY <2>3 DEF LoadTree
      <4>2. Backup(entries', saw', saw' \ todo')
        BY <2>3, <3>2, <4>1 DEF LoadTree
      <4> QED
        BY <4>2 DEF AsWritten
    <3>5. verdict' = "none"
      BY <2>3 DEF LoadTree, TypeOK
    <3> QED
      BY <3>3, <3>4, <3>5, VerdictStays
  <2>4. ASSUME NEW b \in Blob, AddBlobEntry(b)
        PROVE  IInv'
    <3>1. b \in todo /\ todo \in SUBSET saw /\ saw \in SUBSET Blob /\ entries \in Seq(Entries)
      BY <2>4 DEF AddBlobEntry, TypeOK
    <3>2. TypeOK'
      BY <2>4, EntriesMade DEF AddBlobEntry, TypeOK
    <3>3. AsWritten'
      <4> SUFFICES ASSUME edits' = 0
                   PROVE  Backup(entries', saw', saw' \ todo')
        BY DEF AsWritten
      <4>1. Backup(entries, saw, saw \ todo)
        BY <2>4 DEF AddBlobEntry, AsWritten
      <4>2. saw' \ todo' = (saw \ todo) \cup {b} /\ saw' = saw
        BY <2>4, <3>1 DEF AddBlobEntry
      <4>3. CASE b \in content
        <5>1. entries' = Append(entries, Entry(b, b))
          BY <2>4, <4>3 DEF AddBlobEntry
        <5>2. saw \ todo \in SUBSET saw /\ b \in saw \ (saw \ todo)
          BY <3>1
        <5>3. Backup(Append(entries, Entry(b, b)), saw, (saw \ todo) \cup {b})
          BY <3>1, <4>1, <5>2, BackupGoesOn
        <5> QED
          BY <4>2, <5>1, <5>3
      <4>4. CASE b \notin content
        <5>1. entries' = entries
          BY <2>4, <4>4 DEF AddBlobEntry
        <5>2. Backup(entries, saw, (saw \ todo) \cup {b})
          BY <4>1, BackupSkips
        <5> QED
          BY <4>2, <5>1, <5>2
      <4> QED
        BY <4>3, <4>4
    <3>4. verdict' = "none"
      BY <2>4 DEF AddBlobEntry, TypeOK
    <3> QED
      BY <3>2, <3>3, <3>4, VerdictStays
  <2>5. CASE FinishBackup
    <3>1. TypeOK'
      BY <2>5 DEF FinishBackup, TypeOK
    <3>2. AsWritten'
      <4> SUFFICES ASSUME edits' = 0
                   PROVE  Backup(entries', saw', saw' \ todo')
        BY DEF AsWritten
      <4>1. Backup(entries, saw, saw \ todo)
        BY <2>5 DEF FinishBackup, AsWritten
      <4>2. entries' = entries /\ saw' = saw /\ todo' = todo
        BY <2>5 DEF FinishBackup
      <4> QED
        BY <4>1, <4>2
    <3>3. verdict' = "none"
      BY <2>5 DEF FinishBackup, TypeOK
    <3> QED
      BY <3>1, <3>2, <3>3, VerdictStays
  <2>6. CASE EditFile
    <3>1. TypeOK'
      BY <2>6, EditType DEF EditFile, TypeOK
    <3>2. edits' # 0 /\ verdict' = "none"
      BY <2>6 DEF EditFile, TypeOK
    <3> QED
      BY <3>1, <3>2, VerdictStays DEF AsWritten
  <2>7. CASE Restore
    <3>1. TypeOK'
      BY <2>7 DEF Restore, TypeOK
    <3>2. AsWritten'
      BY <2>7 DEF Restore, AsWritten
    <3>3. VerdictIsRight'
      <4>1. Accepts <=> WellFormed
        BY AcceptsTheWellFormed DEF TypeOK
      <4>2. WellFormed' = WellFormed
        BY <2>7 DEF Restore, WellFormed, ArchiveBytes, Bytes
      <4>3. verdict' = "accepted" <=> Accepts
        BY <2>7 DEF Restore
      <4> QED
        BY <4>1, <4>2, <4>3 DEF VerdictIsRight
    <3> QED
      BY <3>1, <3>2, <3>3
  <2> QED
    BY <2>1, <2>2, <2>3, <2>4, <2>5, <2>6, <2>7 DEF Next
<1> QED
  BY <1>1, <1>2, PTL DEF Spec

\* The verdict on an archive is the one SPEC.md asks for, whatever is in the file and
\* wherever (stageRestoreArchiveLocked).
THEOREM VerdictsAreRight == Spec => []VerdictIsRight
  BY InvariantHolds, PTL DEF IInv

\* A backup that skipped nothing can be restored, whatever the data directory did
\* while it was written, up to the very limits (writeBackupArchive).
THEOREM CompleteBackupsRestore == Spec => []CompleteBackupRestores
<1>1. IInv => CompleteBackupRestores
  <2> SUFFICES ASSUME IInv, Finished, WithinLimits(saw),
                      saw \subseteq {entries[i].name : i \in DOMAIN entries}
               PROVE  Accepts
    BY DEF CompleteBackupRestores
  <2>1. entries \in Seq(Entries) /\ saw \ todo \in SUBSET saw /\ saw \in SUBSET Blob
    BY DEF IInv, TypeOK
  <2>2. Backup(entries, saw, saw \ todo) /\ at = "done"
    BY DEF IInv, AsWritten, Finished
  <2> QED
    BY <2>1, <2>2, BackupIsAccepted
<1> QED
  BY <1>1, InvariantHolds, PTL
=============================================================================
