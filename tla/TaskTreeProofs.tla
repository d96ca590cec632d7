--------------------------- MODULE TaskTreeProofs ---------------------------
(***************************************************************************)
(* What TaskTree and Pages guarantee for any number of nodes and forums.   *)
(***************************************************************************)
EXTENDS Pages, TLAPS

----------------------------------------------------------------------------
(* Subtrees, in any tree.                                                  *)

\* cloneTaskTree and setForum start with the node itself ...
LEMMA BelowSelf ==
    ASSUME NEW N, NEW par, NEW n \in Node
    PROVE  n \in Below(N, par, n) /\ Below(N, par, n) \subseteq Node
  BY DEF Below

\* ... and go on to every child of a node they have reached.
LEMMA BelowClosed ==
    ASSUME NEW N \in SUBSET Node, NEW par, NEW n \in Node,
           NEW k \in N, par[k] \in Below(N, par, n)
    PROVE  k \in Below(N, par, n)
  BY DEF Below

\* They reach nothing else.
LEMMA BelowLeast ==
    ASSUME NEW N, NEW par, NEW n \in Node, NEW D \in SUBSET Node,
           n \in D, \A k \in N : par[k] \in D => k \in D
    PROVE  Below(N, par, n) \subseteq D
  BY DEF Below

\* Whatever is below a node, other than the node, has its parent there.
LEMMA BelowUp ==
    ASSUME NEW N \in SUBSET Node, NEW par, NEW n \in Node,
           NEW m \in Below(N, par, n), m # n
    PROVE  m \in N /\ par[m] \in Below(N, par, n)
<1> DEFINE D == Below(N, par, n) \ {m}
<1>1. D \in SUBSET Node /\ n \in D
  BY BelowSelf
<1>2. SUFFICES ASSUME ~(m \in N /\ par[m] \in Below(N, par, n))
               PROVE  FALSE
  OBVIOUS
<1>3. ASSUME NEW k \in N, par[k] \in D
      PROVE  k \in D
  BY <1>2, <1>3, BelowClosed
<1> HIDE DEF D
<1>4. Below(N, par, n) \subseteq D
  BY <1>1, <1>3, BelowLeast
<1> QED
  BY <1>4 DEF D

\* A node of the tree has only nodes of the tree below it.
LEMMA BelowNodes ==
    ASSUME NEW N \in SUBSET Node, NEW par, NEW n \in N
    PROVE  Below(N, par, n) \subseteq N
  BY BelowUp

\* Below a node is all that is below what is below it.
LEMMA BelowTransitive ==
    ASSUME NEW N \in SUBSET Node, NEW par, NEW n \in Node,
           NEW m \in Below(N, par, n)
    PROVE  Below(N, par, m) \subseteq Below(N, par, n)
<1>1. Below(N, par, n) \in SUBSET Node /\ m \in Node
  BY BelowSelf
<1>2. \A k \in N : par[k] \in Below(N, par, n) => k \in Below(N, par, n)
  BY BelowClosed
<1> QED
  BY <1>1, <1>2, BelowLeast

\* Of two nodes above the same node, one is above the other.
LEMMA BelowLinear ==
    ASSUME NEW N \in SUBSET Node, NEW par, NEW a \in Node, NEW b \in Node,
           NEW n \in Below(N, par, a) \cap Below(N, par, b)
    PROVE  a \in Below(N, par, b) \/ b \in Below(N, par, a)
<1> DEFINE D == Below(N, par, a) \ Below(N, par, b)
<1>1. SUFFICES ASSUME a \notin Below(N, par, b), b \notin Below(N, par, a)
               PROVE  FALSE
  OBVIOUS
<1>2. D \in SUBSET Node /\ a \in D
  BY <1>1, BelowSelf
<1>3. ASSUME NEW k \in N, par[k] \in D
      PROVE  k \in D
  <2>1. k \in Below(N, par, a)
    BY <1>3, BelowClosed
  <2>2. k \notin Below(N, par, b)
    BY <1>1, <1>3, <2>1, BelowUp
  <2> QED
    BY <2>1, <2>2
<1> HIDE DEF D
<1>4. Below(N, par, a) \subseteq D
  BY <1>2, <1>3, BelowLeast
<1> QED
  BY <1>4 DEF D

\* Where everything below a node keeps its parent, nothing is lost below it.
LEMMA BelowKept ==
    ASSUME NEW N \in SUBSET Node, NEW M \in SUBSET Node, NEW par, NEW qar,
           NEW n \in Node,
           \A k \in Below(N, par, n) \ {n} : k \in M /\ qar[k] = par[k]
    PROVE  Below(N, par, n) \subseteq Below(M, qar, n)
<1> DEFINE D == Below(M, qar, n) \cap Below(N, par, n)
<1>1. D \in SUBSET Node /\ n \in D
  BY BelowSelf
<1>2. ASSUME NEW k \in N, par[k] \in D
      PROVE  k \in D
  <2>1. k \in Below(N, par, n)
    BY <1>2, BelowClosed
  <2>2. CASE k = n
    BY <1>1, <2>2
  <2>3. CASE k # n
    <3>1. k \in M /\ qar[k] \in Below(M, qar, n)
      BY <1>2, <2>1, <2>3
    <3> QED
      BY <2>1, <3>1, BelowClosed
  <2> QED
    BY <2>2, <2>3
<1> HIDE DEF D
<1>3. Below(N, par, n) \subseteq D
  BY <1>1, <1>2, BelowLeast
<1> QED
  BY <1>3 DEF D

\* Subtree is Below in the present tree, and in the next one.
LEMMA SubtreeIsBelow ==
    ASSUME NEW n
    PROVE  /\ Subtree(n) = Below(nodes, parent, n)
           /\ Subtree(n)' = Below(nodes', parent', n)
  BY DEF Subtree

----------------------------------------------------------------------------
(* Type correctness.                                                       *)

\* A legacy file is well typed.
LEMMA LegacyType ==
    ASSUME NEW N \in SUBSET Node, NEW p \in Trees(N), NEW done \in SUBSET N,
           NEW gone \in SUBSET N
    PROVE  ArchiveOK(Legacy(N, p, done, gone))
<1>1. p \in [N -> N \cup {Root}]
  BY DEF Trees
<1>2. [n \in Node |-> IF n \in N THEN p[n] ELSE Root] \in [Node -> Node \cup {Root}]
  BY <1>1
<1> QED
  BY <1>2, TreeAssumption DEF Legacy, ArchiveOK

\* An empty workspace is well typed.
LEMMA TypeInit == Init => TypeOK
<1> SUFFICES ASSUME Init PROVE TypeOK
  OBVIOUS
<1>1. \A t \in archives : ArchiveOK(t)
  BY LegacyType DEF Init
<1> QED
  BY <1>1, TreeAssumption DEF Init, TypeOK

\* What an archive is made of is well typed (writeBackupArchive).
LEMMA ArchivedType ==
    ASSUME TypeOK, NEW N \in SUBSET Node, NEW par \in [Node -> Node \cup {Root}]
    PROVE  ArchiveOK(Archived(N, par))
<1>1. /\ titled \cap N \in SUBSET N /\ tracked \cap N \in SUBSET N
      /\ checked \cap N \in SUBSET N /\ deleted \cap N \in SUBSET N
  OBVIOUS
<1>2. [n \in Node |-> IF n \in N THEN forum[n] ELSE General] \in [Node -> Forum]
  BY TreeAssumption DEF TypeOK
<1>3. {n \in nodes : Visible(n)} \in SUBSET Node /\ forums \in SUBSET Forum
  BY DEF TypeOK
<1> QED
  BY <1>1, <1>2, <1>3 DEF Archived, ArchiveOK

\* So are backups and exports.
LEMMA KeptType ==
    ASSUME TypeOK
    PROVE  /\ ArchiveOK(Archived(nodes, parent))
           /\ \A S \in SUBSET Node : ArchiveOK(Selection(S))
<1>1. ArchiveOK(Archived(nodes, parent))
  BY ArchivedType DEF TypeOK
<1>2. ASSUME NEW S \in SUBSET Node
      PROVE  ArchiveOK(Selection(S))
  <2>1. ExportNodes(S) \in SUBSET Node
    BY DEF ExportNodes, Subtree, Below
  <2>2. [n \in Node |-> IF n \in ExportNodes(S) \ ExportTop(S) THEN parent[n] ELSE Root]
            \in [Node -> Node \cup {Root}]
    BY DEF TypeOK
  <2> QED
    BY <2>1, <2>2, ArchivedType DEF Selection
<1> QED
  BY <1>1, <1>2

\* A node appended to the tree (newTask, append) is well typed.
LEMMA AppendType ==
    ASSUME TypeOK, NEW n, NEW p \in Node \cup {Root}, NEW f \in Forum,
           NEW title, NEW track, Append(n, p, f, title, track)
    PROVE  TypeOK'
  BY DEF TypeOK, Append, With

\* Every request keeps the tree well typed: flags belong to nodes that exist.
LEMMA TypeStep == TypeOK /\ [Next]_vars => TypeOK'
<1> SUFFICES ASSUME TypeOK, [Next]_vars
             PROVE  TypeOK'
  OBVIOUS
<1>1. ASSUME NEW n \in Node, NEW f \in Forum, CreatePost(n, f)
      PROVE  TypeOK'
  BY <1>1, AppendType DEF CreatePost
<1>2. ASSUME NEW n \in Node, NEW p \in Node, NEW title \in BOOLEAN, NEW track \in BOOLEAN,
             CreateReply(n, p, title, track)
      PROVE  TypeOK'
  <2>1. forum[p] \in Forum
    BY DEF TypeOK
  <2> QED
    BY <1>2, <2>1, AppendType DEF CreateReply
<1>3. ASSUME NEW n \in Node, NEW title \in BOOLEAN, NEW track \in BOOLEAN,
             CreateUnderRootID(n, title, track)
      PROVE  TypeOK'
  BY <1>3, AppendType, TreeAssumption DEF CreateUnderRootID
<1>4. ASSUME NEW f \in Forum, CreateForum(f)
      PROVE  TypeOK'
  BY <1>4 DEF CreateForum, TypeOK
<1>5. ASSUME NEW n \in Node, NEW p \in Node, MoveBeneath(n, p)
      PROVE  TypeOK'
  <2>1. forum[p] \in Forum
    BY DEF TypeOK
  <2> QED
    BY <1>5, <2>1 DEF MoveBeneath, Hang, TypeOK
<1>6. ASSUME NEW n \in Node, NEW f \in Forum, Promote(n, f)
      PROVE  TypeOK'
  BY <1>6 DEF Promote, Hang, TypeOK
<1>7. ASSUME NEW n \in Node, Delete(n) \/ Restore(n) \/ Toggle(n)
      PROVE  TypeOK'
  BY <1>7 DEF Delete, Restore, Toggle, Visible, With, TypeOK
<1>8. ASSUME NEW n \in Node, NEW title \in BOOLEAN, Edit(n, title)
      PROVE  TypeOK'
  BY <1>8 DEF Edit, Visible, With, TypeOK
<1>9. ASSUME NEW n \in Node, NEW status \in {"open", "done", "none"}, SetStatus(n, status)
      PROVE  TypeOK'
  BY <1>9 DEF SetStatus, Visible, With, TypeOK
<1>10. ASSUME NEW S \in SUBSET Node, NEW done \in BOOLEAN, BulkCheck(S, done)
       PROVE  TypeOK'
  BY <1>10 DEF BulkCheck, Visible, TypeOK
<1>11. ASSUME NEW S \in SUBSET Node, BulkDelete(S)
       PROVE  TypeOK'
  BY <1>11 DEF BulkDelete, Visible, TypeOK
<1>12. ASSUME NEW S \in SUBSET Node, Export(S) \/ Download
       PROVE  TypeOK'
  BY <1>12, KeptType DEF Export, Download, Keep, TypeOK
<1>13. ASSUME NEW t \in archives, RestoreArchive(t)
       PROVE  TypeOK'
  <2>1. ArchiveOK(t)
    BY DEF TypeOK
  <2>2. \A u \in archives' : ArchiveOK(u)
    BY <1>13 DEF RestoreArchive, TypeOK
  <2> QED
    BY <1>13, <2>1, <2>2, TreeAssumption
       DEF RestoreArchive, NormalForums, ArchiveOK, TypeOK
<1>14. CASE UNCHANGED vars
  BY <1>14 DEF vars, TypeOK
<1> QED
  BY <1>1, <1>2, <1>3, <1>4, <1>5, <1>6, <1>7, <1>8, <1>9, <1>10, <1>11, <1>12, <1>13, <1>14
     DEF Next

\* The flags, parents and forums of the tree are those of nodes that exist, in
\* every workspace the requests can build.
THEOREM TreeTypeCorrect == Spec => []TypeOK
  BY TypeInit, TypeStep, PTL DEF Spec

----------------------------------------------------------------------------
(* The shape of the tree.                                                  *)

\* The tree in an archive is one that the workspace can be replaced by, and shows
\* what was visible when the archive was made.
GoodArchive(t) ==
    /\ \A n \in t.nodes : t.parent[n] \in t.nodes \cup {Root}
    /\ \A S \in SUBSET t.nodes : S # {} => \E n \in S : t.parent[n] \notin S
    /\ \A n \in t.nodes : t.parent[n] # Root => t.forum[n] = t.forum[t.parent[n]]
    /\ \A n \in t.nodes : t.forum[n] \in NormalForums(t.forums)
    /\ t.legacy \/ t.checked \subseteq t.tracked
    /\ \A n \in t.nodes :
          n \in t.shown <=> \A m \in t.deleted : n \notin Below(t.nodes, t.parent, m)

\* Every node hangs from the root, in the forum of its parent, which exists.
\* That the default forum is never lost (normalizeForums) is needed for nodes
\* created with the root's ID as their parent.  What an archive brings back must have
\* the same shape.
Shape ==
    /\ TypeOK
    /\ Rooted
    /\ RepliesShareForum
    /\ ForumsExist
    /\ CheckedIsTracked
    /\ General \in forums
    /\ \A t \in archives : GoodArchive(t)

\* A legacy file has a tree; the rest is up to normalizeTree.
LEMMA LegacyGood ==
    ASSUME NEW N \in SUBSET Node, NEW p \in Trees(N), NEW done \in SUBSET N,
           NEW gone \in SUBSET N
    PROVE  GoodArchive(Legacy(N, p, done, gone))
<1> DEFINE t == Legacy(N, p, done, gone)
<1>1. p \in [N -> N \cup {Root}] /\ \A S \in SUBSET N : S # {} => \E n \in S : p[n] \notin S
  BY DEF Trees
<1>2. /\ t.nodes = N /\ t.deleted = gone /\ t.forums = {} /\ t.legacy
      /\ t.parent = [n \in Node |-> IF n \in N THEN p[n] ELSE Root]
      /\ t.forum = [n \in Node |-> General]
      /\ t.shown = {n \in N : \A m \in gone : n \notin Below(N, t.parent, m)}
  BY DEF Legacy
<1> HIDE DEF t
<1>3. \A n \in N : t.parent[n] = p[n] /\ t.forum[n] = General
  BY <1>2
<1>4. \A n \in N : p[n] \in N \cup {Root}
  BY <1>1
<1>5. \A n \in t.nodes : t.parent[n] # Root => t.forum[n] = t.forum[t.parent[n]]
  BY <1>2, <1>3, <1>4
<1>6. \A S \in SUBSET t.nodes : S # {} => \E n \in S : t.parent[n] \notin S
  BY <1>1, <1>2, <1>3
<1>7. GoodArchive(t)
  BY <1>2, <1>3, <1>4, <1>5, <1>6 DEF GoodArchive, NormalForums
<1> QED
  BY <1>7 DEF t

\* An empty workspace has the shape.
LEMMA ShapeInit == Init => Shape
<1> SUFFICES ASSUME Init PROVE Shape
  OBVIOUS
<1>1. \A t \in archives : GoodArchive(t)
  BY LegacyGood DEF Init
<1> QED
  BY <1>1, TypeInit, TreeAssumption
     DEF Init, Shape, Rooted, RepliesShareForum, ForumsExist, CheckedIsTracked

\* A new leaf, under the root or under a node whose forum it takes, keeps the
\* shape (addWaypoint, apiCreateNode).
LEMMA AppendShape ==
    ASSUME Shape, TypeOK', NEW n \in Node, NEW p \in nodes \cup {Root}, NEW f \in forums,
           NEW title, NEW track, Append(n, p, f, title, track),
           p # Root => f = forum[p]
    PROVE  Shape'
<1> USE DEF Shape
<1>1. n \notin nodes /\ Root \notin nodes /\ parent'[n] = p /\ forum'[n] = f
  BY TreeAssumption DEF Append, TypeOK
<1>2. \A k \in nodes : parent'[k] = parent[k] /\ forum'[k] = forum[k]
  BY <1>1 DEF Append, TypeOK
<1>3. nodes' = nodes \cup {n} /\ forums' = forums /\ checked' = checked
  BY DEF Append
<1>4. Rooted'
  <2>1. \A k \in nodes' : parent'[k] \in nodes' \cup {Root}
    BY <1>1, <1>2, <1>3 DEF Rooted
  <2>2. ASSUME NEW S \in SUBSET nodes', S # {}
        PROVE  \E k \in S : parent'[k] \notin S
    <3>1. CASE S \ {n} = {}
      BY <1>1, <1>3, <2>2, <3>1, TreeAssumption DEF Rooted
    <3>2. CASE S \ {n} # {}
      <4>1. S \ {n} \in SUBSET nodes
        BY <1>3
      <4>2. PICK k \in S \ {n} : parent[k] \notin S \ {n}
        BY <3>2, <4>1 DEF Rooted
      <4>3. parent[k] # n
        BY <1>1, <4>1, <4>2, TreeAssumption DEF Rooted, TypeOK
      <4> QED
        BY <1>2, <4>1, <4>2, <4>3
    <3> QED
      BY <3>1, <3>2
  <2> QED
    BY <2>1, <2>2 DEF Rooted
<1>5. RepliesShareForum'
  BY <1>1, <1>2, <1>3 DEF RepliesShareForum, Rooted
<1>6. ForumsExist' /\ General \in forums'
  BY <1>1, <1>2, <1>3 DEF ForumsExist
<1>7. CheckedIsTracked'
  BY <1>1 DEF CheckedIsTracked, Append, With, TypeOK
<1> QED
  BY <1>4, <1>5, <1>6, <1>7 DEF Append

\* setForum reaches a reply exactly when it reaches what it replies to, except
\* at the moved node itself.
LEMMA SubtreeEdges ==
    ASSUME TypeOK, NEW n \in nodes, NEW m \in nodes, m # n
    PROVE  m \in Subtree(n) <=> parent[m] \in Subtree(n)
  BY BelowUp, BelowClosed, SubtreeIsBelow DEF TypeOK

\* A moved subtree takes the forum of its new place as a whole (moveTask,
\* setForum).
LEMMA HangForums ==
    ASSUME Shape, NEW n \in Node, NEW p, NEW f \in forums, Hang(n, p, f),
           p # Root => p \in nodes \ Subtree(n) /\ f = forum[p]
    PROVE  RepliesShareForum' /\ ForumsExist' /\ General \in forums'
<1> USE DEF Shape
<1>1. n \in nodes /\ nodes' = nodes /\ forums' = forums
  BY DEF Hang
<1>2. \A m \in nodes : forum'[m] = IF m \in Subtree(n) THEN f ELSE forum[m]
  BY DEF Hang, TypeOK
<1>3. n \in Subtree(n)
  BY BelowSelf, SubtreeIsBelow
<1>4. ASSUME NEW m \in nodes, parent'[m] # Root
      PROVE  forum'[m] = forum'[parent'[m]]
  <2>1. CASE m = n
    BY <1>1, <1>2, <1>3, <1>4, <2>1 DEF Hang, TypeOK
  <2>2. CASE m # n
    <3>1. parent'[m] = parent[m] /\ parent[m] \in nodes
      BY <1>4, <2>2 DEF Hang, TypeOK, Rooted
    <3>2. m \in Subtree(n) <=> parent[m] \in Subtree(n)
      BY <1>1, <2>2, SubtreeEdges
    <3> QED
      BY <1>2, <1>4, <3>1, <3>2 DEF RepliesShareForum
  <2> QED
    BY <2>1, <2>2
<1> QED
  BY <1>1, <1>2, <1>4 DEF RepliesShareForum, ForumsExist

\* A node moved to the root, or beneath a node outside of its subtree, still hangs
\* from the root with all that replies to it (the test before errInvalidMove).
LEMMA HangRooted ==
    ASSUME Shape, NEW n \in Node, NEW p, NEW f, Hang(n, p, f),
           p # Root => p \in nodes \ Subtree(n)
    PROVE  Rooted'
<1> USE DEF Shape
<1>1. n \in nodes /\ nodes' = nodes /\ parent'[n] = p
  BY DEF Hang, TypeOK
<1>2. \A k \in nodes \ {n} : parent'[k] = parent[k]
  BY DEF Hang, TypeOK
<1>3. \A k \in nodes' : parent'[k] \in nodes' \cup {Root}
  BY <1>1, <1>2 DEF Rooted
<1>4. ASSUME NEW S \in SUBSET nodes', S # {}
      PROVE  \E k \in S : parent'[k] \notin S
  <2>1. CASE p \notin S
    <3>1. PICK k \in S : parent[k] \notin S
      BY <1>1, <1>4 DEF Rooted
    <3> QED
      BY <1>1, <1>2, <2>1, <3>1
  <2>2. CASE p \in S
    <3>1. p \in nodes \ Subtree(n)
      BY <1>1, <2>2, TreeAssumption DEF TypeOK
    <3>2. S \ Subtree(n) # {} /\ S \ Subtree(n) \in SUBSET nodes
      BY <1>1, <2>2, <3>1
    <3>3. PICK k \in S \ Subtree(n) : parent[k] \notin S \ Subtree(n)
      BY <3>2 DEF Rooted
    <3>4. k # n
      BY <3>3, BelowSelf, SubtreeIsBelow
    <3>5. parent[k] \notin Subtree(n)
      BY <1>1, <3>2, <3>3, <3>4, SubtreeEdges
    <3> QED
      BY <1>2, <3>2, <3>3, <3>4, <3>5
  <2> QED
    BY <2>1, <2>2
<1> QED
  BY <1>3, <1>4 DEF Rooted

\* What selectedTaskExport clones: with every node that is not at the top, its
\* parent.
LEMMA ExportParents ==
    ASSUME TypeOK, NEW S \in SUBSET nodes
    PROVE  /\ ExportNodes(S) \subseteq nodes
           /\ \A m \in ExportNodes(S) \ ExportTop(S) : parent[m] \in ExportNodes(S)
<1>1. \A n \in S : Subtree(n) \subseteq nodes
  BY BelowNodes, SubtreeIsBelow DEF TypeOK
<1>2. ASSUME NEW m \in ExportNodes(S) \ ExportTop(S)
      PROVE  parent[m] \in ExportNodes(S)
  <2>1. PICK n \in ExportTop(S) : m \in Subtree(n)
    BY DEF ExportNodes
  <2>2. parent[m] \in Subtree(n)
    BY <2>1, BelowUp, SubtreeIsBelow DEF ExportTop, TypeOK
  <2> QED
    BY <2>2 DEF ExportNodes
<1> QED
  BY <1>1, <1>2 DEF ExportNodes, ExportTop

\* The archive of a selection shows what was visible when it was made: below a
\* deleted node that is exported with it, all is exported with the parent it had; and
\* nothing is above a selected node that would hide it.
LEMMA SelectionShows ==
    ASSUME TypeOK, NEW S \in SUBSET nodes, \A n \in S : Visible(n), NEW q,
           \A n \in ExportNodes(S) : q[n] = IF n \in ExportTop(S) THEN Root ELSE parent[n],
           NEW n \in ExportNodes(S)
    PROVE  Visible(n) <=>
               \A m \in deleted \cap ExportNodes(S) : n \notin Below(ExportNodes(S), q, m)
<1>1. /\ nodes \in SUBSET Node /\ deleted \subseteq nodes
      /\ ExportNodes(S) \in SUBSET nodes /\ n \in nodes
  BY ExportParents DEF TypeOK
<1>2. ASSUME Visible(n), NEW m \in deleted \cap ExportNodes(S),
             n \in Below(ExportNodes(S), q, m)
      PROVE  FALSE
  <2> DEFINE D == Below(nodes, parent, m)
  <2>1. m \in Node /\ D \in SUBSET Node /\ m \in D /\ D = Subtree(m)
    BY <1>1, BelowSelf, SubtreeIsBelow
  <2>2. ASSUME NEW k \in ExportNodes(S), q[k] \in D
        PROVE  k \in D
    <3>1. k \in nodes /\ parent[k] \in D
      BY <1>1, <2>1, <2>2, TreeAssumption
    <3> QED
      BY <1>1, <2>1, <3>1, BelowClosed
  <2> HIDE DEF D
  <2>3. Below(ExportNodes(S), q, m) \subseteq D
    BY <2>1, <2>2, BelowLeast
  <2> QED
    BY <1>2, <2>1, <2>3 DEF Visible
<1>3. ASSUME ~Visible(n)
      PROVE  \E m \in deleted \cap ExportNodes(S) : n \in Below(ExportNodes(S), q, m)
  <2>1. PICK m \in deleted : n \in Subtree(m)
    BY <1>1, <1>3 DEF Visible
  <2>2. PICK t \in ExportTop(S) : n \in Subtree(t)
    BY DEF ExportNodes
  <2>3. m \in nodes /\ t \in nodes /\ m \in Node /\ t \in Node
    BY <1>1, <2>1, <2>2 DEF ExportTop
  <2>4. t \notin Subtree(m)
    BY <2>1, <2>2 DEF ExportTop, Visible
  <2>5. m \in Subtree(t)
    BY <2>1, <2>2, <2>3, <2>4, <1>1, BelowLinear, SubtreeIsBelow
  <2>6. Subtree(m) \subseteq Subtree(t)
    BY <1>1, <2>3, <2>5, BelowTransitive, SubtreeIsBelow
  <2>7. Subtree(t) \subseteq ExportNodes(S)
    BY <2>2 DEF ExportNodes
  <2>8. ASSUME NEW k \in Subtree(m)
        PROVE  k \in ExportNodes(S) /\ q[k] = parent[k]
    <3>1. k \in Subtree(t) /\ k # t /\ k \in Node
      BY <2>3, <2>4, <2>6, <2>8, BelowSelf, SubtreeIsBelow
    <3>2. k \notin ExportTop(S)
      BY <2>2, <3>1 DEF ExportTop
    <3> QED
      BY <2>7, <3>1, <3>2
  <2>9. Below(nodes, parent, m) \subseteq Below(ExportNodes(S), q, m)
    <3>1. ExportNodes(S) \in SUBSET Node
      BY <1>1
    <3>2. \A k \in Below(nodes, parent, m) \ {m} :
              k \in ExportNodes(S) /\ q[k] = parent[k]
      BY <2>8, SubtreeIsBelow
    <3> QED
      BY <1>1, <2>3, <3>1, <3>2, BelowKept
  <2>10. m \in ExportNodes(S)
    BY <2>5, <2>7
  <2> QED
    BY <2>1, <2>9, <2>10, SubtreeIsBelow
<1> QED
  BY <1>2, <1>3

\* The export of a selection can replace the tree (selectedTaskExport).
LEMMA SelectionGood ==
    ASSUME Shape, NEW S \in SUBSET Node, \A n \in S : Visible(n)
    PROVE  GoodArchive(Selection(S))
<1> DEFINE t == Selection(S)
           E == ExportNodes(S)
<1> USE DEF Shape
<1>1. S \in SUBSET nodes /\ E \subseteq nodes /\ nodes \in SUBSET Node /\ E \in SUBSET Node
  BY ExportParents DEF Visible, TypeOK
<1>2. /\ t.nodes = E /\ t.deleted = deleted \cap E /\ t.forums = forums
      /\ t.checked = checked \cap E /\ t.tracked = tracked \cap E
      /\ t.parent = [n \in Node |-> IF n \in E \ ExportTop(S) THEN parent[n] ELSE Root]
      /\ t.forum = [n \in Node |-> IF n \in E THEN forum[n] ELSE General]
      /\ t.shown = {n \in nodes : Visible(n)}
  BY DEF Selection, Archived
<1>3. \A n \in E : /\ t.parent[n] = IF n \in ExportTop(S) THEN Root ELSE parent[n]
                   /\ t.forum[n] = forum[n]
  BY <1>1, <1>2
<1>4. \A n \in E \ ExportTop(S) : parent[n] \in E
  BY <1>1, ExportParents
<1>5. \A n \in E : n \in t.shown <=> \A m \in t.deleted : n \notin Below(E, t.parent, m)
  BY <1>1, <1>2, <1>3, SelectionShows
<1> HIDE DEF t, E
<1>6. \A n \in t.nodes : t.parent[n] \in t.nodes \cup {Root}
  BY <1>2, <1>3, <1>4
<1>7. ASSUME NEW U \in SUBSET t.nodes, U # {}
      PROVE  \E n \in U : t.parent[n] \notin U
  <2>1. U \in SUBSET nodes /\ Root \notin U
    BY <1>1, <1>2, <1>7, TreeAssumption
  <2>2. PICK n \in U : parent[n] \notin U
    BY <1>7, <2>1 DEF Rooted
  <2> QED
    BY <1>2, <1>3, <2>1, <2>2
<1>8. ASSUME NEW n \in t.nodes, t.parent[n] # Root
      PROVE  t.forum[n] = t.forum[t.parent[n]]
  <2>1. n \in E /\ t.parent[n] = parent[n] /\ parent[n] \in E /\ parent[n] # Root
    BY <1>2, <1>3, <1>4, <1>8
  <2>2. forum[n] = forum[parent[n]]
    BY <1>1, <2>1 DEF RepliesShareForum
  <2> QED
    BY <1>3, <2>1, <2>2
<1>9. \A n \in t.nodes : t.forum[n] \in NormalForums(t.forums)
  BY <1>1, <1>2, <1>3 DEF ForumsExist, NormalForums
<1>10. t.checked \subseteq t.tracked
  BY <1>2 DEF CheckedIsTracked
<1>11. GoodArchive(t)
  BY <1>2, <1>5, <1>6, <1>7, <1>8, <1>9, <1>10 DEF GoodArchive
<1> QED
  BY <1>11 DEF t

\* So can a backup (downloadAll).
LEMMA BackupGood ==
    ASSUME Shape
    PROVE  GoodArchive(Archived(nodes, parent))
<1> DEFINE t == Archived(nodes, parent)
<1> USE DEF Shape
<1>1. /\ t.nodes = nodes /\ t.deleted = deleted \cap nodes /\ t.forums = forums
      /\ t.checked = checked \cap nodes /\ t.tracked = tracked \cap nodes
      /\ t.parent = parent
      /\ t.forum = [n \in Node |-> IF n \in nodes THEN forum[n] ELSE General]
      /\ t.shown = {n \in nodes : Visible(n)}
  BY DEF Archived
<1>2. nodes \subseteq Node /\ deleted \subseteq nodes
  BY DEF TypeOK
<1>3. \A n \in nodes : t.forum[n] = forum[n]
  BY <1>1, <1>2
<1> HIDE DEF t
<1>4. \A n \in t.nodes : n \in t.shown <=> \A m \in t.deleted : n \notin Below(nodes, parent, m)
  BY <1>1, <1>2, SubtreeIsBelow DEF Visible
<1>5. \A n \in t.nodes : t.parent[n] \in t.nodes \cup {Root}
  BY <1>1 DEF Rooted
<1>6. \A n \in t.nodes : t.parent[n] # Root => t.forum[n] = t.forum[t.parent[n]]
  BY <1>1, <1>3, <1>5 DEF RepliesShareForum
<1>7. GoodArchive(t)
  BY <1>1, <1>3, <1>4, <1>5, <1>6
     DEF GoodArchive, Rooted, ForumsExist, NormalForums, CheckedIsTracked
<1> QED
  BY <1>7 DEF t

\* A kept archive changes nothing else.
LEMMA KeepShape ==
    ASSUME Shape, TypeOK', NEW t, GoodArchive(t), Keep(t)
    PROVE  Shape'
  BY DEF Keep, Shape, Rooted, RepliesShareForum, ForumsExist, CheckedIsTracked

\* The tree of an archive has the shape once it is normalised (normalizeTree).
LEMMA RestoreShape ==
    ASSUME Shape, TypeOK', NEW t \in archives, RestoreArchive(t)
    PROVE  Shape'
<1>1. ArchiveOK(t) /\ GoodArchive(t)
  BY DEF Shape, TypeOK
<1>2. Rooted'
  BY <1>1 DEF RestoreArchive, GoodArchive, Rooted
<1>3. RepliesShareForum' /\ ForumsExist' /\ General \in forums'
  BY <1>1 DEF RestoreArchive, GoodArchive, RepliesShareForum, ForumsExist, NormalForums
<1>4. CheckedIsTracked'
  BY <1>1 DEF RestoreArchive, GoodArchive, ArchiveOK, CheckedIsTracked
<1>5. \A u \in archives' : GoodArchive(u)
  BY DEF RestoreArchive, Shape
<1> QED
  BY <1>2, <1>3, <1>4, <1>5 DEF Shape

\* Requests that leave nodes, parents and forums alone.
LEMMA FlagShape ==
    ASSUME Shape, TypeOK', UNCHANGED <<nodes, parent, forum, forums, archives>>,
           CheckedIsTracked'
    PROVE  Shape'
  BY DEF Shape, Rooted, RepliesShareForum, ForumsExist

\* Every request keeps the shape.
THEOREM ShapeStep == Shape /\ [Next]_vars => Shape'
<1> SUFFICES ASSUME Shape, [Next]_vars
             PROVE  Shape'
  OBVIOUS
<1>0. TypeOK /\ TypeOK'
  BY TypeStep DEF Shape
<1>1. ASSUME NEW n \in Node, NEW f \in Forum, CreatePost(n, f)
      PROVE  Shape'
  BY <1>0, <1>1, AppendShape DEF CreatePost
<1>2. ASSUME NEW n \in Node, NEW p \in Node, NEW title \in BOOLEAN, NEW track \in BOOLEAN,
             CreateReply(n, p, title, track)
      PROVE  Shape'
  <2>1. p \in nodes /\ forum[p] \in forums
    BY <1>2 DEF CreateReply, Visible, Shape, ForumsExist
  <2> QED
    BY <1>0, <1>2, <2>1, AppendShape DEF CreateReply
<1>3. ASSUME NEW n \in Node, NEW title \in BOOLEAN, NEW track \in BOOLEAN,
             CreateUnderRootID(n, title, track)
      PROVE  Shape'
  BY <1>0, <1>3, AppendShape DEF CreateUnderRootID, Shape
<1>4. ASSUME NEW f \in Forum, CreateForum(f)
      PROVE  Shape'
  BY <1>0, <1>4
     DEF CreateForum, Shape, Rooted, RepliesShareForum, ForumsExist, CheckedIsTracked
<1>5. ASSUME NEW n \in Node, NEW p \in Node, MoveBeneath(n, p)
      PROVE  Shape'
  <2>1. p \in nodes \ Subtree(n) /\ forum[p] \in forums
    BY <1>5 DEF MoveBeneath, Visible, Shape, ForumsExist
  <2>2. CheckedIsTracked'
    BY <1>5 DEF MoveBeneath, Hang, Shape, CheckedIsTracked
  <2>3. archives' = archives
    BY <1>5 DEF MoveBeneath, Hang
  <2> QED
    BY <1>0, <1>5, <2>1, <2>2, <2>3, HangRooted, HangForums DEF MoveBeneath, Shape
<1>6. ASSUME NEW n \in Node, NEW f \in Forum, Promote(n, f)
      PROVE  Shape'
  <2>1. CheckedIsTracked'
    BY <1>6 DEF Promote, Hang, Shape, CheckedIsTracked
  <2>2. archives' = archives
    BY <1>6 DEF Promote, Hang
  <2> QED
    BY <1>0, <1>6, <2>1, <2>2, HangRooted, HangForums DEF Promote, Shape
<1>7. ASSUME NEW n \in Node, Delete(n) \/ Restore(n) \/ Toggle(n)
      PROVE  Shape'
  BY <1>0, <1>7, FlagShape DEF Delete, Restore, Toggle, With, Shape, CheckedIsTracked
<1>8. ASSUME NEW n \in Node, NEW title \in BOOLEAN, Edit(n, title)
      PROVE  Shape'
  BY <1>0, <1>8, FlagShape DEF Edit, Shape, CheckedIsTracked
<1>9. ASSUME NEW n \in Node, NEW status \in {"open", "done", "none"}, SetStatus(n, status)
      PROVE  Shape'
  <2>1. CheckedIsTracked'
    BY <1>9 DEF SetStatus, With, Shape, CheckedIsTracked
  <2> QED
    BY <1>0, <1>9, <2>1, FlagShape DEF SetStatus
<1>10. ASSUME NEW S \in SUBSET Node, NEW done \in BOOLEAN, BulkCheck(S, done)
       PROVE  Shape'
  BY <1>0, <1>10, FlagShape DEF BulkCheck, Shape, CheckedIsTracked
<1>11. ASSUME NEW S \in SUBSET Node, BulkDelete(S)
       PROVE  Shape'
  BY <1>0, <1>11, FlagShape DEF BulkDelete, Shape, CheckedIsTracked
<1>12. ASSUME NEW S \in SUBSET Node, Export(S) \/ Download
       PROVE  Shape'
  <2>1. CASE Export(S)
    BY <1>0, <2>1, SelectionGood, KeepShape DEF Export
  <2>2. CASE Download
    BY <1>0, <2>2, BackupGood, KeepShape DEF Download
  <2> QED
    BY <1>12, <2>1, <2>2
<1>13. ASSUME NEW t \in archives, RestoreArchive(t)
       PROVE  Shape'
  BY <1>0, <1>13, RestoreShape
<1>14. CASE UNCHANGED vars
  BY <1>0, <1>14, FlagShape DEF vars, Shape, CheckedIsTracked
<1> QED
  BY <1>1, <1>2, <1>3, <1>4, <1>5, <1>6, <1>7, <1>8, <1>9, <1>10, <1>11, <1>12, <1>13, <1>14
     DEF Next

\* The shape is kept for ever.
THEOREM ShapeInvariant == Spec => []Shape
  BY ShapeInit, ShapeStep, PTL DEF Spec

\* No sequence of moves loses a subtree: every node hangs from the root.
THEOREM AlwaysRooted == Spec => []Rooted
<1>1. Shape => Rooted
  BY DEF Shape
<1> QED
  BY <1>1, ShapeInvariant, PTL

\* A thread is in one forum, however it was moved, promoted, exported or restored.
THEOREM ThreadsKeepOneForum == Spec => []RepliesShareForum
<1>1. Shape => RepliesShareForum
  BY DEF Shape
<1> QED
  BY <1>1, ShapeInvariant, PTL

\* No node is in a forum that does not exist.
THEOREM NoForumIsMissing == Spec => []ForumsExist
<1>1. Shape => ForumsExist
  BY DEF Shape
<1> QED
  BY <1>1, ShapeInvariant, PTL

\* No node is done without having a status.
THEOREM DoneIsTracked == Spec => []CheckedIsTracked
<1>1. Shape => CheckedIsTracked
  BY DEF Shape
<1> QED
  BY <1>1, ShapeInvariant, PTL

----------------------------------------------------------------------------
(* Exports and visibility.                                                 *)

\* A selected node is below a selected node that no other selected node is above:
\* follow the parents until no selected node is left above.
LEMMA ExportTopExists ==
    ASSUME TypeOK, Rooted, NEW S \in SUBSET nodes, NEW n \in S
    PROVE  \E t \in ExportTop(S) : n \in Subtree(t)
<1> DEFINE U == {k \in nodes : n \in Subtree(k) /\ \E m \in S : k \in Subtree(m)}
<1>1. nodes \subseteq Node
  BY DEF TypeOK
<1>2. n \in U
  BY <1>1, BelowSelf, SubtreeIsBelow
<1>3. PICK k \in U : parent[k] \notin U
  <2> HIDE DEF U
  <2>1. U \in SUBSET nodes /\ U # {}
    BY <1>2 DEF U
  <2> QED
    BY <2>1 DEF Rooted
<1>4. ASSUME NEW m \in S, k \in Subtree(m), k # m
      PROVE  FALSE
  <2>1. parent[k] \in Subtree(m) /\ Subtree(m) \subseteq nodes
    BY <1>1, <1>4, BelowUp, BelowNodes, SubtreeIsBelow
  <2>2. k \in Subtree(parent[k])
    BY <1>1, <2>1, BelowSelf, BelowClosed, SubtreeIsBelow
  <2>3. n \in Subtree(parent[k])
    BY <1>1, <1>3, <2>1, <2>2, BelowTransitive, SubtreeIsBelow
  <2> QED
    BY <1>3, <2>1, <2>3
<1>5. k \in ExportTop(S)
  BY <1>3, <1>4 DEF ExportTop
<1> QED
  BY <1>3, <1>5

\* A selection is exported whole, and no node twice (selectedTaskExport).
LEMMA ExportExact == TypeOK /\ Rooted => ExportIsExact
<1> SUFFICES ASSUME TypeOK, Rooted, NEW S \in SUBSET {n \in nodes : Visible(n)}
             PROVE  /\ ExportNodes(S) = UNION {Subtree(n) : n \in S}
                    /\ \A m, n \in ExportTop(S) : m # n => Subtree(m) \cap Subtree(n) = {}
  BY DEF ExportIsExact
<1>1. nodes \subseteq Node /\ S \in SUBSET nodes
  BY DEF TypeOK
<1>2. ASSUME NEW n \in S, NEW x \in Subtree(n)
      PROVE  x \in ExportNodes(S)
  <2>1. PICK t \in ExportTop(S) : n \in Subtree(t)
    BY <1>1, ExportTopExists
  <2>2. x \in Subtree(t)
    BY <1>1, <2>1, BelowTransitive, SubtreeIsBelow DEF ExportTop
  <2> QED
    BY <2>1, <2>2 DEF ExportNodes
<1>3. ASSUME NEW m \in ExportTop(S), NEW n \in ExportTop(S), m # n,
             NEW x \in Subtree(m) \cap Subtree(n)
      PROVE  FALSE
  <2>1. m \in Subtree(n) \/ n \in Subtree(m)
    BY <1>1, BelowLinear, SubtreeIsBelow DEF ExportTop
  <2> QED
    BY <1>3, <2>1 DEF ExportTop
<1>4. ExportNodes(S) \subseteq UNION {Subtree(n) : n \in S}
  BY DEF ExportNodes, ExportTop
<1> QED
  BY <1>2, <1>3, <1>4

\* Whatever is selected, the export has each selected task and all of its replies
\* exactly once.
THEOREM ExportsAreExact == Spec => []ExportIsExact
<1>1. Shape => ExportIsExact
  BY ExportExact DEF Shape
<1> QED
  BY <1>1, ShapeInvariant, PTL

\* An archive that is restored shows what was visible when it was made, and nothing
\* else.
LEMMA RestoreShows ==
    ASSUME Shape, NEW t \in archives, RestoreArchive(t), NEW n \in nodes'
    PROVE  Visible(n)' <=> n \in t.shown
<1>1. GoodArchive(t)
  BY DEF Shape
<1>2. nodes' = t.nodes /\ parent' = t.parent /\ deleted' = t.deleted
  BY DEF RestoreArchive
<1>3. Visible(n)' <=> \A m \in t.deleted : n \notin Below(t.nodes, t.parent, m)
  BY <1>2, SubtreeIsBelow DEF Visible
<1> QED
  BY <1>1, <1>2, <1>3 DEF GoodArchive

\* What a request may reveal: something below a node that it restores or moves.
Revealed(n) ==
    \E m \in nodes : n \in Subtree(m) /\ (m \in deleted \ deleted' \/ parent'[m] # parent[m])

\* A hidden node is below a deleted one.
LEMMA HiddenBelow ==
    ASSUME NEW n \in nodes, ~Visible(n)
    PROVE  \E m \in deleted : n \in Subtree(m)
  BY DEF Visible

\* Requests that change flags only reveal by restoring.
LEMMA FlagReveals ==
    ASSUME TypeOK, NEW n \in nodes, ~Visible(n), Visible(n)',
           UNCHANGED <<nodes, parent>>
    PROVE  Revealed(n)
<1>1. PICK m \in deleted : n \in Subtree(m)
  BY HiddenBelow
<1>2. Subtree(m)' = Subtree(m)
  BY DEF Subtree
<1> QED
  BY <1>1, <1>2 DEF Revealed, Visible, TypeOK

\* A new leaf reveals nothing.
LEMMA AppendReveals ==
    ASSUME TypeOK, TypeOK', NEW n \in nodes, ~Visible(n),
           NEW x, NEW p, NEW f, NEW title, NEW track, Append(x, p, f, title, track)
    PROVE  ~Visible(n)'
<1>1. PICK m \in deleted : n \in Subtree(m)
  BY HiddenBelow
<1>2. m \in Node /\ m \in nodes /\ nodes \in SUBSET Node /\ nodes' \in SUBSET Node
  BY DEF TypeOK
<1>3. \A k \in nodes : k \in nodes' /\ parent'[k] = parent[k]
  BY DEF Append, TypeOK
<1>4. Below(nodes, parent, m) \subseteq nodes
  BY <1>2, BelowNodes
<1>5. Below(nodes, parent, m) \subseteq Below(nodes', parent', m)
  BY <1>2, <1>3, <1>4, BelowKept
<1> QED
  BY <1>1, <1>5, SubtreeIsBelow DEF Visible, Append

\* A move reveals only what it takes along.
LEMMA HangReveals ==
    ASSUME TypeOK, TypeOK', NEW n \in nodes, ~Visible(n), Visible(n)',
           NEW x \in Node, NEW p, NEW f, Hang(x, p, f)
    PROVE  Revealed(n)
<1>1. PICK m \in deleted : n \in Subtree(m)
  BY HiddenBelow
<1>2. m \in Node /\ x \in nodes /\ nodes' = nodes /\ deleted' = deleted /\ nodes \in SUBSET Node
  BY DEF Hang, TypeOK
<1>3. n \notin Below(nodes, parent', m)
  BY <1>1, <1>2, SubtreeIsBelow DEF Visible
<1>4. n \in Below(nodes, parent, m)
  BY <1>1, SubtreeIsBelow
<1>5. \A k \in nodes \ {x} : parent'[k] = parent[k]
  BY <1>2 DEF Hang, TypeOK
<1>6. n \in Subtree(x)
  <2> DEFINE D == Below(nodes, parent', m) \cup Below(nodes, parent, x)
  <2>1. D \in SUBSET Node /\ m \in D
    BY <1>2, BelowSelf
  <2>2. ASSUME NEW k \in nodes, parent[k] \in D
        PROVE  k \in D
    <3>1. CASE parent[k] \in Below(nodes, parent, x) \/ k = x
      BY <1>2, <3>1, BelowClosed, BelowSelf
    <3>2. CASE parent[k] \in Below(nodes, parent', m) /\ k # x
      BY <1>2, <1>5, <3>2, BelowClosed
    <3> QED
      BY <2>2, <3>1, <3>2
  <2> HIDE DEF D
  <2>3. Below(nodes, parent, m) \subseteq D
    BY <1>2, <2>1, <2>2, BelowLeast
  <2> QED
    BY <1>3, <1>4, <2>3, SubtreeIsBelow DEF D
<1>7. parent'[x] # parent[x]
  <2> SUFFICES ASSUME parent'[x] = parent[x]
               PROVE  FALSE
    OBVIOUS
  <2>1. Below(nodes, parent, m) \subseteq nodes
    BY <1>1, <1>2, BelowNodes DEF TypeOK
  <2>2. Below(nodes, parent, m) \subseteq Below(nodes, parent', m)
    BY <1>2, <1>5, <2>1, BelowKept
  <2> QED
    BY <1>3, <1>4, <2>2
<1> QED
  BY <1>2, <1>6, <1>7 DEF Revealed

\* What is hidden is revealed by restoring or moving it, or something above it,
\* and by no other request.
LEMMA StepReveals ==
    ASSUME TypeOK, [Next]_vars, ~Replaced,
           NEW n \in nodes \cap nodes', ~Visible(n), Visible(n)'
    PROVE  Revealed(n)
<1>0. TypeOK'
  BY TypeStep
<1>1. ASSUME NEW x \in Node, NEW f \in Forum, CreatePost(x, f)
      PROVE  Revealed(n)
  BY <1>0, <1>1, AppendReveals DEF CreatePost
<1>2. ASSUME NEW x \in Node, NEW p \in Node, NEW title \in BOOLEAN, NEW track \in BOOLEAN,
             CreateReply(x, p, title, track)
      PROVE  Revealed(n)
  BY <1>0, <1>2, AppendReveals DEF CreateReply
<1>3. ASSUME NEW x \in Node, NEW title \in BOOLEAN, NEW track \in BOOLEAN,
             CreateUnderRootID(x, title, track)
      PROVE  Revealed(n)
  BY <1>0, <1>3, AppendReveals DEF CreateUnderRootID
<1>4. ASSUME NEW x \in Node, NEW p \in Node, MoveBeneath(x, p)
      PROVE  Revealed(n)
  BY <1>0, <1>4, HangReveals DEF MoveBeneath
<1>5. ASSUME NEW x \in Node, NEW f \in Forum, Promote(x, f)
      PROVE  Revealed(n)
  BY <1>0, <1>5, HangReveals DEF Promote
<1>6. CASE UNCHANGED <<nodes, parent>>
  BY <1>6, FlagReveals
<1> QED
  BY <1>1, <1>2, <1>3, <1>4, <1>5, <1>6
     DEF Next, CreateForum, Delete, Restore, Toggle, Edit, SetStatus,
         BulkCheck, BulkDelete, Export, Download, Keep, Replaced, vars

\* Deleted posts and what replies to them stay out of sight until the deleted page
\* restores them, a request moves them out, or an archive from before the deletion
\* is restored; no export has them.
THEOREM DeletedStaysHidden == Spec => HiddenUntilRestored
<1>1. ASSUME Shape, [Next]_vars, NEW n \in nodes \cap nodes', ~Visible(n), Visible(n)'
      PROVE  IF Replaced
             THEN \E t \in archives : RestoreArchive(t) /\ n \in t.shown
             ELSE Revealed(n)
  <2>1. CASE Replaced
    <3>1. PICK t \in archives : RestoreArchive(t)
      BY <2>1 DEF Replaced
    <3>2. n \in t.shown
      BY <1>1, <3>1, RestoreShows
    <3> QED
      BY <2>1, <3>1, <3>2
  <2>2. CASE ~Replaced
    BY <1>1, <2>2, StepReveals DEF Shape
  <2> QED
    BY <2>1, <2>2
<1>2. Shape /\ [Next]_vars =>
        [\A n \in nodes \cap nodes' : ~Visible(n) /\ Visible(n)' =>
            IF Replaced
            THEN \E t \in archives : RestoreArchive(t) /\ n \in t.shown
            ELSE \E m \in nodes :
                    n \in Subtree(m) /\ (m \in deleted \ deleted' \/ parent'[m] # parent[m])]_vars
  BY <1>1 DEF Revealed
<1> QED
  BY <1>2, ShapeInvariant, PTL DEF Spec, HiddenUntilRestored

----------------------------------------------------------------------------
(* Titles.                                                                 *)

\* Only a post made with the root's ID as parent, or brought in by a restore, can be
\* untitled at the top level.
THEOREM TitlesAreKept == Spec => TitlesStay
<1>1. ASSUME Shape, [Next]_vars, ~Replaced, NEW n \in nodes \ titled', parent'[n] = Root
      PROVE  parent[n] = Root /\ n \notin titled
  <2>0. TypeOK /\ Rooted /\ n \in Node
    BY <1>1 DEF Shape, TypeOK
  <2>1. ASSUME NEW x, NEW p, NEW f, NEW title, NEW track, Append(x, p, f, title, track)
        PROVE  parent[n] = Root /\ n \notin titled
    BY <1>1, <2>0, <2>1 DEF Append, With, TypeOK
  <2>2. ASSUME NEW x \in Node, NEW p \in Node, MoveBeneath(x, p)
        PROVE  parent[n] = Root /\ n \notin titled
    <3>1. n # x
      BY <1>1, <2>0, <2>2, TreeAssumption DEF MoveBeneath, Hang, TypeOK
    <3> QED
      BY <1>1, <2>0, <2>2, <3>1 DEF MoveBeneath, Hang, TypeOK
  <2>3. ASSUME NEW x \in Node, NEW f \in Forum, Promote(x, f)
        PROVE  parent[n] = Root /\ n \notin titled
    BY <1>1, <2>0, <2>3 DEF Promote, Hang, TypeOK
  <2>4. ASSUME NEW x \in Node, NEW title \in BOOLEAN, Edit(x, title)
        PROVE  parent[n] = Root /\ n \notin titled
    BY <1>1, <2>4 DEF Edit, With
  <2>5. CASE UNCHANGED <<nodes, parent, titled>>
    BY <1>1, <2>5
  <2> QED
    BY <1>1, <2>1, <2>2, <2>3, <2>4, <2>5
       DEF Next, CreatePost, CreateReply, CreateUnderRootID, CreateForum, Delete, Restore,
           Toggle, SetStatus, BulkCheck, BulkDelete, Export, Download, Keep, Replaced, vars
<1>2. Shape /\ [Next]_vars =>
        [~Replaced =>
            \A n \in nodes \ titled' :
                parent'[n] = Root => parent[n] = Root /\ n \notin titled]_vars
  BY <1>1
<1> QED
  BY <1>2, ShapeInvariant, PTL DEF Spec, TitlesStay

----------------------------------------------------------------------------
(* Pages: what they show is what the requests accept.  The walks are       *)
(* compared by closed sets (what a walk down reaches is in every set       *)
(* closed under it) and, the other way, by the topmost node a walk would   *)
(* miss, which Rooted provides.                                            *)

----------------------------------------------------------------------------
(* The walk down from T.                                                   *)

\* A page shows the nodes it starts with ...
LEMMA ShownStart ==
    ASSUME NEW T \in SUBSET Node
    PROVE  T \subseteq Shown(T) /\ Shown(T) \in SUBSET Node
  BY DEF Shown

\* ... the visible children of what it shows ...
LEMMA ShownClosed ==
    ASSUME TypeOK, NEW T \in SUBSET Node, NEW k \in nodes \ deleted, parent[k] \in Shown(T)
    PROVE  k \in Shown(T)
  BY DEF Shown, TypeOK

\* ... and nothing else.
LEMMA ShownLeast ==
    ASSUME NEW T \in SUBSET Node, NEW D \in SUBSET Node, T \subseteq D,
           \A k \in nodes \ deleted : parent[k] \in D => k \in D
    PROVE  Shown(T) \subseteq D
  BY DEF Shown

----------------------------------------------------------------------------
(* Walking up and walking down.                                            *)

Seen == {n \in nodes : Visible(n)}

\* visibleTaskChain passes a node exactly when it is not deleted and what it
\* replies to passes.
LEMMA VisibleStep ==
    ASSUME TypeOK, Rooted, NEW n \in nodes
    PROVE  Visible(n) <=> n \notin deleted /\ (parent[n] # Root => Visible(parent[n]))
<1>1. nodes \in SUBSET Node /\ deleted \subseteq nodes /\ n \in Node
  BY DEF TypeOK
<1>2. n \in Subtree(n)
  BY <1>1, BelowSelf, SubtreeIsBelow
<1>3. parent[n] # Root => parent[n] \in nodes
  BY DEF Rooted
<1>4. ASSUME Visible(n), parent[n] # Root
      PROVE  Visible(parent[n])
  <2>1. \A m \in deleted : parent[n] \notin Subtree(m)
    BY <1>1, <1>4, BelowClosed, SubtreeIsBelow DEF Visible
  <2> QED
    BY <1>3, <1>4, <2>1 DEF Visible
<1>5. ASSUME n \notin deleted, parent[n] # Root => Visible(parent[n]), NEW m \in deleted,
             n \in Subtree(m)
      PROVE  FALSE
  <2>1. parent[n] \in Subtree(m)
    BY <1>1, <1>5, BelowUp, SubtreeIsBelow
  <2>2. parent[n] # Root
    BY <2>1, TreeAssumption DEF Subtree, Below
  <2> QED
    BY <1>5, <2>1, <2>2 DEF Visible
<1> QED
  BY <1>2, <1>4, <1>5 DEF Visible

\* Whatever a page starts with that is visible, all that it shows is visible.
LEMMA ShownIsSeen ==
    ASSUME TypeOK, Rooted, NEW T \in SUBSET Seen
    PROVE  Shown(T) \subseteq Seen
<1>1. Seen \in SUBSET Node /\ T \in SUBSET Node
  BY DEF Seen, TypeOK
<1>2. ASSUME NEW k \in nodes \ deleted, parent[k] \in Seen
      PROVE  k \in Seen
  BY <1>2, VisibleStep DEF Seen
<1> QED
  BY <1>1, <1>2, ShownLeast

\* The top level is visible.
LEMMA TopIsSeen ==
    ASSUME TypeOK, Rooted
    PROVE  TopLevel \subseteq Seen
  BY VisibleStep DEF TopLevel, Seen

\* The page of a forum shows what is visible in it: the topmost visible node that
\* it missed would be a post of the forum, or a reply to a node it shows.
LEMMA ForumPageIs ==
    ASSUME TypeOK, Rooted, RepliesShareForum, NEW f
    PROVE  ForumPage(f) = {n \in Seen : forum[n] = f}
<1> DEFINE T == {n \in TopLevel : forum[n] = f}
           D == {n \in Seen : forum[n] = f}
<1>1. T \in SUBSET D /\ D \in SUBSET Node /\ T \in SUBSET Node
  BY TopIsSeen DEF Seen, TypeOK
<1>2. ASSUME NEW k \in nodes \ deleted, parent[k] \in D
      PROVE  k \in D
  <2>1. parent[k] \in nodes /\ parent[k] # Root /\ Visible(parent[k]) /\ forum[parent[k]] = f
    BY <1>2, TreeAssumption DEF Seen, TypeOK
  <2> QED
    BY <2>1, VisibleStep DEF RepliesShareForum, Seen
<1>3. Shown(T) \subseteq D
  <2> HIDE DEF T, D
  <2> QED
    BY <1>1, <1>2, ShownLeast
<1>4. ASSUME D \ Shown(T) # {}
      PROVE  FALSE
  <2>1. D \ Shown(T) \in SUBSET nodes
    BY DEF Seen
  <2>2. PICK k \in D \ Shown(T) : parent[k] \notin D \ Shown(T)
    <3> HIDE DEF D, T
    <3> QED
      BY <1>4, <2>1 DEF Rooted
  <2>3. k \in nodes \ deleted /\ (parent[k] # Root => Visible(parent[k])) /\ forum[k] = f
    BY VisibleStep DEF Seen
  <2>4. CASE parent[k] = Root
    <3>1. k \in T
      BY <2>3, <2>4 DEF TopLevel
    <3> QED
      BY <1>1, <2>2, <3>1, ShownStart
  <2>5. CASE parent[k] # Root
    <3>1. parent[k] \in D
      BY <2>3, <2>5 DEF Rooted, RepliesShareForum, Seen
    <3>2. parent[k] \in Shown(T)
      BY <2>2, <3>1
    <3> HIDE DEF T, D
    <3> QED
      BY <1>1, <2>2, <2>3, <3>2, ShownClosed
  <2> QED
    BY <2>4, <2>5
<1> QED
  BY <1>3, <1>4 DEF ForumPage

\* Every node is on the page of its forum as long as it is visible.
LEMMA ForumPages == Shape => OnItsForumsPage
<1> SUFFICES ASSUME Shape, NEW n \in nodes
             PROVE  {f \in forums : n \in ForumPage(f)} =
                        IF Visible(n) THEN {forum[n]} ELSE {}
  BY DEF OnItsForumsPage
<1>1. \A f : n \in ForumPage(f) <=> Visible(n) /\ forum[n] = f
  BY ForumPageIs DEF Shape, Seen
<1> QED
  BY <1>1 DEF Shape, ForumsExist

\* The search page is the forum pages together.
LEMMA SearchPageIs ==
    ASSUME Shape
    PROVE  SearchPage = Seen
<1> USE DEF Shape
<1>1. TopLevel \in SUBSET Node
  BY DEF TopLevel, TypeOK
<1>2. SearchPage \subseteq Seen
  BY TopIsSeen, ShownIsSeen DEF SearchPage
<1>3. ASSUME NEW n \in Seen
      PROVE  n \in SearchPage
  <2> DEFINE T == {k \in TopLevel : forum[k] = forum[n]}
  <2>1. n \in Shown(T)
    BY ForumPageIs DEF ForumPage
  <2>2. T \in SUBSET Node /\ T \subseteq Shown(TopLevel) /\ Shown(TopLevel) \in SUBSET Node
    BY <1>1, ShownStart
  <2>3. \A k \in nodes \ deleted : parent[k] \in Shown(TopLevel) => k \in Shown(TopLevel)
    BY <1>1, ShownClosed
  <2> HIDE DEF T
  <2>4. Shown(T) \subseteq Shown(TopLevel)
    BY <2>2, <2>3, ShownLeast
  <2> QED
    BY <2>1, <2>4 DEF SearchPage
<1> QED
  BY <1>2, <1>3

\* The page of a node shows all that is visible below it.
LEMMA DetailPageIs ==
    ASSUME Shape, NEW n \in Seen
    PROVE  DetailPage(n) = Subtree(n) \cap Seen
<1> USE DEF Shape
<1>1. /\ n \in nodes /\ Visible(n) /\ nodes \in SUBSET Node /\ n \in Node
      /\ DetailPage(n) = Shown({n})
  BY DEF Seen, TypeOK, DetailPage
<1>2. {n} \in SUBSET Seen /\ {n} \in SUBSET Node /\ n \in Shown({n})
  BY <1>1, ShownStart
<1>3. Shown({n}) \subseteq Seen
  BY <1>2, ShownIsSeen
<1>4. Shown({n}) \subseteq Subtree(n)
  <2>1. Subtree(n) \in SUBSET Node /\ {n} \subseteq Subtree(n)
    BY <1>1, BelowSelf, SubtreeIsBelow
  <2>2. \A k \in nodes \ deleted : parent[k] \in Subtree(n) => k \in Subtree(n)
    BY <1>1, BelowClosed, SubtreeIsBelow
  <2> QED
    BY <1>2, <2>1, <2>2, ShownLeast
<1>5. ASSUME (Subtree(n) \cap Seen) \ Shown({n}) # {}
      PROVE  FALSE
  <2> DEFINE U == (Subtree(n) \cap Seen) \ Shown({n})
  <2>1. PICK k \in U : parent[k] \notin U
    <3>1. U \in SUBSET nodes
      BY DEF Seen
    <3> HIDE DEF U
    <3> QED
      BY <1>5, <3>1 DEF Rooted, U
  <2>2. k # n /\ k \in nodes
    BY <1>2 DEF Seen
  <2>3. parent[k] \in Subtree(n)
    BY <1>1, <2>2, BelowUp, SubtreeIsBelow
  <2>4. parent[k] # Root
    BY <2>3, TreeAssumption DEF Subtree, Below
  <2>5. k \notin deleted /\ parent[k] \in Seen
    BY <2>2, <2>4, VisibleStep DEF Seen, Visible
  <2>6. parent[k] \in Shown({n})
    BY <2>1, <2>3, <2>5
  <2> QED
    BY <1>2, <2>2, <2>5, <2>6, ShownClosed
<1> QED
  BY <1>1, <1>3, <1>4, <1>5

\* What can be selected is what a bulk action accepts.
LEMMA WalksDo == Shape => WalksAgree
  BY SearchPageIs, DetailPageIs DEF WalksAgree, Seen

\* The walk of the deleted page reaches every node: the topmost one that it missed
\* would hang from the root or from a node it reached.
LEMMA DeletedPageIs ==
    ASSUME Shape, NEW m \in deleted
    PROVE  m \in DeletedPage
<1> USE DEF Shape
<1>1. SUFFICES ASSUME NEW D \in SUBSET Node, m \notin D,
                      \A k \in nodes : parent[k] \in D \cup {Root} => k \in D
               PROVE  FALSE
  BY DEF DeletedPage
<1>2. nodes \ D # {} /\ nodes \ D \in SUBSET nodes
  BY <1>1 DEF TypeOK
<1>3. PICK k \in nodes \ D : parent[k] \notin nodes \ D
  BY <1>2 DEF Rooted
<1> QED
  BY <1>1, <1>3 DEF Rooted

----------------------------------------------------------------------------

\* In every workspace the requests can build, a visible node is on the page of its
\* forum and of no other.
THEOREM EveryNodeHasItsPage == Spec => []OnItsForumsPage
  BY ForumPages, ShapeInvariant, PTL

\* Pages and requests agree on what is visible.
THEOREM PagesAgree == Spec => []WalksAgree
  BY WalksDo, ShapeInvariant, PTL

\* Nothing deleted is out of reach of the deleted page.
THEOREM NothingIsLost == Spec => []HiddenIsRestorable
<1>1. Shape => HiddenIsRestorable
  BY DeletedPageIs DEF HiddenIsRestorable
<1> QED
  BY <1>1, ShapeInvariant, PTL

----------------------------------------------------------------------------
(* What hides a node.                                                      *)

\* Why n may be out of sight after a step.
Excused(n) ==
    \/ n \in nodes /\ ~Visible(n)
    \/ \E m \in deleted' \ deleted : n \in Subtree(m)'

\* Where nothing gets below the nodes that were deleted before, only a deletion
\* hides.
LEMMA OldDeletions ==
    ASSUME NEW n \in nodes', ~Visible(n)',
           \A m \in deleted \cap deleted' : n \in Subtree(m)' => n \in nodes /\ n \in Subtree(m)
    PROVE  Excused(n)
<1>1. PICK m \in deleted' : n \in Subtree(m)'
  BY DEF Visible
<1>2. CASE m \in deleted
  BY <1>1, <1>2 DEF Excused, Visible
<1>3. CASE m \notin deleted
  BY <1>1, <1>3 DEF Excused
<1> QED
  BY <1>2, <1>3

\* A new reply is as visible as what it replies to.
LEMMA AppendHides ==
    ASSUME TypeOK, Rooted, NEW x, NEW p, NEW f, NEW title, NEW track,
           Append(x, p, f, title, track), p = Root \/ Visible(p),
           NEW n \in nodes', ~Visible(n)'
    PROVE  Excused(n)
<1>1. x \in Node \ nodes /\ nodes' = nodes \cup {x} /\ nodes' \in SUBSET Node
      /\ nodes \in SUBSET Node /\ deleted \subseteq nodes /\ deleted' = deleted
  BY DEF Append, TypeOK
<1>2. parent'[x] = p /\ \A k \in nodes : parent'[k] = parent[k] /\ parent[k] # x
  BY <1>1, TreeAssumption DEF Append, TypeOK, Rooted
<1>3. ASSUME NEW m \in deleted, n \in Subtree(m)'
      PROVE  n \in nodes /\ n \in Subtree(m)
  <2> DEFINE D == Below(nodes, parent, m)
  <2>1. m \in Node /\ D \in SUBSET Node /\ m \in D /\ D = Subtree(m)
    BY <1>1, BelowSelf, SubtreeIsBelow
  <2>2. p \notin D /\ p # x
    BY <1>1, <2>1, TreeAssumption DEF Visible
  <2>3. ASSUME NEW k \in nodes', parent'[k] \in D
        PROVE  k \in D
    <3>1. k \in nodes /\ parent[k] \in D
      BY <1>1, <1>2, <2>2, <2>3
    <3> QED
      BY <1>1, <2>1, <3>1, BelowClosed
  <2>4. D \subseteq nodes
    BY <1>1, BelowNodes
  <2> HIDE DEF D
  <2>5. Below(nodes', parent', m) \subseteq D
    BY <2>1, <2>3, BelowLeast
  <2> QED
    BY <1>3, <2>1, <2>4, <2>5, SubtreeIsBelow
<1> QED
  BY <1>3, OldDeletions

\* A node that is moved to a visible place takes its thread there.
LEMMA HangHides ==
    ASSUME TypeOK, NEW x \in Node, NEW p, NEW f, Hang(x, p, f), p = Root \/ Visible(p),
           NEW n \in nodes', ~Visible(n)'
    PROVE  Excused(n)
<1>1. x \in nodes /\ nodes' = nodes /\ nodes \in SUBSET Node /\ deleted' = deleted
      /\ deleted \subseteq nodes
  BY DEF Hang, TypeOK
<1>2. parent'[x] = p /\ \A k \in nodes \ {x} : parent'[k] = parent[k]
  BY <1>1 DEF Hang, TypeOK
<1>3. ASSUME NEW m \in deleted, n \in Subtree(m)'
      PROVE  n \in nodes /\ n \in Subtree(m)
  <2> DEFINE D == Below(nodes, parent, m)
  <2>1. m \in Node /\ D \in SUBSET Node /\ m \in D /\ D = Subtree(m)
    BY <1>1, BelowSelf, SubtreeIsBelow
  <2>2. p \notin D
    BY <2>1, TreeAssumption DEF Visible
  <2>3. ASSUME NEW k \in nodes', parent'[k] \in D
        PROVE  k \in D
    <3>1. k \in nodes /\ parent[k] \in D
      BY <1>1, <1>2, <2>2, <2>3
    <3> QED
      BY <1>1, <2>1, <3>1, BelowClosed
  <2> HIDE DEF D
  <2>4. Below(nodes', parent', m) \subseteq D
    BY <2>1, <2>3, BelowLeast
  <2> QED
    BY <1>1, <1>3, <2>1, <2>4, SubtreeIsBelow
<1> QED
  BY <1>3, OldDeletions

\* No request but a deletion hides a node.
LEMMA StepHides ==
    ASSUME Shape, [Next]_vars, ~Replaced, NEW n \in nodes', ~Visible(n)'
    PROVE  Excused(n)
<1>0. TypeOK /\ Rooted
  BY DEF Shape
<1>1. ASSUME NEW x \in Node, NEW f \in Forum, CreatePost(x, f)
      PROVE  Excused(n)
  BY <1>0, <1>1, AppendHides DEF CreatePost
<1>2. ASSUME NEW x \in Node, NEW p \in Node, NEW title \in BOOLEAN, NEW track \in BOOLEAN,
             CreateReply(x, p, title, track)
      PROVE  Excused(n)
  BY <1>0, <1>2, AppendHides DEF CreateReply
<1>3. ASSUME NEW x \in Node, NEW title \in BOOLEAN, NEW track \in BOOLEAN,
             CreateUnderRootID(x, title, track)
      PROVE  Excused(n)
  BY <1>0, <1>3, AppendHides DEF CreateUnderRootID
<1>4. ASSUME NEW x \in Node, NEW p \in Node, MoveBeneath(x, p)
      PROVE  Excused(n)
  BY <1>0, <1>4, HangHides DEF MoveBeneath
<1>5. ASSUME NEW x \in Node, NEW f \in Forum, Promote(x, f)
      PROVE  Excused(n)
  BY <1>0, <1>5, HangHides DEF Promote
<1>6. CASE UNCHANGED <<nodes, parent>>
  <2>1. \A m : Subtree(m)' = Subtree(m)
    BY <1>6 DEF Subtree
  <2> QED
    BY <1>6, <2>1, OldDeletions
<1> QED
  BY <1>1, <1>2, <1>3, <1>4, <1>5, <1>6
     DEF Next, CreateForum, Delete, Restore, Toggle, Edit, SetStatus,
         BulkCheck, BulkDelete, Export, Download, Keep, Replaced, vars

\* No move, edit or reply takes a node out of sight, and no archive takes out of sight
\* what was visible when it was made.
THEOREM OnlyDeletionsHide == Spec => OnlyDeletionHides
<1>1. ASSUME Shape, [Next]_vars, NEW n \in nodes', ~Visible(n)'
      PROVE  IF Replaced
             THEN \E t \in archives : RestoreArchive(t) /\ n \notin t.shown
             ELSE Excused(n)
  <2>1. CASE Replaced
    <3>1. PICK t \in archives : RestoreArchive(t)
      BY <2>1 DEF Replaced
    <3>2. n \notin t.shown
      BY <1>1, <3>1, RestoreShows
    <3> QED
      BY <2>1, <3>1, <3>2
  <2>2. CASE ~Replaced
    BY <1>1, <2>2, StepHides
  <2> QED
    BY <2>1, <2>2
<1>2. Shape /\ [Next]_vars =>
        [\A n \in nodes' : ~Visible(n)' =>
            IF Replaced
            THEN \E t \in archives : RestoreArchive(t) /\ n \notin t.shown
            ELSE \/ n \in nodes /\ ~Visible(n)
                 \/ \E m \in deleted' \ deleted : n \in Subtree(m)']_vars
  BY <1>1 DEF Excused
<1> QED
  BY <1>2, ShapeInvariant, PTL DEF Spec, OnlyDeletionHides
=============================================================================
