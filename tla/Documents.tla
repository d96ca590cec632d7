----------------------------- MODULE Documents -----------------------------
(***************************************************************************)
(* Attached documents and their revisions (src/views.go: docTrail and      *)
(* buildDocumentHistory; the attach handlers).  A document may replace an  *)
(* earlier one.  The page of a node shows the documents in effect there,   *)
(* which it works out along the path from the root; the history page of a  *)
(* document follows the links wherever they lead.                          *)
(*                                                                         *)
(* All nodes are there from the start, at the top level; a node that a     *)
(* restore has dropped is one without documents.  An attach request with   *)
(* several files is several Attach steps.  Documents keep their IDs for    *)
(* ever (newTaskID); backups made by hand are not modelled.                *)
(***************************************************************************)
EXTENDS Naturals, FiniteSets, SequencesExt

CONSTANTS
    Node,    \* nodes below the root
    Root,    \* the root, which may carry documents too
    Doc,     \* attachment IDs
    None     \* no document

ASSUME DocumentsAssumption ==
    /\ Root \notin Node
    /\ None \notin Doc

VARIABLES
    parent,    \* parent[n]: where n hangs
    deleted,   \* the nodes with Deleted
    docs,      \* docs[n]: the Attachments of n, in order
    replaces   \* replaces[d]: Replaces of d, for every d attached so far

vars == <<parent, deleted, docs, replaces>>

Place == Node \cup {Root}

\* m[x] = v, for a map m.
Put(m, x, v) == [y \in DOMAIN m \cup {x} |-> IF y = x THEN v ELSE m[y]]

\* FindTaskChain: n and what it replies to, without the root.
Up[n \in Place] == IF n = Root THEN {} ELSE {n} \cup Up[parent[n]]

\* visibleTaskChain
Visible(n) == Up[n] \cap deleted = {}

\* findAttachment: anywhere in the tree, also on a deleted node.
Attached == {d \in Doc : \E n \in Place : d \in ToSet(docs[n])}

Init ==
    /\ parent = [n \in Node |-> Root]
    /\ deleted = {}
    /\ docs = [n \in Place |-> <<>>]
    /\ replaces = [d \in {} |-> None]

----------------------------------------------------------------------------
(* Requests.                                                               *)

\* Variant for a mutant: a record may be added again.
Attach_Again(n, d, r) ==
    /\ Visible(n)
    /\ r \in Attached \cup {None}
    /\ docs' = [docs EXCEPT ![n] = Append(@, d)]
    /\ replaces' = Put(replaces, d, r)
    /\ UNCHANGED <<parent, deleted>>

\* attachDocument, apiAttachDocument, addWaypoint: a new document, which may
\* replace any document of the tree.
Attach(n, d, r) ==
    /\ Visible(n)
    /\ d \notin DOMAIN replaces
    /\ r \in Attached \cup {None}
    /\ docs' = [docs EXCEPT ![n] = Append(@, d)]
    /\ replaces' = Put(replaces, d, r)
    /\ UNCHANGED <<parent, deleted>>

\* moveTask
Move(n, p) ==
    /\ n \notin deleted
    /\ Visible(p) /\ n \notin Up[p]
    /\ parent' = [parent EXCEPT ![n] = p]
    /\ UNCHANGED <<deleted, docs, replaces>>

\* deleteWaypoint, restoreWaypoint
Hide(n) ==
    /\ \/ Visible(n) /\ deleted' = deleted \cup {n}
       \/ n \in deleted /\ deleted' = deleted \ {n}
    /\ UNCHANGED <<parent, docs, replaces>>

\* selectedTaskExport of one node, restored: only its subtree is left, and a
\* document of it may replace one that is gone.
\* (Restored later, or from a full backup, it is a tree of before, in which nothing
\* replaces a document attached since: to the invariants below, a tree without them.)
RestoreExport(n) ==
    LET kept == {m \in Node : n \in Up[m]}
    IN  /\ Visible(n)
        /\ parent' = [m \in Node |-> IF m \in kept \ {n} THEN parent[m] ELSE Root]
        /\ deleted' = deleted \cap kept
        /\ docs' = [m \in Place |-> IF m \in kept THEN docs[m] ELSE <<>>]
        /\ UNCHANGED replaces

----------------------------------------------------------------------------
(* The documents in effect: docTrail.                                      *)

NoTrail == [roots |-> [d \in {} |-> None],      \* the family of a document
            counts |-> [d \in {} |-> 0],        \* how many a family has so far
            current |-> [d \in {} |-> None]]    \* its last one, as documentNode shows it

\* counts[x], which is zero for a family that is not in the map.
Count(t, x) == IF x \in DOMAIN t.counts THEN t.counts[x] ELSE 0

\* Variant for a mutant: versions are counted by document, not by family.
Enter_PerDocument(t, d, root) ==
    LET version == Count(t, d) + 1
    IN  [roots   |-> Put(t.roots, d, root),
         counts  |-> Put(t.counts, d, version),
         current |-> Put(t.current, root, [doc |-> d, version |-> version])]

\* The trail after one more document, whose family is known by its root.
Enter(t, d, root) ==
    LET version == Count(t, root) + 1
    IN  [roots   |-> Put(t.roots, d, root),
         counts  |-> Put(t.counts, root, version),
         current |-> Put(t.current, root, [doc |-> d, version |-> version])]

\* Variant for a mutant: the family is known by the document replaced.
AddDoc_Direct(t, d, r) == Enter(t, d, IF r \in DOMAIN t.roots THEN r ELSE d)

\* Variant for a mutant: a document that replaces nothing is in the family of "".
AddDoc_Unset(t, d, r) == Enter(t, d, IF r \in DOMAIN t.roots THEN t.roots[r] ELSE r)

\* docTrail.add, for one attachment d with Replaces r.
AddDoc(t, d, r) == Enter(t, d, IF r \in DOMAIN t.roots THEN t.roots[r] ELSE d)

\* The documents on the path to n, from the root down.
Path[n \in Place] == IF n = Root THEN docs[n] ELSE Path[parent[n]] \o docs[n]

\* buildDetailNode, buildTaskNodeWithTrail: a trail is carried down the path and
\* cloned for every child, so that it has the documents w of one path.
Trail(w, links) ==
    LET T[i \in 0..Len(w)] ==
          IF i = 0 THEN NoTrail ELSE AddDoc(T[i - 1], w[i], links[w[i]])
    IN  T[Len(w)]

\* docTrail.snapshot
Snapshot(w, links) ==
    LET t == Trail(w, links) IN {t.current[r] : r \in DOMAIN t.current}

InEffect(w, links) == {s.doc : s \in Snapshot(w, links)}

----------------------------------------------------------------------------
(* The history page: buildDocumentHistory.                                 *)

\* collectAttachmentRecords
Listed == {d \in Doc : \E n \in Place : Visible(n) /\ d \in ToSet(docs[n])}

\* Variant for a mutant: only one link is followed.
Lineage_OneLink(d) == {d} \cup ({replaces[d]} \cap Listed)

\* Chain: d and what it replaces, directly or not, as far as that is listed.
Lineage(d) ==
    LET L[x \in Listed] ==
          {x} \cup (IF replaces[x] \in Listed THEN L[replaces[x]] ELSE {})
    IN  L[d]

\* Below: whatever replaces something on the page, until there is no more.
Below(d) ==
    {x \in Listed \ Lineage(d) : \A S \in SUBSET Listed :
        Lineage(d) \subseteq S /\ (\A y \in Listed : replaces[y] \in S => y \in S) => x \in S}

----------------------------------------------------------------------------

Next ==
    \/ \E n \in Place, d \in Doc, r \in Doc \cup {None} : Attach(n, d, r)
    \/ \E n \in Node, p \in Place : Move(n, p)
    \/ \E n \in Node : Hide(n) \/ RestoreExport(n)

Spec == Init /\ [][Next]_vars

----------------------------------------------------------------------------
(* Properties.                                                             *)

TypeOK ==
    /\ parent \in [Node -> Place]
    /\ deleted \subseteq Node
    /\ docs \in [Place -> Seq(Doc)]
    /\ \A n \in Place : IsInjective(docs[n])
    /\ \A m, n \in Place : m # n => ToSet(docs[m]) \cap ToSet(docs[n]) = {}
    /\ DOMAIN replaces \subseteq Doc /\ Attached \subseteq DOMAIN replaces
    /\ \A d \in DOMAIN replaces : replaces[d] \in DOMAIN replaces \cup {None}

\* The documents of a path that replace one another, directly or not: with one of
\* them, every later document that replaces it and every earlier one it replaces.
Family(w, i) ==
    {k \in DOMAIN w : \A F \in SUBSET DOMAIN w :
        i \in F /\ (\A g, h \in DOMAIN w : g < h /\ replaces[w[h]] = w[g] => (g \in F <=> h \in F))
          => k \in F}

\* At every node the documents in effect are the last ones of each family on its
\* path, whatever was moved, deleted, exported or restored (docTrail.add against
\* SPEC.md:60 read along one path; sibling branches remain independent).
EffectIsNewest ==
    \A n \in Place :
        Visible(n) =>
            LET w == Path[n]
            IN  InEffect(w, replaces) =
                    {w[i] : i \in {i \in DOMAIN w : \A k \in Family(w, i) : k <= i}}

\* The version a page shows with a document is the size of its family there: what
\* is on other branches, or left the path by a move or an export, does not count
\* (docTrail.counts and clone; README.md:49).
VersionCountsFamily ==
    \A n \in Place :
        Visible(n) =>
            LET w == Path[n]
            IN  \A i \in DOMAIN w : \A s \in Snapshot(w, replaces) :
                    s.doc = w[i] => s.version = Cardinality(Family(w, i))

\* Replacements end: no set of documents has all of what it replaces in itself, so
\* a history has a first version (the selected document is looked up before the new
\* one gets its ID; buildDocumentHistory gives up on a cycle).
ReplacementsEnd ==
    \A D \in SUBSET DOMAIN replaces : D # {} => \E d \in D : replaces[d] \notin D

\* Nothing disappears behind a document in effect: whatever has gone out of effect
\* at a node is on the history page of a document that is in effect there, though
\* the two are worked out by different walks (docTrail, buildDocumentHistory).
SupersededIsInHistory ==
    \A n \in Place :
        Visible(n) =>
            LET shown == InEffect(Path[n], replaces)
            IN  \A d \in ToSet(Path[n]) \ shown :
                    \E e \in shown : d \in Lineage(e) \cup Below(e)

\* Everything a document replaces, directly or not, listed or not.
Origins(d) ==
    LET O[x \in DOMAIN replaces] ==
          {x} \cup (IF replaces[x] = None THEN {} ELSE O[replaces[x]])
    IN  O[d]

\* An upload puts out of effect only what it is a revision of: a new document
\* leaves every unrelated one in effect, at its own node and at every reply
\* (findAttachment, docTrail.add; SPEC.md:58).
UploadSparesOthers ==
    [][\A d \in DOMAIN replaces' \ DOMAIN replaces : \A n \in Place :
          \A x \in InEffect(Path[n], replaces) \ InEffect(Path[n]', replaces') :
              Origins(x) \cap Origins(d)' # {}]_vars

\* views.go:366, "Below contains revisions that descend from it" (the selected
\* attachment), and SPEC.md:60.
BelowDescends == \A d \in Listed : \A e \in Below(d) : d \in Origins(e)
============================================================================
