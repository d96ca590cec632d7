------------------------------ MODULE TaskTree ------------------------------
(***************************************************************************)
(* The task tree of one workspace (src/task.go) and the requests that      *)
(* change it (src/handlers.go, src/api.go).                                *)
(*                                                                         *)
(* Every request changes the tree inside one Store.Update, under the store *)
(* lock: an action is one whole update.  What a request computes before    *)
(* the update (a cleaned title, a path typed long ago) is an input of it.  *)
(*                                                                         *)
(* A node keeps its parent, its forum, whether it has a title, and its     *)
(* flags.  The root (the front page) is not a node: its own flags decide   *)
(* nothing.  normalizeTree, run by every load and save, changes nothing in *)
(* a tree these operations built, and much in a legacy one.                *)
(*                                                                         *)
(* A backup, or an export of selected nodes, that a client has downloaded  *)
(* can be restored at any time, however much has changed since, and as     *)
(* often as anyone likes: archives holds them.  Node IDs are unique, as    *)
(* newTaskID makes them; archives made by hand, which may repeat them, are *)
(* not modelled.                                                           *)
(***************************************************************************)
CONSTANTS
    Node,     \* node IDs
    Forum,    \* forum IDs
    General,  \* defaultForumID
    Root      \* rootPath

ASSUME TreeAssumption ==
    /\ Root \notin Node
    /\ General \in Forum
    /\ Root \notin Forum

VARIABLES
    nodes,    \* the nodes in the tree
    parent,   \* parent[n]: where n hangs; only for n in nodes
    forum,    \* forum[n]: ForumId
    titled,   \* the nodes whose Name is not empty
    tracked,  \* the nodes with Track
    checked,  \* the nodes with Checked
    deleted,  \* the nodes with Deleted
    forums,   \* the forums of the root
    archives  \* the archives that clients have kept

vars == <<nodes, parent, forum, titled, tracked, checked, deleted, forums, archives>>

\* In a tree of nodes N with parents par: n and whatever replies to it.
Below(N, par, n) ==
    {m \in Node : \A D \in SUBSET Node :
        n \in D /\ (\A k \in N : par[k] \in D => k \in D) => m \in D}

\* cloneTaskTree, FindTask below a node, setForum.
Subtree(n) == Below(nodes, parent, n)

\* visibleTaskChain: neither n nor anything it replies to is deleted.
Visible(n) ==
    n \in nodes /\ \A m \in deleted : n \notin Subtree(m)

\* A JSON tree of the nodes N: every part of it has a node that hangs from
\* outside of it.
Trees(N) ==
    {p \in [N -> N \cup {Root}] : \A S \in SUBSET N : S # {} => \E n \in S : p[n] \notin S}

\* A tasks.json of schema 0, from before there were forums and replies: what it
\* says of titles and tracking does not matter (normalizeTree).
Legacy(N, p, done, gone) ==
    LET par == [n \in Node |-> IF n \in N THEN p[n] ELSE Root]
    IN  [nodes |-> N, parent |-> par, forum |-> [n \in Node |-> General],
         titled |-> {}, tracked |-> {}, checked |-> done, deleted |-> gone, forums |-> {},
         legacy |-> TRUE, shown |-> {n \in N : \A m \in gone : n \notin Below(N, par, m)}]

\* A new workspace; a client may have kept a legacy file.
Init ==
    /\ nodes = {}
    /\ parent = [n \in Node |-> Root]
    /\ forum = [n \in Node |-> General]
    /\ titled = {}
    /\ tracked = {}
    /\ checked = {}
    /\ deleted = {}
    /\ forums = {General}
    /\ \/ archives = {}
       \/ \E N \in SUBSET Node : \E p \in Trees(N), done, gone \in SUBSET N :
             archives = {Legacy(N, p, done, gone)}

----------------------------------------------------------------------------
(* New nodes and forums.                                                   *)

\* A set with or without one element.
With(S, n, yes) == IF yes THEN S \cup {n} ELSE S \ {n}

\* append(parent.SubTasks, task)
Append(n, p, f, title, track) ==
    /\ n \in Node \ nodes
    /\ nodes' = nodes \cup {n}
    /\ parent' = [parent EXCEPT ![n] = p]
    /\ forum' = [forum EXCEPT ![n] = f]
    /\ titled' = With(titled, n, title)
    /\ tracked' = With(tracked, n, track)
    /\ UNCHANGED <<checked, deleted, forums, archives>>

\* addWaypoint on the front page, apiCreateNode without parent_id.
CreatePost(n, f) ==
    /\ f \in forums
    /\ Append(n, Root, f, TRUE, TRUE)

\* addWaypoint on a task, apiCreateNode with its ID: the forum is inherited, the
\* title and the tracking are up to the request.
CreateReply(n, p, title, track) ==
    /\ Visible(p)
    /\ Append(n, p, forum[p], title, track)

\* Variant for a mutant: the forum of the root, which has none, is kept.
CreateUnderRootID_NoForum(n, title, track) ==
    Append(n, Root, Root, title, track)

\* apiCreateNode with parent_id = rootPath: visibleTaskChain finds the root, and
\* the node is treated as a reply to it.  The root has no forum, so
\* normalizeChildren gives the node the default one.
CreateUnderRootID(n, title, track) ==
    Append(n, Root, General, title, track)

\* addForum, apiCreateForum: a taken ID gets a random suffix.
CreateForum(f) ==
    /\ f \in Forum \ forums
    /\ forums' = forums \cup {f}
    /\ UNCHANGED <<nodes, parent, forum, titled, tracked, checked, deleted, archives>>

----------------------------------------------------------------------------
(* moveTask: moveWaypoint, apiMoveNode.                                    *)

\* Variant for a mutant: the replies to the moved node keep their forum.
Hang_Shallow(n, p, f) ==
    /\ n \in nodes \ deleted
    /\ parent' = [parent EXCEPT ![n] = p]
    /\ forum' = [forum EXCEPT ![n] = f]
    /\ UNCHANGED <<nodes, checked, deleted, forums, archives>>

\* The node, which may be below a deleted one, takes its subtree along.
Hang(n, p, f) ==
    /\ n \in nodes \ deleted
    /\ parent' = [parent EXCEPT ![n] = p]
    /\ forum' = [m \in Node |-> IF m \in Subtree(n) THEN f ELSE forum[m]]
    /\ UNCHANGED <<nodes, checked, deleted, forums, archives>>

\* Variant for a mutant: only the node itself is refused as its parent.
MoveBeneath_Below(n, p) ==
    /\ Visible(p)
    /\ p # n
    /\ Hang(n, p, forum[p])
    /\ UNCHANGED <<titled, tracked>>

\* Variant for a mutant: the new parent may be out of sight.
MoveBeneath_Hidden(n, p) ==
    /\ p \in nodes
    /\ p \notin Subtree(n)
    /\ Hang(n, p, forum[p])
    /\ UNCHANGED <<titled, tracked>>

\* Beneath another node, which must not be in the moved subtree.
MoveBeneath(n, p) ==
    /\ Visible(p)
    /\ p \notin Subtree(n)
    /\ Hang(n, p, forum[p])
    /\ UNCHANGED <<titled, tracked>>

\* Variant for a mutant: the forum is not looked up.
Promote_AnyForum(n, f) ==
    /\ Hang(n, Root, f)
    /\ titled' = titled \cup {n}
    /\ tracked' = tracked \cup {n}

\* Variant for a mutant: the title of the request is forgotten.
Promote_NoTitle(n, f) ==
    /\ f \in forums
    /\ Hang(n, Root, f)
    /\ tracked' = tracked \cup {n}
    /\ UNCHANGED titled

\* To the top level, which takes a title and a forum.
Promote(n, f) ==
    /\ f \in forums
    /\ Hang(n, Root, f)
    /\ titled' = titled \cup {n}
    /\ tracked' = tracked \cup {n}

----------------------------------------------------------------------------
(* Flags and titles.                                                       *)

\* deleteWaypoint
Delete(n) ==
    /\ Visible(n)
    /\ deleted' = deleted \cup {n}
    /\ UNCHANGED <<nodes, parent, forum, titled, tracked, checked, forums, archives>>

\* restoreWaypoint: wherever the node is, also below another deleted one.
Restore(n) ==
    /\ n \in deleted
    /\ deleted' = deleted \ {n}
    /\ UNCHANGED <<nodes, parent, forum, titled, tracked, checked, forums, archives>>

\* editWaypoint: an empty title becomes "Untitled task" at the top level only.
Edit(n, title) ==
    /\ Visible(n)
    /\ titled' = With(titled, n, title \/ parent[n] = Root)
    /\ UNCHANGED <<nodes, parent, forum, tracked, checked, deleted, forums, archives>>

\* toggle
Toggle(n) ==
    /\ Visible(n)
    /\ tracked' = tracked \cup {n}
    /\ checked' = With(checked, n, n \notin checked)
    /\ UNCHANGED <<nodes, parent, forum, titled, deleted, forums, archives>>

\* Variant for a mutant: "none" only stops the tracking.
SetStatus_KeepsChecked(n, status) ==
    /\ Visible(n)
    /\ tracked' = With(tracked, n, status # "none")
    /\ checked' = IF status = "none" THEN checked ELSE With(checked, n, status = "done")
    /\ UNCHANGED <<nodes, parent, forum, titled, deleted, forums, archives>>

\* apiSetStatus
SetStatus(n, status) ==
    /\ Visible(n)
    /\ tracked' = With(tracked, n, status # "none")
    /\ checked' = With(checked, n, status = "done")
    /\ UNCHANGED <<nodes, parent, forum, titled, deleted, forums, archives>>

\* applyBulkTaskAction: all of the selected nodes, or none.
BulkCheck(S, done) ==
    /\ S # {} /\ \A n \in S : Visible(n)
    /\ tracked' = tracked \cup S
    /\ checked' = IF done THEN checked \cup S ELSE checked \ S
    /\ UNCHANGED <<nodes, parent, forum, titled, deleted, forums, archives>>

BulkDelete(S) ==
    /\ S # {} /\ \A n \in S : Visible(n)
    /\ deleted' = deleted \cup S
    /\ UNCHANGED <<nodes, parent, forum, titled, tracked, checked, forums, archives>>

----------------------------------------------------------------------------
(* Export and restore.                                                     *)

\* Variant for a mutant: only the parent of a selected node is looked at.
ExportTop_ParentOnly(S) == {n \in S : parent[n] \notin S}

\* selectedTaskExport: the selected nodes that reply to no selected node
\* (selectedAncestor) become the top level ...
ExportTop(S) == {n \in S : \A m \in S \ {n} : n \notin Subtree(m)}

\* ... of a tree of clones.
ExportNodes(S) == UNION {Subtree(n) : n \in ExportTop(S)}

\* writeBackupArchive: the nodes N, hung from par, with the values they have now;
\* and, to state properties with, which nodes are visible now.
Archived(N, par) ==
    [nodes |-> N, parent |-> par,
     forum |-> [n \in Node |-> IF n \in N THEN forum[n] ELSE General],
     titled |-> titled \cap N, tracked |-> tracked \cap N, checked |-> checked \cap N,
     deleted |-> deleted \cap N, forums |-> forums,
     legacy |-> FALSE, shown |-> {n \in nodes : Visible(n)}]

\* A client keeps an archive.
Keep(t) ==
    /\ archives' = archives \cup {t}
    /\ UNCHANGED <<nodes, parent, forum, titled, tracked, checked, deleted, forums>>

\* downloadAll
Download == Keep(Archived(nodes, parent))

\* The archive of a selection.
Selection(S) ==
    Archived(ExportNodes(S),
             [n \in Node |-> IF n \in ExportNodes(S) \ ExportTop(S) THEN parent[n] ELSE Root])

\* Variant for a mutant: what is below a deleted node can be selected.
Export_Hidden(S) ==
    /\ S # {} /\ S \subseteq nodes \ deleted
    /\ Keep(Selection(S))

\* bulkTasks with "export": all of the selected nodes, or none.
Export(S) ==
    /\ S # {} /\ \A n \in S : Visible(n)
    /\ Keep(Selection(S))

\* normalizeForums: the default forum is added where it is missing.
NormalForums(F) == F \cup {General}

\* restoreAll: the tree of the archive replaces the tree there is.  In one of schema
\* 0, normalizeTree titles and tracks every node.
RestoreArchive(t) ==
    /\ nodes' = t.nodes
    /\ parent' = t.parent
    /\ forum' = t.forum
    /\ titled' = IF t.legacy THEN t.nodes ELSE t.titled
    /\ tracked' = IF t.legacy THEN t.nodes ELSE t.tracked
    /\ checked' = t.checked
    /\ deleted' = t.deleted
    /\ forums' = NormalForums(t.forums)
    /\ UNCHANGED archives

----------------------------------------------------------------------------

Next ==
    \/ \E n \in Node, f \in Forum : CreatePost(n, f) \/ Promote(n, f)
    \/ \E n, p \in Node : MoveBeneath(n, p)
    \/ \E n, p \in Node, title, track \in BOOLEAN : CreateReply(n, p, title, track)
    \/ \E n \in Node, title, track \in BOOLEAN : CreateUnderRootID(n, title, track)
    \/ \E f \in Forum : CreateForum(f)
    \/ \E n \in Node : Delete(n) \/ Restore(n) \/ Toggle(n)
    \/ \E n \in Node, title \in BOOLEAN : Edit(n, title)
    \/ \E n \in Node, status \in {"open", "done", "none"} : SetStatus(n, status)
    \/ \E S \in SUBSET Node, done \in BOOLEAN : BulkCheck(S, done)
    \/ \E S \in SUBSET Node : BulkDelete(S) \/ Export(S)
    \/ Download
    \/ \E t \in archives : RestoreArchive(t)

Spec == Init /\ [][Next]_vars

----------------------------------------------------------------------------
(* Properties                                                              *)

ArchiveOK(t) ==
    /\ t \in [nodes : SUBSET Node, parent : [Node -> Node \cup {Root}],
              forum : [Node -> Forum], titled : SUBSET Node, tracked : SUBSET Node,
              checked : SUBSET Node, deleted : SUBSET Node, forums : SUBSET Forum,
              legacy : BOOLEAN, shown : SUBSET Node]
    /\ t.titled \cup t.tracked \cup t.checked \cup t.deleted \subseteq t.nodes

TypeOK ==
    /\ nodes \subseteq Node
    /\ parent \in [Node -> Node \cup {Root}]
    /\ forum \in [Node -> Forum]
    /\ titled \subseteq nodes
    /\ tracked \subseteq nodes
    /\ checked \subseteq nodes
    /\ deleted \subseteq nodes
    /\ forums \subseteq Forum
    /\ \A t \in archives : ArchiveOK(t)

\* However nodes are moved, every node still hangs from the root: no set of
\* nodes has all of its parents in itself.  A subtree hung beneath itself would
\* be gone with the next save (moveTask, containsTask).
Rooted ==
    /\ \A n \in nodes : parent[n] \in nodes \cup {Root}
    /\ \A S \in SUBSET nodes : S # {} => \E n \in S : parent[n] \notin S

\* A reply is in the forum of what it replies to, also after its ancestors have
\* been moved, promoted, exported and restored (setForum, SPEC.md:52).
RepliesShareForum ==
    \A n \in nodes : parent[n] # Root => forum[n] = forum[parent[n]]

\* Every node is in a forum that exists, so no post is out of every forum's
\* list (findForum in addWaypoint, apiCreateNode and moveTask).
ForumsExist == \A n \in nodes : forum[n] \in forums

\* Done means tracked: no operation leaves a node checked and untracked, which
\* every page would show as having no status (apiNode).
CheckedIsTracked == checked \subseteq tracked

\* A selection is exported once and whole: each selected node and all that
\* replies to it, in exactly one of the exported trees (SPEC.md:48).
ExportIsExact ==
    \A S \in SUBSET {n \in nodes : Visible(n)} :
        /\ ExportNodes(S) = UNION {Subtree(n) : n \in S}
        /\ \A m, n \in ExportTop(S) : m # n => Subtree(m) \cap Subtree(n) = {}

\* The tree is replaced by that of an archive.
Replaced == \E t \in archives : RestoreArchive(t)

\* A hidden node becomes visible only when it or a node it replies to is restored
\* from the deleted page or moved out from under a deleted node; or by an archive
\* that was made while the node was visible.  So an export reveals nothing, however
\* late it is restored, that was hidden from whoever selected it (visibleTaskChain in
\* selectedTaskExport, restoreWaypoint, SPEC.md:44).
HiddenUntilRestored ==
    [][\A n \in nodes \cap nodes' : ~Visible(n) /\ Visible(n)' =>
          IF Replaced
          THEN \E t \in archives : RestoreArchive(t) /\ n \in t.shown
          ELSE \E m \in nodes :
                  n \in Subtree(m) /\ (m \in deleted \ deleted' \/ parent'[m] # parent[m])]_vars

\* A top-level post keeps its title, and what comes to the top level by a move gets
\* one (SPEC.md:52): no request that changes the tree makes a top-level post untitled.
\* (A node made with the root's ID as parent_id, and an archive of exported replies,
\* bring in untitled ones: apiCreateNode asks for a title only without parent_id.)
TitlesStay ==
    [][~Replaced =>
          \A n \in nodes \ titled' : parent'[n] = Root => parent[n] = Root /\ n \notin titled]_vars
============================================================================
