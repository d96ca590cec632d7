-------------------------------- MODULE Pages --------------------------------
(***************************************************************************)
(* Which nodes the pages and the API show (src/views.go, src/handlers.go,  *)
(* src/api.go).  Requests find a node by walking up from it                *)
(* (visibleTaskChain); pages walk down from the root, by three different   *)
(* walks.  Here they are held against each other and against what the      *)
(* requests of TaskTree do.                                                *)
(***************************************************************************)
EXTENDS TaskTree

\* visibleChildren, on and on: the nodes of T and what a page shows below them.
Shown(T) ==
    {m \in Node : \A D \in SUBSET Node :
        T \subseteq D /\ (\A k \in nodes \ deleted : parent[k] \in D => k \in D) => m \in D}

\* visibleChildren of the root.
TopLevel == {n \in nodes \ deleted : parent[n] = Root}

\* summary, apiForumNodes: the posts of a forum with the replies to them.
ForumPage(f) == Shown({n \in TopLevel : forum[n] = f})

\* detailed, apiGetNode: a node with the replies to it.
DetailPage(n) == IF Visible(n) THEN Shown({n}) ELSE {}

\* Variant for a mutant: only the node itself is asked whether it is deleted.
SearchPage_Flat == nodes \ deleted

\* buildSearchResults, for a query that every node matches.
SearchPage == Shown(TopLevel)

\* Variant for a mutant: the walk stops at a deleted node.
DeletedPage_Top == {n \in deleted : parent[n] \in Shown(TopLevel) \cup {Root}}

\* buildDeletedTaskNodes: this walk goes on below deleted nodes.
DeletedPage ==
    {m \in deleted : \A D \in SUBSET Node :
        (\A k \in nodes : parent[k] \in D \cup {Root} => k \in D) => m \in D}

----------------------------------------------------------------------------
(* Properties                                                              *)

\* A visible node is on the page of its own forum, and of no other; a hidden one
\* is on none.  A post of a forum that is gone, a reply that says it is in another
\* forum than its post, or a subtree that hangs from itself would be lost here.
OnItsForumsPage ==
    \A n \in nodes :
        {f \in forums : n \in ForumPage(f)} = IF Visible(n) THEN {forum[n]} ELSE {}

\* What the pages offer for selection is what a bulk action accepts, no less and
\* no more (visibleChildren in buildSearchResults, visibleTaskChain in
\* applyBulkTaskAction), and the page of a node has the whole of the visible thread
\* below it.
WalksAgree ==
    /\ SearchPage = {n \in nodes : Visible(n)}
    /\ \A n \in SearchPage : DetailPage(n) = Subtree(n) \cap SearchPage

\* Every hidden node can be brought back from the deleted page: all the deleted
\* nodes it is below are listed there, the ones below other deleted nodes too
\* (buildDeletedTaskNodes; SPEC.md:44).
HiddenIsRestorable ==
    \A n \in nodes : \A m \in deleted : n \in Subtree(m) => m \in DeletedPage

\* Nothing but a deletion hides a node, or an archive that was made while the node
\* was hidden: a move takes no thread out of sight, a reply is not created where nobody
\* sees it, and a restored export shows all that was selected (visibleTaskChain in
\* moveTask, addWaypoint, apiCreateNode and selectedTaskExport).
OnlyDeletionHides ==
    [][\A n \in nodes' : ~Visible(n)' =>
          IF Replaced
          THEN \E t \in archives : RestoreArchive(t) /\ n \notin t.shown
          ELSE \/ n \in nodes /\ ~Visible(n)
               \/ \E m \in deleted' \ deleted : n \in Subtree(m)']_vars
=============================================================================
