----------------------------- MODULE MCTaskTree -----------------------------
(* Small instances of TaskTree for TLC. *)
EXTENDS Pages, Naturals, FiniteSets, TLC

NodeSymmetry == Permutations(Node)

\* The bounds.  While nobody keeps an archive: any workspace.  Once somebody does, one
\* archive, and workspaces with nothing done and all nodes tracked (status plays no part
\* in what is visible); with more than two nodes, also all titled and in one forum.
MaxArchives == 1
MaxNodesAndArchive == 2

Bounds ==
    archives # {} =>
        /\ Cardinality(archives) <= MaxArchives
        /\ tracked = nodes /\ checked = {}
        /\ \/ Cardinality(nodes) <= MaxNodesAndArchive
           \/ titled = nodes /\ forums = {General}
        /\ \A t \in archives : Cardinality(t.nodes) <= MaxNodesAndArchive \/ t.checked = {}
============================================================================
