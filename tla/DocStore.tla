----------------------------- MODULE DocStore -----------------------------
(***************************************************************************)
(* What a quester data directory promises to its users, whatever happens   *)
(* to the processes that serve it: a tree of task records per workspace    *)
(* (here: the set of blobs its attachment records reference) and a pool of *)
(* content-addressed blobs.                                                *)
(*                                                                         *)
(*   - a workspace changes only by one whole update or one whole restore;  *)
(*   - a restored archive takes effect only with all its content on disk;  *)
(*   - content goes away only while no workspace references it.            *)
(*                                                                         *)
(* The first and the last hold of every operation; the store promises      *)
(* nothing about the content behind a freshly attached record or behind a  *)
(* legacy tasks.json (README, Findings).  DataDir implements this module.  *)
(***************************************************************************)
CONSTANTS
    User,      \* workspaces, one <user>.json each
    Blob,      \* blob references (SHA-256 of the content)
    Uploads,   \* the sets of blobs one attach request can carry
    Archives,  \* the sets of blobs a backup archive can carry
    Legacy     \* the sets of blobs a bare tasks.json can reference

VARIABLES
    tree,      \* tree[u]: the blobs the stored tree of u references
    content    \* the blobs on disk

Referenced == UNION {tree[u] : u \in User}

Init ==
    /\ tree = [u \in User |-> {}]
    /\ content = {}

\* Content arrives: an upload or a restore installs a blob.
Store(b) ==
    /\ content' = content \cup {b}
    /\ UNCHANGED tree

\* Content goes: by the cleanup page, or because a restore is undone.
Reclaim(b) ==
    /\ b \notin Referenced
    /\ content' = content \ {b}
    /\ UNCHANGED tree

\* Attachment records are added to one workspace; none is ever dropped.
Attach(u, S) ==
    /\ tree' = [tree EXCEPT ![u] = @ \cup S]
    /\ UNCHANGED content

\* A backup archive replaces one workspace, all of its content being there.
Replace(u, S) ==
    /\ S \subseteq content
    /\ tree' = [tree EXCEPT ![u] = S]
    /\ UNCHANGED content

\* A bare tasks.json replaces one workspace and carries no content.
ReplaceLegacy(u, S) ==
    /\ tree' = [tree EXCEPT ![u] = S]
    /\ UNCHANGED content

Next ==
    \/ \E b \in Blob : Store(b) \/ Reclaim(b)
    \/ \E u \in User, S \in Uploads : Attach(u, S)
    \/ \E u \in User, S \in Archives : Replace(u, S)
    \/ \E u \in User, S \in Legacy : ReplaceLegacy(u, S)

Spec == Init /\ [][Next]_<<tree, content>>
===========================================================================
