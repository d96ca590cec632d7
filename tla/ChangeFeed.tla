----------------------------- MODULE ChangeFeed -----------------------------
(***************************************************************************)
(* The two feeds of the private API (apiChanges and apiMentions in         *)
(* src/api.go) against the requests that change the tree: what does a      *)
(* client learn that asks for what is new since the newest updated_at it   *)
(* has received?                                                           *)
(*                                                                         *)
(* Every change is made under the store lock and stamps its node there,    *)
(* but for new nodes: newTask stamps them when the request arrives, before *)
(* an upload and the wait for the lock (Patience bounds how long that      *)
(* takes).  A client that knows allows for it and asks from Overlap before *)
(* its newest stamp.  Restoring a backup replaces all stamps; a client     *)
(* starts afresh then, and it is not modelled.                             *)
(***************************************************************************)
EXTENDS Integers

CONSTANTS
    Node,      \* node IDs
    Root,      \* rootPath
    Forum,     \* forum IDs
    None,      \* no node, no forum
    Patience,  \* how long a request takes from newTask to its update, at most
    Overlap,   \* by how much the client's polls overlap
    MaxTime    \* bound: the clock stops there

\* Title, text and flags of a node, as far as the feeds are concerned: does it
\* name the user whose mentions are asked for?
Content == {"plain", "mention"}

TaskNode == [parent : Node \cup {Root}, forum : Forum, content : Content, deleted : BOOLEAN]

ASSUME NodeAssumption == Root \notin Node /\ None \notin TaskNode
ASSUME TimeAssumption == Patience \in Nat /\ Overlap \in Nat /\ Patience <= Overlap

VARIABLES
    clock,      \* time.Now
    composing,  \* the nodes newTask has made whose update has not come
    node,       \* node[n]: the node n of the stored tree, or None
    stamp,      \* stamp[n]: UpdatedAt
    asks,       \* the feed the client polls, "changes" or "mentions"
    cursor,     \* the newest stamp the client has received
    known,      \* known[n]: what the client was last told of n
    passed      \* ghost: mentions a poll has left out because they were hidden

tree == <<node, stamp, composing>>
client == <<asks, cursor, known, passed>>
vars == <<clock, tree, client>>

Present == {n \in Node : node[n] # None}

\* n and whatever replies to it.
Subtree(n) ==
    {m \in Node : \A D \in SUBSET Node :
        n \in D /\ (\A k \in Present : node[k].parent \in D => k \in D) => m \in D}

Visible(n) == n \in Present /\ \A m \in Present : node[m].deleted => n \notin Subtree(m)

Init ==
    /\ clock = 0
    /\ composing = {}
    /\ node = [n \in Node |-> None]
    /\ stamp = [n \in Node |-> 0]
    /\ asks \in {"changes", "mentions"}
    /\ cursor = 0
    /\ known = [n \in Node |-> None]
    /\ passed = {}

----------------------------------------------------------------------------
(* The requests.                                                           *)

\* Time passes, but no request takes longer than Patience.
Tick ==
    /\ clock < MaxTime
    /\ \A n \in composing : clock < stamp[n] + Patience
    /\ clock' = clock + 1
    /\ UNCHANGED <<tree, client>>

\* UpdatedAt = now, inside an update.
Stamped(n) ==
    /\ stamp' = [stamp EXCEPT ![n] = clock]
    /\ passed' = passed \ {n}
    /\ UNCHANGED <<clock, composing, asks, cursor, known>>

\* newTask, at the beginning of addWaypoint and apiCreateNode.
Compose(n) ==
    /\ n \notin Present \cup composing
    /\ composing' = composing \cup {n}
    /\ stamp' = [stamp EXCEPT ![n] = clock]
    /\ UNCHANGED <<clock, node, client>>

\* The update of addWaypoint or apiCreateNode.
Land(n, p, f, c) ==
    /\ n \in composing
    /\ p # Root => Visible(p) /\ f = node[p].forum
    /\ composing' = composing \ {n}
    /\ node' = [node EXCEPT ![n] = [parent |-> p, forum |-> f, content |-> c, deleted |-> FALSE]]
    /\ UNCHANGED <<clock, stamp, client>>

\* The upload or the update fails.
Abort(n) ==
    /\ n \in composing
    /\ composing' = composing \ {n}
    /\ UNCHANGED <<clock, node, stamp, client>>

\* editWaypoint, toggle, apiSetStatus, attachDocument, apiAttachDocument and the
\* bulk status changes.
Edit(n, c) ==
    /\ Visible(n)
    /\ node' = [node EXCEPT ![n].content = c]
    /\ Stamped(n)

\* deleteWaypoint, and the bulk deletion node by node.
Delete(n) ==
    /\ Visible(n)
    /\ node' = [node EXCEPT ![n].deleted = TRUE]
    /\ Stamped(n)

\* Variant for a mutant: the restored node keeps its stamp.
Restore_Unstamped(n) ==
    /\ n \in Present
    /\ node[n].deleted
    /\ node' = [node EXCEPT ![n].deleted = FALSE]
    /\ passed' = passed \ {n}
    /\ UNCHANGED <<clock, composing, stamp, asks, cursor, known>>

\* restoreWaypoint
Restore(n) ==
    /\ n \in Present
    /\ node[n].deleted
    /\ node' = [node EXCEPT ![n].deleted = FALSE]
    /\ Stamped(n)

\* moveTask: setForum follows the subtree, UpdatedAt does not.
Move(n, p, f, c) ==
    /\ n \in Present
    /\ ~node[n].deleted
    /\ IF p = Root THEN TRUE
       ELSE Visible(p) /\ p \notin Subtree(n) /\ f = node[p].forum /\ c = node[n].content
    /\ node' = [m \in Node |->
          IF m = n THEN [node[m] EXCEPT !.parent = p, !.forum = f, !.content = c]
          ELSE IF m \in Present \cap Subtree(n) THEN [node[m] EXCEPT !.forum = f]
          ELSE node[m]]
    /\ Stamped(n)

----------------------------------------------------------------------------
(* The client.                                                             *)

\* Variant for a mutant: UpdatedAt.After(since).
Due_After(n) == stamp[n] > cursor - Overlap

\* !UpdatedAt.Before(since)
Due(n) == stamp[n] >= cursor - Overlap

\* What an answer says of n.  The forum of a reply is that of its post, and a
\* client takes it from there: a move reports the moved node alone.
Told(n) == [node[n] EXCEPT !.forum = IF node[n].parent = Root THEN @ ELSE None]

\* collectChangedNodes and collectMentionedNodes.
Reported ==
    {n \in Present : /\ Due(n)
                     /\ asks = "mentions" => Visible(n) /\ node[n].content = "mention"}

\* apiChanges or apiMentions, and the client with the answer.
Poll ==
    /\ known' = [n \in Node |-> IF n \in Reported THEN Told(n) ELSE known[n]]
    /\ cursor' \in {cursor} \cup {stamp[n] : n \in Reported}
    /\ \A n \in Reported : stamp[n] <= cursor'
    /\ cursor <= cursor'
    /\ passed' = IF asks = "changes" THEN passed
                 ELSE passed \cup {n \in Present : Due(n) /\ ~Visible(n)}
    /\ UNCHANGED <<clock, tree, asks>>

Place == Node \cup {Root}

Next ==
    \/ Tick \/ Poll
    \/ \E n \in Node : Compose(n) \/ Abort(n) \/ Delete(n) \/ Restore(n)
    \/ \E n \in Node, c \in Content : Edit(n, c)
    \/ \E n \in Node, p \in Place, f \in Forum, c \in Content :
          Land(n, p, f, c) \/ Move(n, p, f, c)

Spec == Init /\ [][Next]_vars

----------------------------------------------------------------------------
(* Properties                                                              *)

\* A client of apiChanges that overlaps its polls misses nothing: it knows every
\* node as it is, or its next poll reports it (the inclusive comparison, and the
\* stamp every handler sets).  This covers nodes composed before and landed after
\* a poll, deletions, and what a move does to a whole thread.
ChangesReachClient ==
    asks = "changes" => \A n \in Present : known[n] = Told(n) \/ Due(n)

\* A client of apiMentions that overlaps its polls knows every visible node that
\* mentions its user, or its next poll reports it; except a node that was passed
\* over while something above it was deleted (visibleChildren), and that has come
\* back with that, unstamped.
MentionsReachClient ==
    asks = "mentions" =>
        \A n \in Node : Visible(n) /\ node[n].content = "mention" =>
            known[n] = Told(n) \/ Due(n) \/ n \in passed
=============================================================================
