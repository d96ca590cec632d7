-------------------------- MODULE ChangeFeedProofs --------------------------
(***************************************************************************)
(* A client of the feeds that overlaps its polls by the longest request    *)
(* misses nothing, for any number of nodes and forums and at all times.    *)
(***************************************************************************)
EXTENDS ChangeFeed, TLAPS

TypeOK ==
    /\ clock \in Nat
    /\ composing \subseteq Node
    /\ node \in [Node -> TaskNode \cup {None}]
    /\ stamp \in [Node -> Nat]
    /\ asks \in {"changes", "mentions"}
    /\ cursor \in Nat
    /\ passed \subseteq Node

\* The client is never ahead of the clock, and a node on its way is stamped late
\* enough to be reported when it lands.
ClockInv ==
    /\ cursor <= clock
    /\ \A n \in Node : stamp[n] <= clock
    /\ \A n \in composing : node[n] = None /\ clock <= stamp[n] + Patience

\* What the client has to be told, and has not, is due; visible or not.
NewsInv ==
    \A n \in Present :
        /\ asks = "changes" => known[n] = Told(n) \/ Due(n)
        /\ asks = "mentions" /\ node[n].content = "mention" =>
              known[n] = Told(n) \/ Due(n) \/ n \in passed

IInv == TypeOK /\ ClockInv /\ NewsInv

\* A node below another one hangs on a node, not on the root.
LEMMA BelowIsReply ==
    ASSUME NEW n \in Node, NEW m \in Subtree(n), m # n, m \in Present
    PROVE  node[m].parent # Root
<1> DEFINE D == Node \ {m}
<1> SUFFICES ASSUME node[m].parent = Root PROVE FALSE
  OBVIOUS
<1>1. n \in D /\ D \in SUBSET Node
  OBVIOUS
<1>2. \A k \in Present : node[k].parent \in D => k \in D
  BY NodeAssumption DEF Present
<1>3. m \in D
  BY <1>1, <1>2 DEF Subtree
<1> QED
  BY <1>3

\* Nothing is known, and nothing is there to be known.
LEMMA InvInit == Init => IInv
  BY TimeAssumption, NodeAssumption
  DEF Init, IInv, TypeOK, ClockInv, NewsInv, Present

\* What was just stamped is due.
LEMMA StampedIsDue ==
    ASSUME TypeOK, ClockInv, NEW n \in Node, Stamped(n)
    PROVE  Due(n)' /\ \A m \in Node \ {n} : Due(m)' = Due(m)
  BY TimeAssumption DEF TypeOK, ClockInv, Stamped, Due

\* A change that stamps its node, and no other told of it, leaves no news out.
LEMMA StampedKeeps ==
    ASSUME IInv, NEW n \in Present, Stamped(n),
           node' \in [Node -> TaskNode \cup {None}], Present' = Present,
           \A m \in Present \ {n} : Told(m)' = Told(m) /\ node'[m].content = node[m].content
    PROVE  IInv'
<1> USE DEF IInv
<1>1. n \in Node
  BY DEF Present
<1>2. TypeOK'
  BY <1>1 DEF TypeOK, Stamped
<1>3. ClockInv'
  <2>1. \A m \in composing : node'[m] = None /\ m # n
    BY DEF ClockInv, TypeOK, Present
  <2>2. stamp' = [stamp EXCEPT ![n] = clock] /\ UNCHANGED <<clock, composing, cursor>>
    BY DEF Stamped
  <2> QED
    BY <1>1, <2>1, <2>2 DEF ClockInv, TypeOK
<1>4. NewsInv'
  BY <1>1, StampedIsDue DEF NewsInv, Stamped, Present
<1> QED
  BY <1>2, <1>4, <1>3

\* Every step leaves the client informed, or about to be.
THEOREM InvStep == IInv /\ [Next]_vars => IInv'
<1> SUFFICES ASSUME IInv, [Next]_vars PROVE IInv'
  OBVIOUS
<1> USE TimeAssumption, NodeAssumption DEF IInv, tree, client
<1>1. ASSUME Tick PROVE IInv'
  BY <1>1 DEF Tick, TypeOK, ClockInv, NewsInv, Present, Told, Due
<1>2. ASSUME Poll PROVE IInv'
  <2>1. TypeOK' /\ ClockInv'
    <3>1. cursor' \in Nat /\ cursor' <= clock
      BY <1>2 DEF Poll, TypeOK, ClockInv, Reported, Present
    <3>2. passed' \subseteq Node
      BY <1>2 DEF Poll, TypeOK, Present
    <3> QED
      BY <1>2, <3>1, <3>2 DEF Poll, TypeOK, ClockInv
  <2>2. ASSUME NEW n \in Present PROVE known'[n] = Told(n)' \/ n \notin Reported
    BY <1>2, <2>2 DEF Poll, Told, Present
  <2>3. ASSUME NEW n \in Present, n \notin Reported PROVE known'[n] = known[n]
    BY <1>2, <2>3 DEF Poll, Present
  <2>4. NewsInv'
    BY <1>2, <2>2, <2>3 DEF Poll, NewsInv, Present, Reported, Told
  <2> QED
    BY <2>1, <2>4
<1>3. ASSUME NEW n \in Node, Compose(n) PROVE IInv'
  <2>1. TypeOK' /\ ClockInv'
    BY <1>3 DEF Compose, TypeOK, ClockInv, Present
  <2>2. NewsInv'
    BY <1>3 DEF Compose, NewsInv, Present, Told, Due, TypeOK
  <2> QED
    BY <2>1, <2>2
<1>4. ASSUME NEW n \in Node, NEW p \in Place, NEW f \in Forum, NEW c \in Content, Land(n, p, f, c)
      PROVE IInv'
  <2> DEFINE t == [parent |-> p, forum |-> f, content |-> c, deleted |-> FALSE]
  <2>1. t \in TaskNode
    BY DEF TaskNode, Place
  <2>2. node' = [node EXCEPT ![n] = t]
    BY <1>4 DEF Land
  <2>3. TypeOK' /\ ClockInv'
    BY <1>4, <2>1, <2>2 DEF Land, TypeOK, ClockInv
  <2>4. Due(n)'
    BY <1>4 DEF Land, Due, TypeOK, ClockInv
  <2>5. ASSUME NEW m \in Node \ {n}
        PROVE  Told(m)' = Told(m) /\ Due(m)' = Due(m) /\ node'[m] = node[m]
    BY <1>4, <2>2 DEF Land, Told, Due, TypeOK
  <2>6. NewsInv'
    BY <1>4, <2>4, <2>5 DEF Land, NewsInv, Present
  <2> QED
    BY <2>3, <2>6
<1>5. ASSUME NEW n \in Node, Abort(n) PROVE IInv'
  BY <1>5 DEF Abort, TypeOK, ClockInv, NewsInv, Present, Told, Due
<1>6. ASSUME NEW n \in Node, NEW c \in Content, Edit(n, c) PROVE IInv'
  <2>1. n \in Present /\ Stamped(n) /\ node' = [node EXCEPT ![n].content = c]
    BY <1>6 DEF Edit, Visible
  <2>2. [node[n] EXCEPT !.content = c] \in TaskNode
    BY <2>1 DEF TypeOK, Present, TaskNode
  <2> QED
    BY <2>1, <2>2, StampedKeeps DEF TypeOK, Present, Told
<1>7. ASSUME NEW n \in Node, NEW d \in BOOLEAN, n \in Present, Stamped(n),
             node' = [node EXCEPT ![n].deleted = d]
      PROVE  IInv'
  <2>1. [node[n] EXCEPT !.deleted = d] \in TaskNode
    BY <1>7 DEF TypeOK, Present, TaskNode
  <2> QED
    BY <1>7, <2>1, StampedKeeps DEF TypeOK, Present, Told
<1>8. ASSUME NEW n \in Node, Delete(n) \/ Restore(n) PROVE IInv'
  BY <1>7, <1>8 DEF Delete, Restore, Visible
<1>9. ASSUME NEW n \in Node, NEW p \in Place, NEW f \in Forum, NEW c \in Content, Move(n, p, f, c)
      PROVE IInv'
  <2> DEFINE t == [node[n] EXCEPT !.parent = p, !.forum = f, !.content = c]
             g(m) == [node[m] EXCEPT !.forum = f]
  <2>1. /\ n \in Present /\ Stamped(n)
        /\ node' = [m \in Node |-> IF m = n THEN t
                                   ELSE IF m \in Present \cap Subtree(n) THEN g(m)
                                   ELSE node[m]]
    BY <1>9 DEF Move
  <2>2. t \in TaskNode
    BY <2>1 DEF TypeOK, Present, TaskNode, Place
  <2>3. ASSUME NEW m \in Present
        PROVE  g(m) \in TaskNode /\ g(m).content = node[m].content
               /\ g(m).parent = node[m].parent
               /\ [g(m) EXCEPT !.forum = None] = [node[m] EXCEPT !.forum = None]
    BY DEF TypeOK, Present, TaskNode
  <2>4. node' \in [Node -> TaskNode \cup {None}] /\ Present' = Present
    <3> HIDE DEF t, g
    <3>1. ASSUME NEW m \in Present PROVE node'[m] \in TaskNode
      <4>1. node'[m] \in {t, g(m), node[m]}
        BY <2>1 DEF Present
      <4> QED
        BY <4>1, <2>2, <2>3 DEF TypeOK, Present
    <3>2. \A m \in Node \ Present : node'[m] = None
      BY <2>1 DEF Present
    <3> QED
      BY <2>1, <3>1, <3>2 DEF Present
  <2>5. ASSUME NEW m \in Present \ {n}
        PROVE  Told(m)' = Told(m) /\ node'[m].content = node[m].content
    <3>1. CASE m \in Subtree(n)
      <4>1. node'[m] = g(m) /\ node[m].parent # Root
        BY <1>9, <2>1, <3>1, BelowIsReply DEF Present
      <4> QED
        BY <4>1, <2>3 DEF Told
    <3>2. CASE m \notin Subtree(n)
      BY <2>1, <3>2 DEF Told, Present
    <3> QED
      BY <3>1, <3>2
  <2> QED
    BY <2>1, <2>4, <2>5, StampedKeeps
<1>10. ASSUME UNCHANGED vars PROVE IInv'
  BY <1>10 DEF vars, TypeOK, ClockInv, NewsInv, Present, Told, Due
<1> QED
  BY <1>1, <1>2, <1>3, <1>4, <1>5, <1>6, <1>8, <1>9, <1>10 DEF Next

\* The client is never ahead of the clock, and what it does not know is due.
THEOREM Invariant == Spec => []IInv
  BY InvInit, InvStep, PTL DEF Spec

\* No change is ever missed by a client of apiChanges that overlaps its polls by
\* the longest request.
THEOREM NoChangeIsMissed == Spec => []ChangesReachClient
<1>1. IInv => ChangesReachClient
  BY DEF IInv, NewsInv, ChangesReachClient
<1> QED
  BY <1>1, Invariant, PTL

\* No mention is ever missed by such a client of apiMentions, unless it was hidden
\* when it was due and came back with what hid it.
THEOREM NoMentionIsMissed == Spec => []MentionsReachClient
<1>1. IInv => MentionsReachClient
  BY DEF IInv, NewsInv, MentionsReachClient, Visible
<1> QED
  BY <1>1, Invariant, PTL
=============================================================================
