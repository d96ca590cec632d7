---------------------------- MODULE AtomicStore ----------------------------
(***************************************************************************)
(* What Store.Update promises its callers, the request handlers: the       *)
(* change of a request is made to the stored tree in one step, at most     *)
(* once, and a request is told of success only after that step.            *)
(*                                                                         *)
(* The change of request r flips the membership of r in the tree, so that  *)
(* a change that is lost, undone or made twice shows.                      *)
(***************************************************************************)
CONSTANT Req  \* request handlers, one request each at a time

VARIABLES
    tree,     \* the stored tree: the requests whose change it shows
    status    \* status[r]: how the client of r sees its request

Status == {"idle", "asked", "applied", "ok"}

\* The tree with the change of r made, or made undone.
Flip(t, r) == IF r \in t THEN t \ {r} ELSE t \cup {r}

Init ==
    /\ tree = {}
    /\ status = [r \in Req |-> "idle"]

Ask(r) ==
    /\ status[r] \in {"idle", "ok"}
    /\ status' = [status EXCEPT ![r] = "asked"]
    /\ UNCHANGED tree

Apply(r) ==
    /\ status[r] = "asked"
    /\ status' = [status EXCEPT ![r] = "applied"]
    /\ tree' = Flip(tree, r)

\* Update returns nil.
Confirm(r) ==
    /\ status[r] = "applied"
    /\ status' = [status EXCEPT ![r] = "ok"]
    /\ UNCHANGED tree

\* The requests of R end with an error, or with no answer: whether their
\* changes were made is not known.
GiveUp(R) ==
    /\ status' = [r \in Req |-> IF r \in R THEN "idle" ELSE status[r]]
    /\ UNCHANGED tree

Next ==
    \/ \E r \in Req : Ask(r) \/ Apply(r) \/ Confirm(r)
    \/ \E R \in SUBSET Req : GiveUp(R)

Spec == Init /\ [][Next]_<<tree, status>>
=============================================================================
