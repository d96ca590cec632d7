--------------------------- MODULE MCStoreUpdate ---------------------------
(* A small instance of StoreUpdate for TLC. *)
EXTENDS StoreUpdate, TLC

CONSTANTS r1, r2, r3, r4, p1, p2

\* Two processes with two requests each: the mutex and the file lock both matter.
MCHost == (r1 :> p1) @@ (r2 :> p1) @@ (r3 :> p2) @@ (r4 :> p2)
=============================================================================
