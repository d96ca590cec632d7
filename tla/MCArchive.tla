----------------------------- MODULE MCArchive -----------------------------
(* Small instances of Archive for TLC. *)
EXTENDS Archive, TLC

CONSTANTS b1, b2, b3

\* b1 and b2 together reach the limits of tasks.json, of entries and of all blobs;
\* b3 alone reaches that of a blob; b1 and b3 exceed one limit only.
MCSize == (b1 :> 1) @@ (b2 :> 1) @@ (b3 :> 2) @@ (Junk :> 3)
MCLimits == [archive |-> 6, entries |-> 3, task |-> 3, blob |-> 2, total |-> 2]

All == SUBSET Blob
Nothing == {}
=============================================================================
