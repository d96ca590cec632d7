----------------------------- MODULE MCDataDir -----------------------------
(* Small instances of DataDir for TLC. *)
EXTENDS DataDir, TLC

CONSTANTS b1, b2, u1, u2, r1, r2, p1, p2

\* Two processes with one request each.
MCHost == (r1 :> p1) @@ (r2 :> p2)

Singles == {{b} : b \in Blob}
All == {{b1, b2}}
OneOrAll == {{b1}, {b1, b2}}
Nothing == {}
Blank == {{}}

UserSymmetry == Permutations(User)
============================================================================
