---------------------------- MODULE MCChangeFeed ----------------------------
(* A small instance of ChangeFeed for TLC. *)
EXTENDS ChangeFeed, TLC

Symmetry == Permutations(Node) \cup Permutations(Forum)
=============================================================================
