---------------------------- MODULE MCMigration ----------------------------
(* Small instances of Migration for TLC. *)
EXTENDS Migration, TLC

CONSTANTS s1, s2, s3, f1, f2

\* s1 and s3 are two spellings of one user.
MCTarget == (s1 :> f1) @@ (s2 :> f2) @@ (s3 :> f1)

Symmetry == Permutations(Migrator)
=============================================================================
