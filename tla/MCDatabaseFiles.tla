-------------------------- MODULE MCDatabaseFiles --------------------------
(* A small instance of DatabaseFiles for TLC. *)
EXTENDS DatabaseFiles, TLC

WriteSymmetry == Permutations(Write)

=============================================================================
