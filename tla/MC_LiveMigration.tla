-------------------------- MODULE MC_LiveMigration --------------------------
(* An instance of LiveMigration.                                            *)
EXTENDS LiveMigration

Symmetry == Permutations(Handles) \cup Permutations(Threads)
=============================================================================
