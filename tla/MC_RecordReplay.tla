-------------------------- MODULE MC_RecordReplay --------------------------
(* Instances of RecordReplay.                                               *)
EXTENDS RecordReplay

Symmetry == Permutations(Handles) \cup Permutations(Threads)
=============================================================================
