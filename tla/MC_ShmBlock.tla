---------------------------- MODULE MC_ShmBlock ----------------------------
(* Instances of ShmBlock: a block of 14 bytes, two halves of 7.             *)
EXTENDS ShmBlock, TLC

Small == {0, 1, 2}
FreshOffsets == {0, 3, 40}   \* any value that does not wrap the word
Symmetry == Permutations(Threads)
=============================================================================
