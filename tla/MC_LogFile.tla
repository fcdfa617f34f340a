----------------------------- MODULE MC_LogFile -----------------------------
(* An instance of LogFile: a command with a data region and one without.    *)
EXTENDS LogFile

MCStruct == [c \in Commands |-> 1]
MCRegion == [c \in Commands |-> IF c = 7 THEN 1 ELSE 0]

Symmetry == Permutations(Threads)
=============================================================================
