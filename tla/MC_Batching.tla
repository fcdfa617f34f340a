---------------------------- MODULE MC_Batching ----------------------------
(* Instances of Batching. *)
EXTENDS Batching
=============================================================================
