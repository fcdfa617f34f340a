-------------------------- MODULE MC_GuestConnect --------------------------
(* Two applications in one VM, whose memory holds two blocks and a half:    *)
(* both fit when the VM had no application before; when it had two, neither *)
(* does, and they share the block at offset 0.                              *)
EXTENDS GuestConnect, TLC

CONSTANTS a1, a2

OneVm == {(a1 :> 2) @@ (a2 :> 2)}
=============================================================================
