--------------------------- MODULE MC_RemoteCalls ---------------------------
(* Instances of RemoteCalls for TLC: threads of the guest and of the worker. *)
EXTENDS RemoteCalls

OneGuest  == {"g1"}
BothSides == {"g1", "w1"}

HomeOf == [i \in Ids |-> IF i = "w1" THEN "worker" ELSE "guest"]
SyncOnly == {"sync"}
AnyMode  == {"sync", "async"}
=============================================================================
