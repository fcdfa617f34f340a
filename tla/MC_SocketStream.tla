-------------------------- MODULE MC_SocketStream --------------------------
EXTENDS SocketStream, TLC

CONSTANTS g1, g2, w1

MCSideOf == (g1 :> "guest") @@ (g2 :> "guest") @@ (w1 :> "worker")
=============================================================================
