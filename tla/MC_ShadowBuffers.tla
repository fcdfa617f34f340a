-------------------------- MODULE MC_ShadowBuffers --------------------------
(* The first thread has an object, a buffer of its own and one it gets from   *)
(* the API, with any lifetime; the second passes a static buffer.  The heap   *)
(* addresses are interchangeable.                                             *)
EXTENDS ShadowBuffers, TLC

CONSTANTS t1, t2, o1, b1, b2, w1, h1, h2

UsesOwn == (t1 :> {o1, b1, w1}) @@ (t2 :> {b2})
GivesAll == (t1 :> Lifetimes) @@ (t2 :> {"static"})
HeapSymmetry == Permutations({h1, h2})
=============================================================================
