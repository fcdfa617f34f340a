--------------------------- MODULE MC_GpuManager ---------------------------
(* Instances of GpuManager: node n1 with two GPUs, node n2 with one.        *)
EXTENDS GpuManager

TwoNodes == {"n1", "n2"}
ThreeGpus == {"g1", "g2", "g3"}
Placement == [g \in ThreeGpus |-> IF g = "g3" THEN "n2" ELSE "n1"]
Sizes == [g \in ThreeGpus |-> CASE g = "g1" -> 4 [] g = "g2" -> 2 [] g = "g3" -> 3]
Vectors == {<<1, 3>>, <<2, 2>>, <<4>>, <<0>>}
Symmetry == Permutations(Apps)
=============================================================================
