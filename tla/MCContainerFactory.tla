------------------------- MODULE MCContainerFactory -------------------------
(* Small instances of ContainerFactory: an id, another spelling of it, an id *)
(* nested under it, one that leads to the root itself and the empty one.     *)
EXTENDS ContainerFactory, TLC

CONSTANTS p1, p2, p3

A  == <<"a">>
AB == <<"a", "b">>
MCPaths == {Root, A, AB}
MCJoin == "a" :> A @@ "x/../a" :> A @@ "a/b" :> AB @@ ".." :> Root @@ "" :> Root
MCIds == DOMAIN MCJoin
Symmetry == Permutations({p1, p2, p3})
=============================================================================
