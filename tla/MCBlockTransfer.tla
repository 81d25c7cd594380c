-------------------------- MODULE MCBlockTransfer ---------------------------
(* Instances of BlockTransfer.  Small: the object holds the directory block *)
(* A, and C both inside A and again after it, with A's own bytes before and *)
(* after C.  Deep: a chain of blocks, three levels down, and its innermost  *)
(* block again after it.                                                    *)
EXTENDS BlockTransfer

CONSTANTS A, B, C, w, x, y, z

SmallBlock == {A, C}
SmallChunk == {x, y, z}
SmallBody  == (Root :> <<A, z, C>>) @@ (A :> <<y, C, z>>) @@ (C :> <<x>>)
SmallRank  == (Root :> 2) @@ (A :> 1) @@ (C :> 0)

DeepBlock == {A, B, C}
DeepChunk == {w, x, y, z}
DeepBody  == (Root :> <<A, w, C>>) @@ (A :> <<B, z>>) @@ (B :> <<y, C>>) @@ (C :> <<x, w>>)
DeepRank  == (Root :> 3) @@ (A :> 2) @@ (B :> 1) @@ (C :> 0)

NoBlock == {}
OnlyA   == {A}
OnlyC   == {C}
=============================================================================
