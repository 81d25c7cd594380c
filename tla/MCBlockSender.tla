--------------------------- MODULE MCBlockSender ----------------------------
(* An instance of BlockSender: the object holds the directory block A       *)
(* twice in a row, and under A blocks go four deep, A-B-C-D, one more level *)
(* than is framed, with plain bytes before, between and after them.         *)
EXTENDS BlockSender

CONSTANTS A, B, C, D, w, x, y, z

MCBlock == {A, B, C, D}
MCChunk == {w, x, y, z}
MCBody  == (Root :> <<w, A, A>>) @@ (A :> <<B, x, C>>)
             @@ (B :> <<y, C>>) @@ (C :> <<D, z>>) @@ (D :> <<z, w>>)
MCRank  == (Root :> 4) @@ (A :> 3) @@ (B :> 2) @@ (C :> 1) @@ (D :> 0)

MCMayBreak  == {B}
MCMayVanish == {C, D}
=============================================================================
