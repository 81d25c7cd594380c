---------------------------- MODULE MCBlockStore ----------------------------
(***************************************************************************)
(* Two processes, one operation each, on a block of three pieces and two   *)
(* blocks that can be inside it: coarse has the second piece as a block,   *)
(* fine the third one too.  The removals and the crashes are bounded.      *)
(***************************************************************************)
EXTENDS BlockStore

CONSTANTS MaxRemovals, MaxCrashes

APart(bytes)  == [block |-> None, bytes |-> bytes]
ABlock(b)     == [block |-> b, bytes |-> <<>>]
AsFile(bytes) == [s \in {"file"} |-> <<APart(bytes)>>]

MCLayout ==
    [b \in {"D", "X", "Z"} |->
        CASE b = "X" -> AsFile(<<2>>)
          [] b = "Z" -> AsFile(<<3>>)
          [] b = "D" ->
                [s \in {"file", "coarse", "fine"} |->
                    CASE s = "file"   -> <<APart(<<1, 2, 3>>)>>
                      [] s = "coarse" -> <<APart(<<1>>), ABlock("X"), APart(<<3>>)>>
                      [] s = "fine"   -> <<APart(<<1>>), ABlock("X"), APart(<<>>),
                                           ABlock("Z"), APart(<<>>)>>]]

Interchangeable == Permutations(Proc)

Bounds ==
    /\ Cardinality(removed) <= MaxRemovals
    /\ Cardinality({p \in Proc : pc[p] = "dead"}) <= MaxCrashes
=============================================================================
