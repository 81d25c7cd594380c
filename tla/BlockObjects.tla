---------------------------- MODULE BlockObjects ----------------------------
(***************************************************************************)
(* The data every other module talks about: objects cut into blocks, and   *)
(* the Buffer messages they travel in.                                     *)
(*                                                                         *)
(* A stored object or block is either one file or a multiblock directory   *)
(* whose `_.json` lists, in order, the files of plain bytes and the blocks *)
(* between them.  Both are a sequence of items here: a chunk (one piece of *)
(* at most CHUNK_SIZE bytes read from a file) or the id of a block.        *)
(***************************************************************************)
EXTENDS Naturals, SequencesExt

CONSTANTS
    Block,       \* the ids of the blocks
    Root,        \* the object that is sent: not a block, it has no id
    Chunk,       \* the pieces of plain bytes
    Body,        \* Body[n]: the items of n, in the form the sender stores it
    Rank,        \* how high a node is above the blocks it holds
    BlockDepth,  \* Enviroment.block_depth: how many levels a sender frames
    None         \* no block, no value

Node == Block \cup {Root}
Item == Chunk \cup Block

(* A block id is the hash of the block's expansion, so a block cannot hold  *)
(* itself at any depth: Rank says so without recursion.                     *)
ASSUME ObjectsAssumption ==
    /\ Root \notin Block
    /\ None \notin Node \cup Chunk
    /\ Chunk \cap Block = {}
    /\ Body \in [Node -> Seq(Item)]
    /\ Rank \in [Node -> Nat]
    /\ \A n \in Node : \A i \in 1..Len(Body[n]) :
          Body[n][i] \in Block => Rank[Body[n][i]] < Rank[n]
    /\ BlockDepth \in Nat \ {0}

(* The bytes a node stands for, every block in it replaced by its own.      *)
Expand[n \in Node] ==
    FlattenSeq([i \in 1..Len(Body[n]) |->
                  IF Body[n][i] \in Block THEN Expand[Body[n][i]]
                                          ELSE <<Body[n][i]>>])

(* The bytes of any list of items, by the content the ids in it name.       *)
BytesOf(items) ==
    FlattenSeq([i \in 1..Len(items) |->
                  IF items[i] \in Block THEN Expand[items[i]]
                                        ELSE <<items[i]>>])

(* Ids are hashes, taken to be free of collisions: content that is equal    *)
(* has one id.                                                              *)
ASSUME HashAssumption == \A b, c \in Block : Expand[b] = Expand[c] => b = c

(* Stored as a directory rather than one file.                              *)
IsDirectory(items) == \E i \in DOMAIN items : items[i] \in Block

-----------------------------------------------------------------------------
(* Buffer messages.  A Buffer has optional fields; these are the            *)
(* combinations that a Dir is serialized to.  "error" and "eof" are the two *)
(* ways in which the iterator that delivers Buffers can stop.               *)
Header     == [kind |-> "head",      val |-> None]
ChunkOf(x) == [kind |-> "chunk",     val |-> x]
Marker(b)  == [kind |-> "block",     val |-> b]
Separator  == [kind |-> "separator", val |-> None]
Error      == [kind |-> "error",     val |-> None]
Eof        == [kind |-> "eof",       val |-> None]

Buffer ==
    [kind : {"head", "separator", "error", "eof"}, val : {None}]
        \cup [kind : {"chunk"}, val : Chunk] \cup [kind : {"block"}, val : Block]
=============================================================================
