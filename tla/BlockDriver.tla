----------------------------- MODULE BlockDriver ----------------------------
(***************************************************************************)
(* block_driver.py and validate_lengths_tree.py: the object with pointers  *)
(* (wbp.bin) of a stored directory, from its parts and the positions that  *)
(* its _.json has.  Each block becomes a pointer, and each length around   *)
(* it what it then is; a smaller length may take fewer bytes, and so make  *)
(* the lengths around it smaller still.                                    *)
(***************************************************************************)
EXTENDS BlockBuilder

(* file_list and buffer of generate_wbp_file: the parts and the blocks.     *)
Items(dir) ==
    FlattenSeq([i \in DOMAIN dir.parts |->
        <<[block |-> None, bytes |-> dir.parts[i]]>> \o
        (IF i \in DOMAIN dir.entries
         THEN <<[block |-> dir.entries[i].block, bytes |-> <<>>]>>
         ELSE <<>>)])

ItemSize(item, directories) ==
    IF item.block = None THEN Len(item.bytes) ELSE Size(item.block, directories)

(* Where an item begins in the expanded object.                             *)
Start(items, n, directories) ==
    SumFunction([i \in 1 .. n - 1 |-> ItemSize(items[i], directories)])

(* seek_expanded_position, and the loop of set_varint_value: the item that  *)
(* a position is in; 0 where it is in none.                                 *)
Seek(items, position, directories) ==
    SelectInSeq([n \in DOMAIN items |-> n], LAMBDA n :
        LET start == Start(items, n, directories)
        IN  /\ start <= position
            /\ position < start + ItemSize(items[n], directories))

get_varint_at_position(items, position, directories) ==
    LET n    == Seek(items, position, directories)
        file == IF items[n].block = None THEN items[n].bytes
                ELSE Content[items[n].block]
    IN  VarintAt(file, position - Start(items, n, directories))

(* The check of each entry of _.json.                                       *)
ValidEntry(e) ==
    /\ e.chain # <<>>
    /\ \A i \in 1 .. Len(e.chain) - 1 : e.chain[i] <= e.chain[i + 1]

(* get_pruned_block_length: what a block adds to its pointer.               *)
PrunedBlock(b, omit_types, directories) ==
    Size(b, directories) - block_pointer_length(b, omit_types)

(* validate_lengths_tree: the length before each block is at least its own. *)
ValidLengths(dir, omit_types, directories) ==
    \A i \in DOMAIN dir.entries :
        LET e == dir.entries[i]
        IN  PrunedBlock(e.block, omit_types, directories)
                <= get_varint_at_position(Items(dir), Last(e.chain), directories)

(* compute_wbp_lengths: what goes from inside a node of the lengths tree,   *)
(* and what goes with its own length when that takes fewer bytes.           *)
StatedLength(dir, node, directories) ==
    get_varint_at_position(Items(dir), Last(node), directories)

RECURSIVE Pruned(_, _, _, _)

(* Mutant of Augmented: what a shorter length saves is not counted.         *)
AugmentedByBlocks(dir, node, omit_types, directories) ==
    Pruned(dir, node, omit_types, directories)

Augmented(dir, node, omit_types, directories) ==
    LET stated == StatedLength(dir, node, directories)
        pruned == Pruned(dir, node, omit_types, directories)
    IN  pruned + VLen(stated) - VLen(stated - pruned)

Pruned(dir, node, omit_types, directories) ==
    IF IsLeaf(dir.entries, node)
    THEN PrunedBlock(Leaf(dir.entries, node).block, omit_types, directories)
    ELSE MapThenSumSet(
            LAMBDA c : Augmented(dir, c, omit_types, directories),
            Children(Tree(dir.entries), node))

Nodes(dir) == Tree(dir.entries) \ {<<>>}

compute_wbp_lengths(dir, omit_types, directories) ==
    [p \in {Last(n) : n \in Nodes(dir)} |->
        LET node == CHOOSE n \in Nodes(dir) : Last(n) = p
        IN  StatedLength(dir, node, directories)
                - Pruned(dir, node, omit_types, directories)]

(* set_varint_value, in the part that the position is in.                   *)
set_varint_value(items, position, value, directories) ==
    LET n  == Seek(items, position, directories)
        at == position - Start(items, n, directories)
        bytes == items[n].bytes
        end == CHOOSE i \in at .. Len(bytes) - 1 :
                /\ bytes[i + 1] < Radix
                /\ \A j \in at .. i - 1 : bytes[j + 1] >= Radix
    IN  [items EXCEPT ![n].bytes =
            Slice(bytes, 0, at) \o encode_bytes(value)
                \o Slice(bytes, end + 1, Len(bytes))]

(* From the last to the first, for rewriting one moves those after it.      *)
ByPosition(positions) ==
    LET top == CHOOSE p \in positions : \A q \in positions : q <= p
    IN  SelectSeq([i \in 1 .. top + 1 |-> top + 1 - i],
                  LAMBDA p : p \in positions)

(* regenerate_buffer.                                                       *)
regenerate_buffer(dir, lengths, omit_types, directories) ==
    LET rewritten ==
            IF DOMAIN lengths = {} THEN Items(dir)
            ELSE FoldLeft(
                    LAMBDA items, p :
                        set_varint_value(items, p, lengths[p], directories),
                    Items(dir), ByPosition(DOMAIN lengths))
    IN  FlattenSeq([i \in DOMAIN rewritten |->
            LET item == rewritten[i] IN
            IF item.block = None THEN item.bytes
            ELSE PointerBytes(item.block,
                              block_pointer(item.block, omit_types).types)])

(* Every length to be read or written is in a part.                         *)
LengthsInParts(dir, directories) ==
    \A node \in Nodes(dir) :
        LET n == Seek(Items(dir), Last(node), directories)
        IN  n # 0 /\ Items(dir)[n].block = None

(* generate_wbp_file.                                                       *)
generate_wbp_file(dir, omit_types, directories) ==
    LET lengths == compute_wbp_lengths(dir, omit_types, directories)
    IN  IF \/ \E i \in DOMAIN dir.entries : ~ValidEntry(dir.entries[i])
           \/ ~LengthsInParts(dir, directories)
           \/ ~ValidLengths(dir, omit_types, directories)
           \/ \E p \in DOMAIN lengths : lengths[p] < 0
        THEN Refused
        ELSE regenerate_buffer(dir, lengths, omit_types, directories)
=============================================================================
