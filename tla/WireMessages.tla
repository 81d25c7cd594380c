---------------------------- MODULE WireMessages ----------------------------
(***************************************************************************)
(* Protobuf messages as the bytes they are serialized to, as far as the    *)
(* arithmetic of lengths sees them: which field lies where, and the varint *)
(* before it that says how long it is.  A varint has Radix values in a     *)
(* byte (128 in the code); a byte is a number below 2 * Radix, and from    *)
(* Radix on there are more to come.  Positions count from 0, as in the     *)
(* code.                                                                   *)
(*                                                                         *)
(* A message is a sequence of fields.  A field is a "scalar" (or a map, or *)
(* repeated scalars: what ByteSize measures with its tag), "content" that  *)
(* is bytes or a string, a "pointer" to a block in a bytes field, or a     *)
(* "message", once for each element of a repeated one.                     *)
(***************************************************************************)
EXTENDS Integers, SequencesExt, HashTypes

CONSTANTS
    Radix,       \* values in a byte of a varint
    Content,     \* block -> its bytes
    HashLength,  \* bytes of a hash in a pointer
    TypeLength   \* bytes that a type stated adds to it

ASSUME WireAssumption ==
    /\ Radix \in Nat \ {0, 1}
    /\ \A b \in DOMAIN Content :
        Content[b] \in Seq(0 .. 2 * Radix - 1)
    /\ HashLength \in Nat /\ TypeLength \in Nat

Block == DOMAIN Content

RECURSIVE VLen(_)
VLen(n) == IF n < Radix THEN 1 ELSE 1 + VLen(n \div Radix)

RECURSIVE encode_bytes(_)
encode_bytes(n) ==
    IF n < Radix THEN <<n>>
    ELSE <<Radix + (n % Radix)>> \o encode_bytes(n \div Radix)

(* The varint at a position of a buffer, read as far as there are bytes.    *)
RECURSIVE VarintAt(_, _)
VarintAt(buffer, position) ==
    IF position >= Len(buffer) THEN 0
    ELSE LET byte == buffer[position + 1]
         IN  IF byte < Radix THEN byte
             ELSE byte - Radix + Radix * VarintAt(buffer, position + 1)

(* buffer[from:to] of the code.                                             *)
Slice(buffer, from, to) ==
    SubSeq(buffer, from + 1, IF to < Len(buffer) THEN to ELSE Len(buffer))

(* A pointer field is of `block`, by the hash of each of `algorithms`, with *)
(* the types that `types` states.  Its bytes only matter in number.         *)
PointerBytes(block, types) ==
    LET stated == SelectSeq(types, LAMBDA t : t # None)
    IN  [i \in 1 .. HashLength * Len(types) + TypeLength * Len(stated) |->
            (Len(Content[block]) + i) % Radix]

(* A field number above 15 takes a second byte of tag.                      *)
Tag(field) == IF field.wide THEN <<Radix + 1, 1>> ELSE <<1>>

RECURSIVE Serialized(_)
Bytes(field) ==
    CASE field.kind = "scalar"  -> field.bytes
      [] field.kind = "content" -> field.bytes
      [] field.kind = "pointer" -> PointerBytes(field.block, field.types)
      [] field.kind = "message" -> Serialized(field.fields)

(* SerializeToString.                                                       *)
Serialized(fields) ==
    FoldLeft(LAMBDA out, field :
                IF field.kind = "scalar" THEN out \o Bytes(field)
                ELSE out \o Tag(field) \o encode_bytes(Len(Bytes(field)))
                         \o Bytes(field),
             <<>>, fields)

ByteSize(fields) == Len(Serialized(fields))

(* block_pointer: the one hash of this node, its type stated or not.        *)
block_pointer(block, omit_types) ==
    [block |-> block, algorithms |-> <<NodeType>>,
     types |-> <<IF omit_types THEN None ELSE NodeType>>]

block_pointer_length(block, omit_types) ==
    Len(PointerBytes(block, block_pointer(block, omit_types).types))

(* block_id_from_pointer: a hash by an algorithm that its type does not     *)
(* name is the key of no block.                                             *)
block_id_from_pointer(field, inherited) ==
    LET k == KeyIndex(field.types, inherited)
    IN  IF k # 0 /\ field.algorithms[k] = NodeType THEN field.block ELSE None

(* is_block, for a field of the kind that can be one.                       *)
is_block(field, blocks, inherited) ==
    /\ field.kind = "pointer"
    /\ block_id_from_pointer(field, inherited) \in blocks

(* What the message stands for: its pointers to `blocks` replaced by the    *)
(* blocks.                                                                  *)
RECURSIVE Inlined(_, _, _)
Inlined(fields, blocks, inherited) ==
    [i \in DOMAIN fields |->
        LET f == fields[i] IN
        CASE is_block(f, blocks, inherited) ->
                [kind |-> "content", wide |-> f.wide, split |-> TRUE,
                 bytes |-> Content[f.block], chars |-> Len(Content[f.block])]
          [] f.kind = "message" ->
                [f EXCEPT !.fields = Inlined(f.fields, blocks, inherited)]
          [] OTHER -> f]

(* The same message with those pointers in the form this node writes.       *)
RECURSIVE Repointed(_, _, _, _)
Repointed(fields, blocks, inherited, omit_types) ==
    [i \in DOMAIN fields |->
        LET f == fields[i] IN
        CASE is_block(f, blocks, inherited) ->
                [kind |-> "pointer", wide |-> f.wide] @@
                    block_pointer(f.block, omit_types)
          [] f.kind = "message" ->
                [f EXCEPT !.fields =
                    Repointed(f.fields, blocks, inherited, omit_types)]
          [] OTHER -> f]

(* The blocks `blocks` that a message points to, in any field.              *)
RECURSIVE PointedTo(_, _, _)
PointedTo(fields, blocks, inherited) ==
    UNION {LET f == fields[i] IN
           IF is_block(f, blocks, inherited) THEN {f.block}
           ELSE IF f.kind = "message"
                THEN PointedTo(f.fields, blocks, inherited) ELSE {}
           : i \in DOMAIN fields}

(* Every field number below 16 and every string of one byte a character, as *)
(* the search of the builder takes them to be.                              *)
RECURSIVE Narrow(_)
Narrow(fields) ==
    \A i \in DOMAIN fields :
        LET f == fields[i] IN
        CASE f.kind = "scalar"  -> TRUE
          [] f.kind = "content" -> ~f.wide /\ f.chars = Len(f.bytes)
          [] f.kind = "pointer" -> ~f.wide
          [] f.kind = "message" -> ~f.wide /\ Narrow(f.fields)
=============================================================================
