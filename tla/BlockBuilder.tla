---------------------------- MODULE BlockBuilder ----------------------------
(***************************************************************************)
(* block_builder.py and the walk of block_splitter.py: how a message with  *)
(* pointers, or its bytes without them, becomes a multiblock directory,    *)
(* the bytes between its blocks and, for each block, the positions in the  *)
(* expanded object of the lengths that enclose it.                         *)
(*                                                                         *)
(* A directory is a record of its parts and its entries, of which there is *)
(* one fewer: part 1, block 1, part 2, ...  Refused is an exception.       *)
(***************************************************************************)
EXTENDS WireMessages

CONSTANTS
    Refused,
    Form,    \* block -> the directory it can also be stored as
    Parses   \* the blocks whose bytes happen to parse as a Buffer

(* What a directory expands to.                                             *)
Expansion(dir) ==
    FlattenSeq([i \in DOMAIN dir.parts |->
        dir.parts[i] \o (IF i \in DOMAIN dir.entries
                         THEN Content[dir.entries[i].block] ELSE <<>>)])

ASSUME BuilderAssumption ==
    /\ DOMAIN Form \subseteq Block
    /\ \A b \in DOMAIN Form : Expansion(Form[b]) = Content[b]
    /\ Parses \subseteq Block

DirentSize == 4096

(* Mutant of Size: a directory is measured as what the file system says.    *)
SizeOfDirent(b, directories) ==
    IF b \in directories THEN DirentSize ELSE Len(Content[b])

(* get_expanded_block_length and getsize: a file has its size, a directory  *)
(* that of its parts and of its blocks.  `directories` are the blocks that  *)
(* are stored as one.                                                       *)
RECURSIVE Size(_, _)
Size(b, directories) ==
    IF b \notin directories THEN Len(Content[b])
    ELSE SumFunction([i \in DOMAIN Form[b].parts |-> Len(Form[b].parts[i])])
         + SumFunction([i \in DOMAIN Form[b].entries |->
                            Size(Form[b].entries[i].block, directories)])

(* Mutant of Framed: a length always takes one byte.                        *)
FramedByOneByte(n) == 1 + 1 + n

(* A field of n bytes: a byte of tag, the length, the bytes.                *)
Framed(n) == 1 + VLen(n) + n

(* The bytes the search takes a field for: one byte of tag, one byte a      *)
(* character, a scalar measured.                                            *)
Assumed(field) ==
    CASE field.kind = "scalar"  -> Len(field.bytes)
      [] field.kind = "content" -> Framed(field.chars)
      [] OTHER                  -> Framed(Len(Bytes(field)))

(* search_on_message: the pointers to `blocks` in a message that begins at  *)
(* `initial`, each with the positions of the lengths around it (`chain`)    *)
(* and its own size.                                                        *)
RECURSIVE search_on_message(_, _, _, _, _)
search_on_message(fields, chain, initial, blocks, inherited) ==
    FoldLeft(
        LAMBDA s, f :
            LET here == Append(chain, s.position + 1) IN
            [position |-> s.position + Assumed(f),
             found |-> s.found \o
                CASE is_block(f, blocks, inherited) ->
                        <<[block |-> f.block, chain |-> here,
                           size |-> Len(Bytes(f))]>>
                  [] f.kind = "message" ->
                        search_on_message(f.fields, here,
                            s.position + 1 + VLen(Len(Bytes(f))),
                            blocks, inherited)
                  [] OTHER -> <<>>],
        [position |-> initial, found |-> <<>>], fields).found

(* assert_container_covers_blocks.                                          *)
Covers(found, blocks) ==
    \A b \in blocks : \E i \in DOMAIN found : found[i].block = b

(* create_lengths_tree: a node is the positions that lead to it, a leaf     *)
(* one of the chains found, the root the empty one.                         *)
Tree(found) ==
    UNION {{SubSeq(found[i].chain, 1, n) : n \in 0 .. Len(found[i].chain)}
           : i \in DOMAIN found}

Children(tree, node) ==
    {c \in tree : Len(c) = Len(node) + 1 /\ SubSeq(c, 1, Len(node)) = node}

Leaf(found, node) ==
    CHOOSE e \in ToSet(found) : e.chain = node

IsLeaf(found, node) == \E e \in ToSet(found) : e.chain = node

(* What a node has in the message with pointers.                            *)
OldLength(found, buffer, node) ==
    CASE node = <<>>         -> Len(buffer)
      [] IsLeaf(found, node) -> Leaf(found, node).size
      [] OTHER               -> VarintAt(buffer, Last(node))

(* traverse_tree: what a node has once the pointers are blocks.             *)
RECURSIVE RealLength(_, _, _, _)
RealLength(found, buffer, node, length) ==
    IF IsLeaf(found, node) THEN length[Leaf(found, node).block]
    ELSE LET inside == Children(Tree(found), node) IN
         OldLength(found, buffer, node)
         + MapThenSumSet(
            LAMBDA c : Framed(RealLength(found, buffer, c, length)), inside)
         - MapThenSumSet(
            LAMBDA c : Framed(OldLength(found, buffer, c)), inside)

(* Where it raises: what is inside is larger than the whole.                *)
TooShort(found, buffer) ==
    \E node \in Tree(found) :
        /\ ~IsLeaf(found, node)
        /\ OldLength(found, buffer, node)
            < MapThenSumSet(LAMBDA c : Framed(OldLength(found, buffer, c)),
                            Children(Tree(found), node))

(* compute_real_lengths: position -> length as it will be, as it is, and    *)
(* whether it is that of a pointer.                                         *)
compute_real_lengths(found, buffer, length) ==
    LET nodes == Tree(found) \ {<<>>}
        At(p) == CHOOSE n \in nodes : Last(n) = p
    IN  [p \in {Last(n) : n \in nodes} |->
            [real |-> RealLength(found, buffer, At(p), length),
             old  |-> OldLength(found, buffer, At(p)),
             leaf |-> IsLeaf(found, At(p))]]

(* generate_buffer: the bytes between the pointers, with the lengths as     *)
(* they will be.                                                            *)
generate_buffer(buffer, lengths) ==
    LET s == FoldLeft(
            LAMBDA t, p :
                IF p \notin DOMAIN lengths THEN t ELSE
                LET l    == lengths[p]
                    part == t.part \o Slice(buffer, t.i, p)
                                   \o encode_bytes(l.real)
                    i    == p + VLen(l.old)
                IN  IF l.leaf
                    THEN [parts |-> Append(t.parts, part), part |-> <<>>,
                          i |-> i + l.old]
                    ELSE [t EXCEPT !.part = part, !.i = i],
            [parts |-> <<>>, part |-> <<>>, i |-> 0],
            [n \in DOMAIN buffer |-> n - 1])
    IN  Append(s.parts, Slice(buffer, s.i, Len(buffer)))

(* Mutant of Agrees: that a length is there is enough.                      *)
AgreesIfThere(lengths, position, n) == position \in DOMAIN lengths

(* A pointer has the length computed for it.                                *)
Agrees(lengths, position, n) ==
    position \in DOMAIN lengths /\ lengths[position].real = n

(* search_on_message_real: the same search, counting the positions as they  *)
(* are and as they will be (`from`).  It raises where the two disagree.     *)
RECURSIVE search_on_message_real(_, _, _, _, _, _)
search_on_message_real(fields, from, blocks, inherited, lengths, dirs) ==
    FoldLeft(
        LAMBDA s, f :
            LET at   == s.position + 1
                here == Append(from.chain, s.real + 1)
                after(n, inner) ==
                    [position |-> s.position + Assumed(f), real |-> s.real + n,
                     found |-> s.found \o inner.found,
                     ok |-> s.ok /\ inner.ok]
            IN
            CASE f.kind = "message" /\ at \in DOMAIN lengths ->
                    after(Framed(lengths[at].real),
                        search_on_message_real(f.fields,
                            [chain |-> here,
                             position |-> at + VLen(Len(Bytes(f))),
                             real |-> s.real + 1 + VLen(lengths[at].real)],
                            blocks, inherited, lengths, dirs))
              [] is_block(f, blocks, inherited) ->
                    after(Framed(Size(f.block, dirs)),
                        [found |-> <<[block |-> f.block, chain |-> here]>>,
                         ok |-> Agrees(lengths, at, Size(f.block, dirs))])
              [] OTHER -> after(Assumed(f), [found |-> <<>>, ok |-> TRUE]),
        [position |-> from.position, real |-> from.real, found |-> <<>>,
         ok |-> TRUE],
        fields)

(* build_multiblock and build_multiblock_fractal, which differ in `length`, *)
(* the length they compute for each block.                                  *)
Built(fields, blocks, inherited, length, directories) ==
    LET buffer  == Serialized(fields)
        found   == search_on_message(fields, <<>>, 0, blocks, inherited)
        lengths == compute_real_lengths(found, buffer, length)
        real    == search_on_message_real(fields,
                        [chain |-> <<>>, position |-> 0, real |-> 0],
                        blocks, inherited, lengths, directories)
        parts   == generate_buffer(buffer, lengths)
    IN  IF \/ ~Covers(found, blocks)
           \/ TooShort(found, buffer)
           \/ ~real.ok
           \/ Len(parts) # Len(real.found) + 1
        THEN Refused
        ELSE [parts |-> parts, entries |-> real.found]

build_multiblock(fields, blocks, inherited, directories) ==
    Built(fields, blocks, inherited,
          [b \in Block |-> Size(b, directories)], directories)

(* get_recursive_block_length: in a file that parses as a Buffer it looks   *)
(* for the pointers to no block at all, finds none, and sums nothing.       *)
FractalLength(b, directories) ==
    IF b \notin directories /\ b \in Parses THEN 0 ELSE Size(b, directories)

build_multiblock_fractal(fields, blocks, inherited, directories) ==
    Built(fields, blocks, inherited,
          [b \in Block |-> FractalLength(b, directories)], directories)

(* Mutant of LengthPosition: where the field begins, not its length.        *)
TagPosition(writer, field) == writer.position

LengthPosition(writer, field) == writer.position + Len(Tag(field))

(* _walk of split_block: it reads the tags, so their width is no matter;    *)
(* the fields it makes blocks of are those marked `split`.                  *)
RECURSIVE Walk(_, _, _)
Walk(fields, chain, writer) ==
    FoldLeft(
        LAMBDA w, f :
            LET lead == Tag(f) \o encode_bytes(Len(Bytes(f)))
                here == Append(chain, LengthPosition(w, f))
                to   == [w EXCEPT !.part = @ \o lead,
                                  !.position = @ + Len(lead)]
            IN
            CASE f.kind = "scalar" ->
                    [w EXCEPT !.part = @ \o f.bytes,
                              !.position = @ + Len(f.bytes)]
              [] f.kind = "message" -> Walk(f.fields, here, to)
              [] f.kind = "content" /\ f.split ->
                    [parts |-> Append(w.parts, to.part), part |-> <<>>,
                     position |-> to.position + Len(f.bytes),
                     entries |-> Append(w.entries,
                        [bytes |-> f.bytes, chain |-> here])]
              [] OTHER ->
                    [to EXCEPT !.part = @ \o Bytes(f),
                               !.position = @ + Len(Bytes(f))],
        writer, fields)

(* _store_payload: a payload's id is the hash of its bytes.                 *)
IdOf(bytes) == CHOOSE b \in Block : Content[b] = bytes

(* The directory that split_block writes for a message without pointers.    *)
SplitInto(fields) ==
    LET w == Walk(fields, <<>>, [parts |-> <<>>, part |-> <<>>,
                                 position |-> 0, entries |-> <<>>])
    IN  [parts |-> Append(w.parts, w.part),
         entries |-> [i \in DOMAIN w.entries |->
            [block |-> IdOf(w.entries[i].bytes),
             chain |-> w.entries[i].chain]]]
=============================================================================
